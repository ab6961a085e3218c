---------------------------- MODULE MCCallbackWorker ----------------------------
EXTENDS CallbackWorker, TLC

CONSTANTS c1, c2
==============================================================================
