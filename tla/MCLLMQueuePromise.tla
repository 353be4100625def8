-------------------------- MODULE MCLLMQueuePromise --------------------------
(* LLMQueuePromise on a small instance.                                     *)
EXTENDS LLMQueuePromise

CONSTANTS j1, j2

=============================================================================
