---------------------------- MODULE MCWorkflowDag ----------------------------
\* WorkflowDag on every dependency relation of a few steps, cycles included.
EXTENDS WorkflowDag
=============================================================================
