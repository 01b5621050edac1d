------------------------------ MODULE MCTasks -------------------------------
EXTENDS Tasks
=============================================================================
