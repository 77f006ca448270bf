---------------------------- MODULE MCLlmBudget ----------------------------
EXTENDS LlmBudget

CONSTANTS a1, a2, a3
=============================================================================
