---------------------------- MODULE MCPlanBilling ----------------------------
EXTENDS PlanBilling

CONSTANTS K, L, Periodic, Woken

==============================================================================
