-------------------------- MODULE MCPowerController --------------------------
EXTENDS PowerController
=============================================================================
