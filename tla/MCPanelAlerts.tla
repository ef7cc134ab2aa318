---------------------------- MODULE MCPanelAlerts ----------------------------
(* Values for the constants of PanelAlerts: one admin besides the owner.    *)
EXTENDS PanelAlerts

CONSTANT admin
OneAdmin == <<admin>>
=============================================================================
