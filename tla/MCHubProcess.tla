---------------------------- MODULE MCHubProcess ----------------------------
EXTENDS HubProcess

TwoSamples == <<2, 1>>
==============================================================================
