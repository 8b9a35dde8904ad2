------------------------------- MODULE MCXray -------------------------------
EXTENDS XrayManager

CONSTANTS main, a1
=============================================================================
