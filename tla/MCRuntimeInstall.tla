-------------------------- MODULE MCRuntimeInstall --------------------------
EXTENDS RuntimeInstall
=============================================================================
