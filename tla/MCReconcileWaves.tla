-------------------------- MODULE MCReconcileWaves --------------------------
EXTENDS ReconcileWaves
=============================================================================
