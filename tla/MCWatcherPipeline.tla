-------------------------- MODULE MCWatcherPipeline --------------------------
EXTENDS WatcherPipeline

CONSTANTS a, b
=============================================================================
