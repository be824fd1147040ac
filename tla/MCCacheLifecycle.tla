---- MODULE MCCacheLifecycle ----
\* Model checking of CacheLifecycle: two services and two
\* maintenance commands.
EXTENDS CacheLifecycle
====
