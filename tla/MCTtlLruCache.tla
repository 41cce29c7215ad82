--------------------------- MODULE MCTtlLruCache ----------------------------
\* TLC instance of TtlLruCache.
EXTENDS TtlLruCache
=============================================================================
