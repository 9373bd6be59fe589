----------------------------- MODULE MCCacheQueue -----------------------------
(* CacheQueue for TLC.                                                     *)
EXTENDS CacheQueue
===============================================================================
