---------------------------- MODULE CandleCaches ----------------------------
(***************************************************************************)
(* The caches of core/fetcher/ over the sources they are filled from: each *)
(* behaviour uses one source.                                              *)
(***************************************************************************)
EXTENDS MonthCache, DumpCache

IsCandles == source \in {"rest", "vision", "stock"}

InitCaches == InitWorld /\ InitCache /\ InitDump

Outside ==
  /\ Tick \/ Split \/ \E f \in Files : Appear(f)
  /\ UNCHANGED <<cacheVars, dumpVars>>

NextCaches ==
  \/ Outside
  \/ IsCandles /\ CacheStep /\ UNCHANGED <<world, dumpVars>>
  \/ IsDump /\ DumpStep /\ UNCHANGED <<world, cacheVars>>

SpecCaches == InitCaches /\ [][NextCaches]_<<world, cacheVars, dumpVars>>
=============================================================================
