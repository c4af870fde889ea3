--------------------------- MODULE MCCacheSystem ---------------------------
(* Instances of CacheSystem for TLC.  All lines of a cache are in one set,  *)
(* except in MCSets2, where L3 has two.                                     *)
EXTENDS CacheSystem

MCBlock == 0 .. 2
MCBlock5 == 0 .. 4
Load(A) == [addr : A, type : {"READ"}]
Store(A) == [addr : A, type : {"WRITE"}]
Built(first, last, requests) ==
  [cores |-> DOMAIN requests, first_level |-> first, last_level |-> last, requests |-> requests]

Everything == << Load(MCBlock) \cup Store(MCBlock) >>
Little == << Load({0}) \cup Store({1}), Load({0}) \cup Store({2}) >>
One == {Built(L1, L3, Everything)}
Evicting == << Load({0}) \cup Store({1, 2}), Load({0}) \cup Store({2}) >>
Two == {Built(L1, L2, Evicting)}
Shared == {Built(L3, L3, Little)}
MCConfigs == One \cup Two \cup Shared

\* two cores with all levels, and block 0 used by both
MCSharing == {Built(L1, L3, << Load({0, 4}), Store(0 .. 2) >>)}

MCSets == <<1, 1, 1>>
MCSets2 == <<1, 1, 2>>
MCMshrs == <<2, 2, 2>>
MCLatency == <<2, 3, 4>>
MCEach == <<1, 1, 1>>
=============================================================================
