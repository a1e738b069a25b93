---------------------------- MODULE MCCoalescing ----------------------------
(* Instances of Coalescing for TLC.                                        *)
EXTENDS Coalescing, TLC

CONSTANTS r1, r2, r3, read, write, alice, bob

Symmetry == Permutations({r1, r2, r3})

Ask(key, client, method, bypass) ==
  [cacheKey |-> key, client |-> client, method |-> method, bypass |-> bypass]

Read == Ask(read, alice, "GET", FALSE)
OtherRead == Ask(read, bob, "GET", FALSE)
FreshRead == Ask(read, alice, "GET", TRUE)
Write == Ask(write, alice, "POST", FALSE)

\* A read, the same read insisting on a fresh response, a read of the same
\* cache key by another client.
SafetyShapes == {Read, OtherRead, FreshRead}
\* Two clients whose reads share a cache key and nothing else, and a request
\* that changes something.
ServedShapes == {Read, OtherRead, Write}
OneShape == {Read}

Caching == [cacheMethods |-> {"GET"}, buffered |-> FALSE, transforms |-> FALSE]
Shaping == [cacheMethods |-> {}, buffered |-> FALSE, transforms |-> TRUE]
Local == [cacheMethods |-> {}, buffered |-> TRUE, transforms |-> FALSE]
Streaming == [cacheMethods |-> {}, buffered |-> FALSE, transforms |-> FALSE]

SafetyConfigs == {Caching, Shaping}
FairConfigs == {Caching, Shaping, Streaming}
UncachedConfigs == {Shaping, Local, Streaming}
=============================================================================
