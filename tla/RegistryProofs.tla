---------------------------- MODULE RegistryProofs ----------------------------
(***************************************************************************)
(* Proofs that, however the callers of a registry client interleave, what  *)
(* a pull gives is what the manifest, the lockfile and the yanks allow.    *)
(***************************************************************************)
EXTENDS PackRegistry, TLAPS

-----------------------------------------------------------------------------
(* The invariant.                                                          *)

\* The version is known to be withdrawn, or was published anew since.
Gone(v) == records[v].yanked \/ v \in reissued

\* A call that is past its request has a manifest.
Told == \A c \in Callers : call[c].at \notin {"idle", "asked"} => call[c].manifest \in Manifests

RecordsNamed == \A v \in Versions : records[v] # NoManifest => records[v].version = v

\* What the cache has under a digest was verified, or is as add was given it.
BlobsTrue == \A d \in Digests : blobs[d] \in {NoDigest, d} \/ d \in added

\* It looks at the pin before it has bytes.
PinAsked == \A c \in Callers :
    kind = "http" /\ call[c].at \in {"fetching", "hashing"} => ~ Unpins(call[c].manifest)

\* A pull of what was yanked ends before it has bytes.
DeadStopped == \A c \in Callers :
    call[c].op = "pull" /\ call[c].dead /\ ~ Forced =>
        \/ call[c].at = "asked" /\ Dead(call[c].asked)
        \/ kind = "http" /\ call[c].at = "answered" /\ call[c].manifest.yanked

\* A version has the digest it was found with, unless published anew.
Same(v, d) == records[v].sha = d \/ v \in reissued

HitsFollowed == \A c \in Callers :
    /\ found[c] # NoManifest => Same(found[c].version, found[c].sha)
    /\ call[c].hit # NoDigest =>
          /\ call[c].at = "asked" => call[c].asked \in Versions /\ Same(call[c].asked, call[c].hit)
          /\ call[c].at # "asked" =>
                call[c].manifest.sha = call[c].hit \/ call[c].manifest.version \in reissued

\* Whoever holds a manifest that says so, the version is gone.
Honest(m) == m.yanked => Gone(m.version)

YanksTrue ==
    /\ \A v \in Versions \cup {Latest} : Honest(manifests[v])
    /\ \A v \in Versions : manifests[v] # NoManifest => manifests[v].version = v
    /\ \A c \in Callers : Honest(held[c]) /\ Honest(call[c].manifest)

\* What a call knew as yanked is gone, and its answer says so, too.
SinceTrue == \A c \in Callers :
    /\ \A v \in call[c].since : Gone(v)
    /\ call[c].op \in {"keep", "strict", "publish"} => call[c].at \in {"fetching", "hashing"}
    /\ call[c].op = "strict" => kind = "http" /\ call[c].stored
    /\ call[c].op = "publish" => kind = "memory"
    /\ call[c].at \notin {"idle", "asked"} /\ call[c].op \notin {"keep", "strict", "publish"} =>
          \/ call[c].manifest.yanked \/ call[c].manifest.version \in reissued
          \/ call[c].manifest.version \notin call[c].since

-----------------------------------------------------------------------------
(* What the helpers do.                                                    *)

LEMMA ManifestTypes ==
    /\ NoManifest \in Held /\ Latest \notin Versions
    /\ \A m \in Held : /\ m \in Manifests => m \in Held
                       /\ m # NoManifest => m.version \in Versions /\ m.sha \in Digests
                       /\ m.version \in Versions \cup {Latest} /\ m.sha \in Bytes
                       /\ m.yanked \in BOOLEAN
<1>1. NoManifest \in Held /\ Latest \notin Versions
  BY RegistryAssumption DEF Held, Latest
<1>2. ASSUME NEW m \in Held
      PROVE  /\ m \in Manifests => m \in Held
             /\ m # NoManifest => m.version \in Versions /\ m.sha \in Digests
             /\ m.version \in Versions \cup {Latest} /\ m.sha \in Bytes
             /\ m.yanked \in BOOLEAN
  <2>1. CASE m \in Manifests
    BY <2>1 DEF Held, Manifests, Bytes
  <2>2. CASE m = NoManifest
    BY <2>2 DEF Held, NoManifest, Bytes
  <2> QED
    BY <2>1, <2>2 DEF Held
<1> QED
  BY <1>1, <1>2

\* The cache after setManifest.
LEMMA ManifestSet ==
    ASSUME TypeOK, NEW m \in Held, SetManifest(m)
    PROVE  /\ manifests' \in [Versions \cup {Latest} -> Held]
           /\ \A v \in Versions : manifests'[v] = IF v = m.version THEN m ELSE manifests[v]
  BY ManifestTypes DEF SetManifest, TypeOK

\* One caller goes on.
LEMMA CallerGoes ==
    ASSUME TypeOK, NEW c \in Callers, NEW k \in Calls, Go(c, k)
    PROVE  /\ call' \in [Callers -> Calls] /\ call'[c] = k
           /\ \A d \in Callers : d # c => call'[d] = call[d]
  BY DEF Go, TypeOK

LEMMA IdleType == Idle \in Calls /\ Nothing \in [how : Operations \cup {"offline"}, manifest : Held,
                                                  bytes : Bytes, hit : Bytes, dead : BOOLEAN, raw : BOOLEAN]
  BY ManifestTypes DEF Idle, Nothing, Calls, Operations, Held, Bytes, Latest

\* What a pull of an HttpPackRegistry goes on with: nothing, what is stored, or
\* the download.
Stored(k, m)  == [k EXCEPT !.manifest = m, !.bytes = blobs[m.sha], !.stored = TRUE, !.at = "hashing"]
Missing(k, m) == [k EXCEPT !.manifest = m, !.bytes = NoDigest, !.stored = FALSE, !.at = "fetching"]

LEMMA PullGoes ==
    ASSUME TypeOK, NEW c \in Callers, NEW k \in Calls, NEW m \in Manifests, Pull(c, k, m)
    PROVE  /\ Stored(k, m) \in Calls /\ Missing(k, m) \in Calls
           /\ \/ Go(c, Idle)
              \/ ~ Denied(m) /\ ~ Unpins(m) /\ blobs[m.sha] # NoDigest /\ Go(c, Stored(k, m))
              \/ ~ Denied(m) /\ ~ Unpins(m) /\ blobs[m.sha] = NoDigest /\ Go(c, Missing(k, m))
<1>1. m \in Held /\ m.sha \in Digests /\ blobs[m.sha] \in Bytes
  BY DEF Manifests, Held, TypeOK
<1>2. Stored(k, m) \in Calls /\ Missing(k, m) \in Calls
  BY <1>1 DEF Stored, Missing, Calls, Bytes
<1>3. CASE Denied(m) \/ Unpins(m)
  BY <1>2, <1>3 DEF Pull, End
<1>4. CASE ~ (Denied(m) \/ Unpins(m)) /\ blobs[m.sha] # NoDigest
  <2>1. Go(c, Stored(k, m))
    BY <1>4 DEF Pull, Stored
  <2> QED
    BY <1>2, <1>4, <2>1
<1>5. CASE ~ (Denied(m) \/ Unpins(m)) /\ blobs[m.sha] = NoDigest
  <2>1. Go(c, Missing(k, m))
    BY <1>5 DEF Pull, Missing
  <2> QED
    BY <1>2, <1>5, <2>1
<1> QED
  BY <1>3, <1>4, <1>5

\* A call begins with the yanks the cache knows.
LEMMA CallBegins ==
    ASSUME TypeOK, NEW c \in Callers, NEW k \in Calls, Begin(c, k)
    PROVE  /\ call[c] = Idle /\ calls' \in Nat
           /\ [k EXCEPT !.since = Yanked] \in Calls
           /\ Go(c, [k EXCEPT !.since = Yanked])
<1>1. Yanked \in SUBSET Versions
  BY DEF Yanked
<1>2. [k EXCEPT !.since = Yanked] \in Calls
  BY <1>1 DEF Calls
<1> QED
  BY <1>2 DEF Begin, TypeOK

\* A new publication takes nothing from a call but that what it asked for is dead.
LEMMA AliveCall ==
    ASSUME NEW k \in Calls, NEW v
    PROVE  /\ Alive(v, k) \in Calls
           /\ Alive(v, k).dead => k.dead /\ k.asked \notin {v, Latest}
           /\ Alive(v, k).op = k.op /\ Alive(v, k).at = k.at /\ Alive(v, k).asked = k.asked
           /\ Alive(v, k).manifest = k.manifest /\ Alive(v, k).bytes = k.bytes
           /\ Alive(v, k).stored = k.stored /\ Alive(v, k).hit = k.hit /\ Alive(v, k).since = k.since
<1> DEFINE dead == k.dead /\ k.asked \notin {v, Latest}
<1>1. dead \in BOOLEAN
  OBVIOUS
<1>2. Alive(v, k) = [k EXCEPT !.dead = dead]
  BY DEF Alive
<1> HIDE DEF dead
<1>3. [k EXCEPT !.dead = dead] \in Calls /\ [k EXCEPT !.dead = dead].dead = dead
  BY <1>1 DEF Calls
<1> QED
  BY <1>2, <1>3 DEF dead, Calls
-----------------------------------------------------------------------------
(* Types.                                                                  *)

Types == TypeOK /\ Told

LEMMA TypesStart == Init => Types
<1> SUFFICES ASSUME Init PROVE Types
  OBVIOUS
<1>1. TypeOK
  <2>1. call \in [Callers -> Calls] /\ answer \in [how : Operations \cup {"offline"}, manifest : Held,
                                                   bytes : Bytes, hit : Bytes, dead : BOOLEAN, raw : BOOLEAN]
    BY IdleType DEF Init
  <2>2. /\ records \in [Versions -> Held] /\ manifests \in [Versions \cup {Latest} -> Held]
        /\ held \in [Callers -> Held] /\ found \in [Callers -> Held]
    BY ManifestTypes DEF Init
  <2>3. /\ contents \in [Versions -> Bytes] /\ blobs \in [Digests -> Bytes]
        /\ kind \in {"http", "memory"} /\ newest \in Versions \cup {Latest}
        /\ reissued \in SUBSET Versions /\ calls \in Nat /\ added \in SUBSET Digests
    BY DEF Init, Bytes
  <2> QED
    BY <2>1, <2>2, <2>3 DEF TypeOK
<1>2. Told
  BY DEF Told, Init, Idle
<1> QED
  BY <1>1, <1>2 DEF Types

\* Only the call of one caller changes, and stays a call with a manifest if it
\* needs one.
LEMMA TypesGo ==
    ASSUME Types, NEW c \in Callers, NEW k \in Calls, Go(c, k),
           k.at \notin {"idle", "asked"} => k.manifest \in Manifests
    PROVE  call' \in [Callers -> Calls] /\ Told'
  BY CallerGoes DEF Types, Told

LEMMA TypesEnd ==
    ASSUME Types, NEW c \in Callers, End(c)
    PROVE  call' \in [Callers -> Calls] /\ Told'
<1>1. Idle \in Calls /\ Idle.at = "idle" /\ Go(c, Idle)
  BY IdleType DEF Idle, End
<1> QED
  BY <1>1, TypesGo

LEMMA TypesBegin ==
    ASSUME Types, NEW c \in Callers, NEW k \in Calls, Begin(c, k),
           k.at \notin {"idle", "asked"} => k.manifest \in Manifests
    PROVE  call' \in [Callers -> Calls] /\ Told' /\ calls' \in Nat
<1>1. [k EXCEPT !.since = Yanked] \in Calls /\ Go(c, [k EXCEPT !.since = Yanked]) /\ calls' \in Nat
  BY CallBegins DEF Types
<1>2. [k EXCEPT !.since = Yanked].at = k.at /\ [k EXCEPT !.since = Yanked].manifest = k.manifest
  BY DEF Calls
<1> QED
  BY <1>1, <1>2, TypesGo

LEMMA TypesPull ==
    ASSUME Types, NEW c \in Callers, NEW k \in Calls, NEW m \in Manifests, Pull(c, k, m)
    PROVE  call' \in [Callers -> Calls] /\ Told'
<1>1. /\ Stored(k, m) \in Calls /\ Missing(k, m) \in Calls
      /\ Go(c, Idle) \/ Go(c, Stored(k, m)) \/ Go(c, Missing(k, m))
  BY PullGoes DEF Types
<1>2. Stored(k, m).manifest = m /\ Missing(k, m).manifest = m
  BY DEF Stored, Missing, Calls
<1> QED
  BY <1>1, <1>2, TypesGo, TypesEnd DEF End

LEMMA TypesPublished ==
    ASSUME Types, NEW v, call' = [d \in Callers |-> call'[d]],
           \A d \in Callers : call'[d] = Idle \/ call'[d] = Alive(v, call[d])
    PROVE  call' \in [Callers -> Calls] /\ Told'
<1>1. \A d \in Callers : call[d] \in Calls
  BY DEF Types, TypeOK
<1>2. \A d \in Callers : Alive(v, call[d]) \in Calls /\ Alive(v, call[d]).at = call[d].at
                         /\ Alive(v, call[d]).manifest = call[d].manifest
  BY <1>1, AliveCall
<1>3. Idle \in Calls /\ Idle.at = "idle"
  BY IdleType DEF Idle
<1> QED
  BY <1>1, <1>2, <1>3 DEF Types, Told

LEMMA TypesRepublish ==
    ASSUME Types, NEW v \in Versions, NEW d \in Digests, Republish(v, d)
    PROVE  /\ records' \in [Versions -> Held] /\ newest' \in Versions /\ reissued' \in SUBSET Versions
           /\ [version |-> v, sha |-> d, yanked |-> FALSE] \in Manifests
  BY DEF Republish, Types, TypeOK, Held, Manifests
\* The offline view is asked for a manifest.
LEMMA OfflineHeld == TypeOK => \A m \in OfflineManifests : m \in Held
<1> SUFFICES ASSUME TypeOK, NEW m \in OfflineManifests PROVE m \in Held
  OBVIOUS
<1>1. CASE \E c \in Callers : m = held[c]
  BY <1>1 DEF TypeOK
<1>2. ASSUME NEW v \in Versions \cup {Latest}, m = OfflineManifest(v) PROVE m \in Held
  BY <1>2, RegistryAssumption DEF OfflineManifest, TypeOK, Pins, Unpinned, Held, Manifests
<1> QED
  BY <1>1, <1>2 DEF OfflineManifests

LEMMA TypesKept == Types /\ [Next]_vars => Types'
<1> SUFFICES ASSUME Types, [Next]_vars PROVE Types'
  OBVIOUS
<1> USE DEF hub, cache, callers
<1>a. TypeOK /\ Told
  BY DEF Types
<1>b. ASSUME NEW c \in Callers PROVE call[c] \in Calls /\ held[c] \in Held /\ found[c] \in Held
  BY <1>a DEF TypeOK
<1>c. ASSUME NEW v \in Versions \cup {Latest}, Known(v)
      PROVE  Served(v) \in Versions /\ records[Served(v)] \in Manifests
  BY <1>a, <1>c DEF Known, Served, TypeOK, Held
<1>d. ASSUME NEW m \in Manifests, SetManifest(m)
      PROVE  manifests' \in [Versions \cup {Latest} -> Held]
  BY <1>a, <1>d, ManifestSet DEF Held
<1>1. ASSUME NEW c \in Callers, NEW op \in {"resolve", "pull", "yank"}, NEW v \in Versions \cup {Latest},
             Ask(c, op, v)
      PROVE  Types'
  <2> DEFINE k == [Idle EXCEPT !.op = op, !.at = "asked", !.asked = v, !.dead = Dead(v)]
  <2>1. Dead(v) \in BOOLEAN
    BY <1>a DEF Dead, Known
  <2>2. k \in Calls /\ k.at = "asked"
    BY <2>1, IdleType DEF Calls, Operations
  <2> QED
    BY <1>1, <1>a, <2>2, TypesBegin DEF Ask, Types, TypeOK
<1>2. ASSUME NEW c \in Callers, PullHit(c) PROVE Types'
  <2> DEFINE h == found[c]
             k == [Idle EXCEPT !.op = "pull", !.at = "asked", !.asked = h.version,
                               !.dead = Dead(h.version), !.hit = h.sha]
  <2>1. h \in Held /\ Dead(h.version) \in BOOLEAN
    BY <1>a, <1>b DEF Dead, Known
  <2>2. h.version \in Versions \cup {Latest} /\ h.sha \in Bytes
    BY <2>1, ManifestTypes
  <2>3. k \in Calls /\ k.at = "asked"
    BY <2>1, <2>2, IdleType DEF Calls, Operations
  <2> QED
    BY <1>2, <1>a, <2>3, TypesBegin DEF PullHit, Types, TypeOK
<1>3. ASSUME NEW c \in Callers, Search(c) PROVE Types'
  <2>1. PICK h \in IF kind = "http" THEN HubHits ELSE MemoryHits : found' = [found EXCEPT ![c] = h]
    BY <1>3 DEF Search
  <2>2. h \in Held
    BY <1>a, <2>1 DEF HubHits, MemoryHits, TypeOK
  <2> QED
    BY <1>3, <1>a, <2>1, <2>2 DEF Search, Types, TypeOK, Told
<1>4. ASSUME NEW c \in Callers, PullHeld(c) PROVE Types'
  <2> DEFINE m == held[c]
             k == [Idle EXCEPT !.op = "keep", !.manifest = m, !.since = Yanked]
             r == [k EXCEPT !.at = "hashing", !.bytes = contents[m.version]]
  <2>1. m \in Manifests
    BY <1>4, <1>b DEF PullHeld, Held
  <2>2. k \in Calls /\ r \in Calls /\ r.manifest = m
    <3>1. Yanked \in SUBSET Versions /\ m \in Held /\ contents[m.version] \in Bytes
      BY <1>a, <2>1 DEF Yanked, Held, Manifests, TypeOK
    <3> QED
      BY <3>1, IdleType DEF Calls, Operations
  <2>3. Pull(c, k, m) \/ End(c) \/ Go(c, r)
    BY <1>4 DEF PullHeld
  <2>4. call' \in [Callers -> Calls] /\ Told'
    <3> HIDE DEF k, r, m
    <3> QED
      BY <2>1, <2>2, <2>3, TypesPull, TypesEnd, TypesGo
  <2> QED
    BY <1>4, <1>a, <2>4 DEF PullHeld, Types, TypeOK
<1>5. ASSUME NEW c \in Callers, NEW v \in Versions \cup {Latest}, StrictPull(c, v) PROVE Types'
  <2> DEFINE m == manifests[v]
             k == [Idle EXCEPT !.op = "strict", !.since = Yanked]
  <2>1. m \in Manifests
    BY <1>5, <1>a DEF StrictPull, Held, TypeOK
  <2>2. k \in Calls
    <3>1. Yanked \in SUBSET Versions
      BY DEF Yanked
    <3> QED
      BY <3>1, IdleType DEF Calls, Operations
  <2>3. Pull(c, k, m) \/ End(c)
    BY <1>5 DEF StrictPull
  <2>4. call' \in [Callers -> Calls] /\ Told'
    <3> HIDE DEF k, m
    <3> QED
      BY <2>1, <2>2, <2>3, TypesPull, TypesEnd
  <2> QED
    BY <1>5, <1>a, <2>4 DEF StrictPull, Types, TypeOK
<1>6. ASSUME NEW c \in Callers, NEW v \in Versions, NEW d \in Digests, NEW b \in Digests,
             PublishPack(c, v, d, b)
      PROVE  Types'
  <2> DEFINE k == [Idle EXCEPT !.op = "publish", !.at = "hashing", !.bytes = b,
                               !.manifest = [version |-> v, sha |-> d, yanked |-> FALSE]]
  <2>1. k \in Calls /\ k.manifest \in Manifests
    BY IdleType DEF Calls, Operations, Manifests, Held, Bytes
  <2> QED
    BY <1>6, <1>a, <2>1, TypesBegin DEF PublishPack, Types, TypeOK
<1>7. ASSUME NEW c \in Callers, NEW q \in Publishable, NEW v \in Versions, NEW d \in Digests,
             PublishLearned(c, q, v, d)
      PROVE  Types'
  <2> DEFINE k == [Idle EXCEPT !.op = "publish", !.at = "hashing", !.manifest = Built(v, d), !.bytes = d]
  <2>1. k \in Calls /\ k.manifest \in Manifests
    BY IdleType DEF Calls, Operations, Manifests, Held, Bytes, Built
  <2>2. CASE Begin(c, k)
    BY <1>7, <1>a, <2>1, <2>2, TypesBegin DEF PublishLearned, Types, TypeOK
  <2>3. CASE ~ Begin(c, k)
    BY <1>7, <1>a, <2>3 DEF PublishLearned, Types, TypeOK, Told
  <2> QED
    BY <2>2, <2>3
<1>8. ASSUME NEW c \in Callers, Serve(c) PROVE Types'
  <2> DEFINE k == call[c]
             v == Served(k.asked)
  <2>1. k \in Calls /\ k.asked \in Versions \cup {Latest}
    BY <1>b DEF Calls
  <2>2. CASE ~ Known(k.asked)
    BY <1>8, <1>a, <2>2, TypesEnd DEF Serve, Types, TypeOK
  <2>3. CASE Known(k.asked)
    <3>1. v \in Versions /\ records[v] \in Manifests
      BY <1>c, <2>1, <2>3
    <3>2. records' \in [Versions -> Held] /\ records'[v] \in Manifests
      <4> DEFINE y == [records[v] EXCEPT !.yanked = TRUE]
      <4>1. y \in Manifests /\ y \in Held
        BY <3>1 DEF Manifests, Held
      <4>2. records' = [records EXCEPT ![v] = y] \/ records' = records
        BY <1>8, <2>3 DEF Serve
      <4> HIDE DEF y
      <4> QED
        BY <1>a, <3>1, <4>1, <4>2 DEF TypeOK
    <3> DEFINE r == [k EXCEPT !.at = "answered", !.manifest = records'[v]]
    <3>3. r \in Calls /\ r.manifest \in Manifests /\ Go(c, r)
      BY <1>8, <2>1, <2>3, <3>2 DEF Serve, Calls, Held
    <3>4. call' \in [Callers -> Calls] /\ Told'
      <4> HIDE DEF r
      <4> QED
        BY <3>3, TypesGo
    <3> QED
      BY <1>8, <1>a, <3>2, <3>4 DEF Serve, Types, TypeOK
  <2> QED
    BY <2>2, <2>3
<1>9. ASSUME NEW c \in Callers, Fail(c) PROVE Types'
  BY <1>9, <1>a, TypesEnd DEF Fail, Types, TypeOK
<1>10. ASSUME NEW c \in Callers, Receive(c) PROVE Types'
  <2> DEFINE k == call[c]
             m == k.manifest
  <2>1. k \in Calls /\ m \in Manifests
    BY <1>10, <1>a, <1>b DEF Receive, Told
  <2>2. m \in Held /\ [m EXCEPT !.yanked = TRUE] \in Manifests
    BY <2>1 DEF Manifests, Held
  <2>3. manifests' \in [Versions \cup {Latest} -> Held]
    BY <1>10, <1>d, <2>1, <2>2 DEF Receive, SetYanked
  <2>4. held' \in [Callers -> Held]
    BY <1>10, <1>a, <2>2 DEF Receive, TypeOK
  <2>5. call' \in [Callers -> Calls] /\ Told'
    <3>1. Pull(c, k, m) \/ End(c)
      BY <1>10 DEF Receive
    <3> HIDE DEF k, m
    <3> QED
      BY <2>1, <3>1, TypesPull, TypesEnd
  <2> QED
    BY <1>10, <1>a, <2>3, <2>4, <2>5 DEF Receive, Types, TypeOK
<1>11. ASSUME NEW c \in Callers, Fetch(c) PROVE Types'
  <2>1. PICK b \in Digests : Go(c, [call[c] EXCEPT !.at = "hashing", !.bytes = b])
    BY <1>11 DEF Fetch
  <2> DEFINE r == [call[c] EXCEPT !.at = "hashing", !.bytes = b]
  <2>2. r \in Calls /\ r.manifest \in Manifests
    BY <1>11, <1>a, <1>b DEF Fetch, Told, Calls, Bytes
  <2>3. call' \in [Callers -> Calls] /\ Told'
    <3> HIDE DEF r
    <3> QED
      BY <2>1, <2>2, TypesGo DEF r
  <2> QED
    BY <1>11, <1>a, <2>3 DEF Fetch, Types, TypeOK
<1>12. ASSUME NEW c \in Callers, Keep(c) PROVE Types'
  <2> DEFINE k == call[c]
  <2>1. k \in Calls /\ k.manifest \in Manifests
    BY <1>12, <1>a, <1>b DEF Keep, Told
  <2>2. call' \in [Callers -> Calls] /\ Told'
    BY <1>12, TypesEnd DEF Keep, Give
  <2>3. manifests' \in [Versions \cup {Latest} -> Held] /\ blobs' \in [Digests -> Bytes]
    <3>1. k.bytes \in Bytes
      BY <2>1 DEF Calls
    <3> QED
      BY <1>12, <1>a, <1>d, <2>1, <3>1 DEF Keep, SetBytes, TypeOK
  <2>4. answer' = answer \/ answer' = [how |-> k.op, manifest |-> k.manifest, bytes |-> k.bytes,
                                       hit |-> k.hit, dead |-> k.dead, raw |-> FALSE]
    BY <1>12 DEF Keep, Give
  <2>5. answer' \in [how : Operations \cup {"offline"}, manifest : Held, bytes : Bytes,
                     hit : Bytes, dead : BOOLEAN, raw : BOOLEAN]
    <3>1. k.op \in Operations /\ k.manifest \in Held /\ k.bytes \in Bytes /\ k.hit \in Bytes
          /\ k.dead \in BOOLEAN
      BY <2>1 DEF Calls
    <3>2. [how |-> k.op, manifest |-> k.manifest, bytes |-> k.bytes, hit |-> k.hit, dead |-> k.dead,
           raw |-> FALSE]
             \in [how : Operations \cup {"offline"}, manifest : Held, bytes : Bytes,
                  hit : Bytes, dead : BOOLEAN, raw : BOOLEAN]
      BY <3>1
    <3> QED
      BY <1>a, <2>4, <3>2, Zenon DEF TypeOK
  <2>6. added' \in SUBSET Digests
    BY <1>12, <1>a DEF Keep, TypeOK
  <2> QED
    BY <1>12, <1>a, <2>2, <2>3, <2>5, <2>6 DEF Keep, Types, TypeOK
<1>13. ASSUME NEW v \in Versions, NEW d \in Digests, HubPublish(v, d) PROVE Types'
  <2>1. call' \in [Callers -> Calls] /\ Told'
    <3>1. /\ call' = [e \in Callers |-> call'[e]]
          /\ \A e \in Callers : call'[e] = Alive(v, call[e])
      BY <1>13 DEF HubPublish
    <3> QED
      BY <3>1, TypesPublished
  <2>2. /\ records' \in [Versions -> Held] /\ newest' \in Versions \cup {Latest}
        /\ reissued' \in SUBSET Versions
    BY <1>13, TypesRepublish DEF HubPublish
  <2>3. calls' \in Nat
    BY <1>13, <1>a DEF HubPublish, TypeOK
  <2> QED
    BY <1>13, <1>a, <2>1, <2>2, <2>3 DEF HubPublish, Types, TypeOK
<1>e. ASSUME NEW v \in Versions, NEW d \in Digests, NEW b \in Digests, Add(v, d, b)
      PROVE  /\ records' \in [Versions -> Held] /\ newest' \in Versions /\ reissued' \in SUBSET Versions
             /\ contents' \in [Versions -> Bytes] /\ blobs' \in [Digests -> Bytes]
             /\ manifests' \in [Versions \cup {Latest} -> Held]
  BY <1>a, <1>d, <1>e, TypesRepublish DEF Add, SetBytes, TypeOK, Bytes
<1>14. ASSUME NEW v \in Versions, NEW d \in Digests, NEW b \in Digests, MemoryAdd(v, d, b) PROVE Types'
  <2>1. call' \in [Callers -> Calls] /\ Told'
    <3>1. /\ call' = [e \in Callers |-> call'[e]]
          /\ \A e \in Callers : call'[e] = Alive(v, call[e])
      BY <1>14 DEF MemoryAdd
    <3> QED
      BY <3>1, TypesPublished
  <2> QED
    BY <1>14, <1>a, <1>e, <2>1 DEF MemoryAdd, Types, TypeOK
<1>15. ASSUME NEW c \in Callers, MemoryResolve(c) PROVE Types'
  <2> DEFINE k == call[c]
             m == records[Served(k.asked)]
             r == [k EXCEPT !.at = "resolved", !.manifest = m]
  <2>1. k \in Calls /\ k.asked \in Versions \cup {Latest}
    BY <1>b DEF Calls
  <2>2. CASE ~ Known(k.asked) \/ Denied(m)
    BY <1>15, <1>a, <2>2, TypesEnd DEF MemoryResolve, Types, TypeOK
  <2>3. CASE Known(k.asked) /\ ~ Denied(m)
    <3>1. m \in Manifests /\ m \in Held
      BY <1>c, <2>1, <2>3 DEF Held
    <3>2. r \in Calls /\ r.manifest \in Manifests
      BY <2>1, <3>1 DEF Calls
    <3>3. End(c) \/ Go(c, r)
      BY <1>15, <2>3 DEF MemoryResolve
    <3>4. call' \in [Callers -> Calls] /\ Told'
      <4> HIDE DEF r
      <4> QED
        BY <3>2, <3>3, TypesGo, TypesEnd
    <3>5. SetManifest(m) /\ held' \in [Callers -> Held]
      BY <1>15, <1>a, <2>3, <3>1 DEF MemoryResolve, TypeOK
    <3>6. manifests' \in [Versions \cup {Latest} -> Held]
      BY <1>d, <3>1, <3>5
    <3> QED
      BY <1>15, <1>a, <3>4, <3>5, <3>6 DEF MemoryResolve, Types, TypeOK
  <2> QED
    BY <2>2, <2>3
<1>16. ASSUME NEW c \in Callers, MemoryYank(c) PROVE Types'
  <2> DEFINE k == call[c]
             v == Served(k.asked)
  <2>1. call' \in [Callers -> Calls] /\ Told'
    BY <1>16, TypesEnd DEF MemoryYank
  <2>2. CASE ~ Known(k.asked)
    BY <1>16, <1>a, <2>1, <2>2 DEF MemoryYank, Types, TypeOK
  <2>3. CASE Known(k.asked)
    <3>1. v \in Versions /\ records[v] \in Manifests
      BY <1>b, <1>c, <2>3 DEF Calls
    <3>3. [records[v] EXCEPT !.yanked = TRUE] \in Manifests
      BY <3>1 DEF Manifests
    <3>2. records' \in [Versions -> Held]
      <4> DEFINE y == [records[v] EXCEPT !.yanked = TRUE]
      <4>1. records' = [records EXCEPT ![v] = y] /\ y \in Held
        BY <1>16, <2>3, <3>3 DEF MemoryYank, Held
      <4> HIDE DEF y
      <4> QED
        BY <1>a, <3>1, <4>1 DEF TypeOK
    <3>4. manifests' \in [Versions \cup {Latest} -> Held]
      BY <1>16, <1>d, <2>3, <3>3 DEF MemoryYank, SetYanked
    <3> QED
      BY <1>16, <1>a, <2>1, <3>2, <3>4 DEF MemoryYank, Types, TypeOK
  <2> QED
    BY <2>2, <2>3
<1>17. ASSUME NEW c \in Callers, MemoryRead(c) PROVE Types'
  <2> DEFINE r == [call[c] EXCEPT !.at = "hashing", !.bytes = contents[call[c].manifest.version]]
  <2>1. call[c] \in Calls /\ call[c].manifest \in Manifests
    BY <1>17, <1>a, <1>b DEF MemoryRead, Told
  <2>2. contents[call[c].manifest.version] \in Bytes
    BY <1>a, <2>1 DEF Manifests, TypeOK
  <2>3. r \in Calls /\ r.manifest \in Manifests /\ Go(c, r)
    BY <1>17, <2>1, <2>2 DEF MemoryRead, Calls
  <2>4. call' \in [Callers -> Calls] /\ Told'
    <3> HIDE DEF r
    <3> QED
      BY <2>3, TypesGo
  <2> QED
    BY <1>17, <1>a, <2>4 DEF MemoryRead, Types, TypeOK
<1>18. ASSUME NEW c \in Callers, MemoryPulled(c) PROVE Types'
  <2> DEFINE k == call[c]
  <2>1. k \in Calls /\ k.manifest \in Manifests
    BY <1>18, <1>a, <1>b DEF MemoryPulled, Told
  <2>2. call' \in [Callers -> Calls] /\ Told'
    BY <1>18, TypesEnd DEF MemoryPulled, Give
  <2>3. manifests' \in [Versions \cup {Latest} -> Held] /\ blobs' \in [Digests -> Bytes]
    <3>1. k.bytes \in Bytes
      BY <2>1 DEF Calls
    <3> QED
      BY <1>18, <1>a, <1>d, <2>1, <3>1 DEF MemoryPulled, SetBytes, TypeOK
  <2>4. answer' = answer \/ answer' = [how |-> k.op, manifest |-> k.manifest, bytes |-> k.bytes,
                                       hit |-> k.hit, dead |-> k.dead, raw |-> FALSE]
    BY <1>18 DEF MemoryPulled, Give
  <2>5. answer' \in [how : Operations \cup {"offline"}, manifest : Held, bytes : Bytes,
                     hit : Bytes, dead : BOOLEAN, raw : BOOLEAN]
    <3>1. k.op \in Operations /\ k.manifest \in Held /\ k.bytes \in Bytes /\ k.hit \in Bytes
          /\ k.dead \in BOOLEAN
      BY <2>1 DEF Calls
    <3>2. [how |-> k.op, manifest |-> k.manifest, bytes |-> k.bytes, hit |-> k.hit, dead |-> k.dead,
           raw |-> FALSE]
             \in [how : Operations \cup {"offline"}, manifest : Held, bytes : Bytes,
                  hit : Bytes, dead : BOOLEAN, raw : BOOLEAN]
      BY <3>1
    <3> QED
      BY <1>a, <2>4, <3>2, Zenon DEF TypeOK
  <2>6. added' \in SUBSET Digests
    BY <1>18, <1>a DEF MemoryPulled, TypeOK
  <2> QED
    BY <1>18, <1>a, <2>2, <2>3, <2>5, <2>6 DEF MemoryPulled, Types, TypeOK
<1>19. ASSUME NEW c \in Callers, MemoryPublished(c) PROVE Types'
  <2> DEFINE k == call[c]
             m == k.manifest
  <2>1. k \in Calls /\ m \in Manifests /\ m \in Held /\ k.bytes \in Bytes
    BY <1>19, <1>a, <1>b DEF MemoryPublished, Told, Held, Calls
  <2>2. CASE ~ Verified(k)
    BY <1>19, <1>a, <2>2, TypesEnd DEF MemoryPublished, Types, TypeOK
  <2>3. CASE Verified(k)
    <3>1. /\ call' = [b \in Callers |-> call'[b]]
          /\ \A b \in Callers : call'[b] = Idle \/ call'[b] = Alive(m.version, call[b])
      BY <1>19, <2>3 DEF MemoryPublished
    <3>2. call' \in [Callers -> Calls] /\ Told'
      BY <3>1, TypesPublished
    <3>3. m.version \in Versions /\ m.sha \in Digests /\ k.bytes \in Digests
      BY <2>1, <2>3 DEF Verified, Manifests
    <3>4. Add(m.version, m.sha, k.bytes)
      BY <1>19, <2>3 DEF MemoryPublished
    <3>5. answer' \in [how : Operations \cup {"offline"}, manifest : Held, bytes : Bytes,
                       hit : Bytes, dead : BOOLEAN, raw : BOOLEAN]
      BY <1>19, <2>1, <2>3, IdleType DEF MemoryPublished, Operations
    <3> QED
      BY <1>19, <1>a, <1>e, <3>2, <3>3, <3>4, <3>5 DEF MemoryPublished, Types, TypeOK
  <2> QED
    BY <2>2, <2>3
<1>20. ASSUME NEW m \in OfflineManifests, OfflinePull(m) PROVE Types'
  <2>1. m \in Held
    BY <1>a, OfflineHeld
  <2>2. m \in Manifests
    BY <1>20, <2>1 DEF OfflinePull, Held
  <2>3. blobs[m.sha] \in Bytes
    BY <1>a, <2>2 DEF TypeOK, Manifests
  <2>4. answer' \in [how : Operations \cup {"offline"}, manifest : Held, bytes : Bytes,
                     hit : Bytes, dead : BOOLEAN, raw : BOOLEAN]
    <3>1. PICK r \in BOOLEAN : r <=> (m.sha \in added)
      OBVIOUS
    <3>2. answer' = [Nothing EXCEPT !.how = "offline", !.manifest = m, !.bytes = blobs[m.sha], !.raw = r]
      BY <1>20, <3>1 DEF OfflinePull
    <3> QED
      BY <2>1, <2>3, <3>2, IdleType
  <2>5. calls' \in Nat
    BY <1>20, <1>a DEF OfflinePull, TypeOK
  <2> QED
    BY <1>20, <1>a, <2>4, <2>5 DEF OfflinePull, Types, TypeOK, Told
<1>21. CASE UNCHANGED vars
  BY <1>21, <1>a DEF vars, Types, TypeOK, Told
<1>22. ASSUME NEW v \in Versions, NEW d \in Digests, NEW b \in Digests, CacheAdd(v, d, b) PROVE Types'
  <2>1. [version |-> v, sha |-> d, yanked |-> FALSE] \in Manifests
    BY DEF Manifests
  <2>2. manifests' \in [Versions \cup {Latest} -> Held]
    BY <1>22, <1>d, <2>1 DEF CacheAdd
  <2>3. /\ blobs' \in [Digests -> Bytes] /\ calls' \in Nat
        /\ added' \in SUBSET Digests /\ reissued' \in SUBSET Versions
    BY <1>22, <1>a DEF CacheAdd, SetBytes, TypeOK, Bytes
  <2> QED
    BY <1>22, <1>a, <2>2, <2>3 DEF CacheAdd, Types, TypeOK, Told
<1> QED
  BY <1>1, <1>2, <1>3, <1>4, <1>5, <1>6, <1>7, <1>8, <1>9, <1>10, <1>11, <1>12, <1>13, <1>14, <1>15,
     <1>16, <1>17, <1>18, <1>19, <1>20, <1>21, <1>22 DEF Next, Call, Answer
-----------------------------------------------------------------------------
(* What the steps of the callers come to.                                  *)

SameRequest(k, n) ==
    n.op = k.op /\ n.asked = k.asked /\ n.hit = k.hit /\ (n.dead <=> k.dead) /\ n.since = k.since

\* A call is asked, or begins with a manifest that it has;
Asks(c, n) ==
    /\ n.at = "asked" /\ n.op \in {"resolve", "pull", "yank"} /\ n.since = Yanked
    /\ n.dead => Dead(n.asked)
    /\ n.hit # NoDigest => /\ found[c] # NoManifest
                           /\ n.asked = found[c].version /\ n.hit = found[c].sha
    /\ n.manifest = NoManifest

Starts(c, n) ==
    /\ n.op \in {"keep", "strict", "publish"} /\ n.at \in {"fetching", "hashing"}
    /\ n.hit = NoDigest /\ n.since = Yanked
    /\ kind = "http" => ~ Unpins(n.manifest)
    /\ n.op = "strict" => kind = "http" /\ n.stored
    /\ n.op = "publish" => kind = "memory"
    /\ \/ n.manifest = held[c]
       \/ \E v \in Versions \cup {Latest} : n.manifest = manifests[v]
       \/ ~ n.manifest.yanked

\* it is answered by the hub or found in the records, goes on to the bytes, or
\* gets them.
Answered(k, n) ==
    /\ k.at = "asked" /\ SameRequest(k, n) /\ Known(k.asked)
    /\ n.manifest = records'[Served(k.asked)]
    /\ \/ kind = "http" /\ n.at = "answered"
       \/ kind = "memory" /\ n.at = "resolved" /\ ~ Denied(n.manifest)

Proceeds(k, n) ==
    /\ SameRequest(k, n) /\ n.manifest = k.manifest
    /\ \/ /\ kind = "http" /\ k.at = "answered" /\ n.at \in {"fetching", "hashing"}
          /\ ~ Denied(n.manifest) /\ ~ Unpins(n.manifest) /\ k.op = "pull"
       \/ k.at = "fetching" /\ n.at = "hashing" /\ (n.stored <=> k.stored)
       \/ kind = "memory" /\ k.at = "resolved" /\ n.at = "hashing" /\ (n.stored <=> k.stored)

CallStep(c) ==
    \/ call'[c] = call[c] \/ call'[c] = Idle
    \/ Asks(c, call'[c]) \/ Starts(c, call'[c])
    \/ Answered(call[c], call'[c]) \/ Proceeds(call[c], call'[c])

\* What is offered does not change, but that a version may be yanked, or be added
\* beside it.
YanksOnly ==
    /\ UNCHANGED newest /\ reissued \subseteq reissued'
    /\ \/ UNCHANGED records
       \/ \E v \in Versions : /\ records[v] \in Manifests
                              /\ records' = [records EXCEPT ![v] = [records[v] EXCEPT !.yanked = TRUE]]

\* A version is published: of what was asked for before, it may be alive again.
Publishes ==
    \E v \in Versions, d \in Digests :
        Republish(v, d) /\ \A c \in Callers : call'[c] = Idle \/ call'[c] = Alive(v, call[c])

CallersStep ==
    /\ kind' = kind
    /\ Publishes \/ (YanksOnly /\ \A c \in Callers : CallStep(c))

\* One caller makes a step while the records stay.
LEMMA OneGoes ==
    ASSUME Types, NEW c \in Callers, NEW k \in Calls, Go(c, k), UNCHANGED kind, YanksOnly,
           k = Idle \/ Asks(c, k) \/ Starts(c, k) \/ Answered(call[c], k) \/ Proceeds(call[c], k)
    PROVE  CallersStep
<1>1. call'[c] = k /\ \A d \in Callers : d # c => call'[d] = call[d]
  BY CallerGoes DEF Types
<1> QED
  BY <1>1 DEF CallersStep, CallStep

LEMMA OneEnds ==
    ASSUME Types, NEW c \in Callers, End(c), UNCHANGED kind, YanksOnly
    PROVE  CallersStep
  BY IdleType, OneGoes DEF End

LEMMA NoneGoes ==
    ASSUME Types, UNCHANGED <<call, kind, records, newest>>, reissued \subseteq reissued'
    PROVE  CallersStep
  BY DEF CallersStep, CallStep, YanksOnly

\* The pull of a manifest that is at hand, or was answered.
LEMMA OnePulls ==
    ASSUME Types, NEW c \in Callers, NEW k \in Calls, NEW m \in Manifests, Pull(c, k, m),
           UNCHANGED <<kind, records, newest, reissued>>, kind = "http",
           \/ /\ k = call[c] /\ k.manifest = m /\ k.at = "answered" /\ k.op = "pull"
           \/ /\ k.op = "keep" /\ m = held[c] /\ k.since = Yanked /\ k.hit = NoDigest
           \/ /\ k.op = "strict" /\ k.since = Yanked /\ k.hit = NoDigest /\ blobs[m.sha] # NoDigest
              /\ \E v \in Versions \cup {Latest} : m = manifests[v]
    PROVE  CallersStep
<1>1. YanksOnly
  BY DEF YanksOnly
<1>2. Stored(k, m) \in Calls /\ Missing(k, m) \in Calls
  BY PullGoes DEF Types
<1>3. CASE Go(c, Idle)
  BY <1>1, <1>3, OneEnds DEF End
<1> DEFINE Fine(n) == SameRequest(k, n) /\ n.manifest = m /\ n.at \in {"fetching", "hashing"}
<1>4. /\ Fine(Stored(k, m)) /\ Stored(k, m).stored
      /\ Fine(Missing(k, m))
  BY DEF Stored, Missing, SameRequest, Calls
<1>5. ASSUME NEW n \in Calls, Fine(n), ~ Denied(m), ~ Unpins(m), n.stored \/ k.op # "strict"
      PROVE  Starts(c, n) \/ Proceeds(call[c], n)
  <2>1. CASE k = call[c] /\ k.manifest = m /\ k.at = "answered" /\ k.op = "pull"
    BY <1>5, <2>1 DEF Proceeds
  <2>2. CASE k.op = "keep" /\ m = held[c] /\ k.since = Yanked /\ k.hit = NoDigest
    BY <1>5, <2>2 DEF Starts, SameRequest
  <2>3. CASE /\ k.op = "strict" /\ k.since = Yanked /\ k.hit = NoDigest
             /\ \E v \in Versions \cup {Latest} : m = manifests[v]
    BY <1>5, <2>3 DEF Starts, SameRequest
  <2> QED
    BY <2>1, <2>2, <2>3
<1> HIDE DEF Fine
<1>6. CASE ~ Denied(m) /\ ~ Unpins(m) /\ Go(c, Stored(k, m))
  BY <1>1, <1>2, <1>4, <1>5, <1>6, OneGoes
<1>7. CASE ~ Denied(m) /\ ~ Unpins(m) /\ blobs[m.sha] = NoDigest /\ Go(c, Missing(k, m))
  <2>1. k.op # "strict"
    BY <1>7
  <2> QED
    BY <1>1, <1>2, <1>4, <1>5, <1>7, <2>1, OneGoes
<1> QED
  BY <1>3, <1>6, <1>7, PullGoes DEF Types
LEMMA StepsTaken == Types /\ [Next]_vars => CallersStep
<1> SUFFICES ASSUME Types, [Next]_vars PROVE CallersStep
  OBVIOUS
<1> USE DEF hub, cache, callers
<1>a. TypeOK /\ Told
  BY DEF Types
<1>b. ASSUME NEW c \in Callers PROVE call[c] \in Calls /\ held[c] \in Held /\ found[c] \in Held
  BY <1>a DEF TypeOK
<1>c. ASSUME NEW v \in Versions \cup {Latest}, Known(v)
      PROVE  Served(v) \in Versions /\ records[Served(v)] \in Manifests
  BY <1>a, <1>c DEF Known, Served, TypeOK, Held
<1>d. UNCHANGED <<records, newest, reissued>> => YanksOnly
  BY DEF YanksOnly
<1>e. Yanked \in SUBSET Versions
  BY DEF Yanked
<1>f. ASSUME NEW c \in Callers, NEW k \in Calls, Begin(c, k), UNCHANGED hub,
             Asks(c, [k EXCEPT !.since = Yanked]) \/ Starts(c, [k EXCEPT !.since = Yanked])
      PROVE  CallersStep
  BY <1>d, <1>f, CallBegins, OneGoes DEF Types
<1>1. ASSUME NEW c \in Callers, NEW op \in {"resolve", "pull", "yank"}, NEW v \in Versions \cup {Latest},
             Ask(c, op, v)
      PROVE  CallersStep
  <2> DEFINE k == [Idle EXCEPT !.op = op, !.at = "asked", !.asked = v, !.dead = Dead(v)]
  <2>1. Dead(v) \in BOOLEAN
    BY <1>a DEF Dead, Known
  <2>2. k \in Calls
    BY <2>1, IdleType DEF Calls, Operations
  <2>3. Asks(c, [k EXCEPT !.since = Yanked])
    BY <2>1, <1>e DEF Asks, Idle
  <2> HIDE DEF k
  <2> QED
    BY <1>1, <1>f, <2>2, <2>3 DEF Ask, k
<1>2. ASSUME NEW c \in Callers, PullHit(c) PROVE CallersStep
  <2> DEFINE h == found[c]
             k == [Idle EXCEPT !.op = "pull", !.at = "asked", !.asked = h.version,
                               !.dead = Dead(h.version), !.hit = h.sha]
  <2>1. h \in Held /\ Dead(h.version) \in BOOLEAN /\ h # NoManifest
    BY <1>2, <1>a, <1>b DEF Dead, Known, PullHit
  <2>2. h.version \in Versions \cup {Latest} /\ h.sha \in Bytes
    BY <2>1, ManifestTypes
  <2>3. k \in Calls
    BY <2>1, <2>2, IdleType DEF Calls, Operations
  <2>4. Asks(c, [k EXCEPT !.since = Yanked])
    BY <2>1, <2>2, <1>e DEF Asks, Idle
  <2> HIDE DEF k
  <2> QED
    BY <1>2, <1>f, <2>3, <2>4 DEF PullHit, k
<1>3. ASSUME NEW c \in Callers, Search(c) PROVE CallersStep
  BY <1>3, NoneGoes DEF Search
<1>4. ASSUME NEW c \in Callers, PullHeld(c) PROVE CallersStep
  <2> DEFINE m == held[c]
             k == [Idle EXCEPT !.op = "keep", !.manifest = m, !.since = Yanked]
             r == [k EXCEPT !.at = "hashing", !.bytes = contents[m.version]]
  <2>1. m \in Manifests
    BY <1>4, <1>b DEF PullHeld, Held
  <2>2. k \in Calls /\ r \in Calls
    <3>1. m \in Held /\ contents[m.version] \in Bytes
      BY <1>a, <2>1 DEF Held, Manifests, TypeOK
    <3> QED
      BY <3>1, <1>e, IdleType DEF Calls, Operations
  <2>3. k.op = "keep" /\ k.since = Yanked /\ k.hit = NoDigest
    BY DEF Idle
  <2>4. CASE kind = "http"
    <3>1. Pull(c, k, m)
      BY <1>4, <2>4 DEF PullHeld
    <3> HIDE DEF k
    <3> QED
      BY <1>4, <2>1, <2>2, <2>3, <2>4, <3>1, OnePulls DEF PullHeld
  <2>5. CASE kind # "http"
    <3>1. End(c) \/ Go(c, r)
      BY <1>4, <2>5 DEF PullHeld
    <3>2. Starts(c, r)
      BY <2>5 DEF Starts, Idle
    <3> HIDE DEF r
    <3> QED
      BY <1>4, <1>d, <2>2, <3>1, <3>2, OneGoes, OneEnds DEF PullHeld
  <2> QED
    BY <2>4, <2>5
<1>5. ASSUME NEW c \in Callers, NEW v \in Versions \cup {Latest}, StrictPull(c, v) PROVE CallersStep
  <2> DEFINE m == manifests[v]
             k == [Idle EXCEPT !.op = "strict", !.since = Yanked]
  <2>1. m \in Manifests
    BY <1>5, <1>a DEF StrictPull, Held, TypeOK
  <2>2. k \in Calls
    BY <1>e, IdleType DEF Calls, Operations
  <2>3. k.op = "strict" /\ k.since = Yanked /\ k.hit = NoDigest
    BY DEF Idle
  <2>4. End(c) \/ (blobs[m.sha] # NoDigest /\ Pull(c, k, m))
    BY <1>5 DEF StrictPull
  <2> HIDE DEF k
  <2> QED
    BY <1>5, <1>d, <2>1, <2>2, <2>3, <2>4, OnePulls, OneEnds DEF StrictPull
<1>6. ASSUME NEW c \in Callers, NEW v \in Versions, NEW d \in Digests, NEW b \in Digests,
             PublishPack(c, v, d, b)
      PROVE  CallersStep
  <2> DEFINE k == [Idle EXCEPT !.op = "publish", !.at = "hashing", !.bytes = b,
                               !.manifest = [version |-> v, sha |-> d, yanked |-> FALSE]]
  <2>1. k \in Calls
    BY IdleType DEF Calls, Operations, Manifests, Held, Bytes
  <2>2. kind = "memory" /\ Starts(c, [k EXCEPT !.since = Yanked])
    BY <1>6 DEF Starts, Idle, PublishPack
  <2> HIDE DEF k
  <2> QED
    BY <1>6, <1>f, <2>1, <2>2 DEF PublishPack, k
<1>7. ASSUME NEW c \in Callers, NEW q \in Publishable, NEW v \in Versions, NEW d \in Digests,
             PublishLearned(c, q, v, d)
      PROVE  CallersStep
  <2> DEFINE k == [Idle EXCEPT !.op = "publish", !.at = "hashing", !.manifest = Built(v, d), !.bytes = d]
  <2>1. k \in Calls
    BY IdleType DEF Calls, Operations, Manifests, Held, Bytes, Built
  <2>2. kind = "memory" => Starts(c, [k EXCEPT !.since = Yanked])
    BY DEF Starts, Idle, Built
  <2>3. UNCHANGED call \/ (kind = "memory" /\ Begin(c, k))
    BY <1>7 DEF PublishLearned
  <2> HIDE DEF k
  <2> QED
    BY <1>7, <1>f, <2>1, <2>2, <2>3, NoneGoes DEF PublishLearned
<1>8. ASSUME NEW c \in Callers, Serve(c) PROVE CallersStep
  <2> DEFINE k == call[c]
             v == Served(k.asked)
  <2>1. k \in Calls /\ k.asked \in Versions \cup {Latest} /\ k.at = "asked" /\ kind = "http"
    BY <1>8, <1>b DEF Calls, Serve
  <2>2. CASE ~ Known(k.asked)
    BY <1>8, <1>d, <2>2, OneEnds DEF Serve
  <2>3. CASE Known(k.asked)
    <3>1. v \in Versions /\ records[v] \in Manifests
      BY <1>c, <2>1, <2>3
    <3>2. YanksOnly
      BY <1>8, <2>3, <3>1 DEF Serve, YanksOnly
    <3>3. records'[v] \in Held
      BY <1>8, <1>a, <3>1, TypesKept DEF Types, TypeOK
    <3> DEFINE r == [k EXCEPT !.at = "answered", !.manifest = records'[v]]
    <3>4. r \in Calls /\ Go(c, r)
      BY <1>8, <2>1, <2>3, <3>3 DEF Serve, Calls
    <3>5. Answered(k, r)
      BY <2>1, <2>3 DEF Answered, SameRequest, Calls
    <3> HIDE DEF r
    <3> QED
      BY <1>8, <3>2, <3>4, <3>5, OneGoes DEF Serve
  <2> QED
    BY <2>2, <2>3
<1>9. ASSUME NEW c \in Callers, Fail(c) PROVE CallersStep
  BY <1>9, <1>d, OneEnds DEF Fail
<1>10. ASSUME NEW c \in Callers, Receive(c) PROVE CallersStep
  <2>1. call[c] \in Calls /\ call[c].manifest \in Manifests
    BY <1>10, <1>a, <1>b DEF Receive, Told
  <2> QED
    BY <1>10, <1>d, <2>1, OnePulls, OneEnds DEF Receive
<1>11. ASSUME NEW c \in Callers, Fetch(c) PROVE CallersStep
  <2>1. PICK b \in Digests : Go(c, [call[c] EXCEPT !.at = "hashing", !.bytes = b])
    BY <1>11 DEF Fetch
  <2> DEFINE r == [call[c] EXCEPT !.at = "hashing", !.bytes = b]
  <2>2. r \in Calls
    BY <1>b DEF Calls, Bytes
  <2>3. Proceeds(call[c], r)
    BY <1>11, <1>b DEF Fetch, Proceeds, SameRequest, Calls
  <2> HIDE DEF r
  <2> QED
    BY <1>11, <1>d, <2>1, <2>2, <2>3, OneGoes DEF Fetch, r
<1>12. ASSUME NEW c \in Callers, Keep(c) PROVE CallersStep
  BY <1>12, <1>d, OneEnds DEF Keep, Give
<1>13. ASSUME NEW v \in Versions, NEW d \in Digests, HubPublish(v, d) PROVE CallersStep
  <2>1. \A e \in Callers : call'[e] = Alive(v, call[e])
    BY <1>13 DEF HubPublish
  <2> QED
    BY <1>13, <2>1 DEF HubPublish, CallersStep, Publishes
<1>14. ASSUME NEW v \in Versions, NEW d \in Digests, NEW b \in Digests, MemoryAdd(v, d, b) PROVE CallersStep
  <2>1. \A e \in Callers : call'[e] = Alive(v, call[e])
    BY <1>14 DEF MemoryAdd
  <2> QED
    BY <1>14, <2>1 DEF MemoryAdd, Add, CallersStep, Publishes
<1>15. ASSUME NEW c \in Callers, MemoryResolve(c) PROVE CallersStep
  <2> DEFINE k == call[c]
             m == records[Served(k.asked)]
             r == [k EXCEPT !.at = "resolved", !.manifest = m]
  <2>1. k \in Calls /\ k.asked \in Versions \cup {Latest} /\ k.at = "asked" /\ kind = "memory"
    BY <1>15, <1>b DEF Calls, MemoryResolve
  <2>2. CASE End(c)
    BY <1>15, <1>d, <2>2, OneEnds DEF MemoryResolve
  <2>3. CASE ~ End(c)
    <3>1. Known(k.asked) /\ ~ Denied(m) /\ Go(c, r)
      BY <1>15, <2>3 DEF MemoryResolve
    <3>2. m \in Held
      BY <1>c, <2>1, <3>1 DEF Held
    <3>3. r \in Calls
      BY <2>1, <3>2 DEF Calls
    <3>4. Answered(k, r)
      BY <1>15, <2>1, <3>1 DEF MemoryResolve, Answered, SameRequest, Calls
    <3> HIDE DEF r
    <3> QED
      BY <1>15, <1>d, <3>1, <3>3, <3>4, OneGoes DEF MemoryResolve
  <2> QED
    BY <2>2, <2>3
<1>16. ASSUME NEW c \in Callers, MemoryYank(c) PROVE CallersStep
  <2>1. CASE ~ Known(call[c].asked)
    BY <1>16, <1>d, <2>1, OneEnds DEF MemoryYank
  <2>2. CASE Known(call[c].asked)
    <3> DEFINE v == Served(call[c].asked)
    <3>1. v \in Versions /\ records[v] \in Manifests
      BY <1>b, <1>c, <2>2 DEF Calls
    <3>2. YanksOnly
      BY <1>16, <2>2, <3>1 DEF MemoryYank, YanksOnly
    <3> QED
      BY <1>16, <3>2, OneEnds DEF MemoryYank
  <2> QED
    BY <2>1, <2>2
<1>17. ASSUME NEW c \in Callers, MemoryRead(c) PROVE CallersStep
  <2> DEFINE r == [call[c] EXCEPT !.at = "hashing", !.bytes = contents[call[c].manifest.version]]
  <2>1. call[c].manifest \in Manifests
    BY <1>17, <1>a DEF MemoryRead, Told
  <2>2. contents[call[c].manifest.version] \in Bytes
    BY <1>a, <2>1 DEF Manifests, TypeOK
  <2>3. r \in Calls /\ Go(c, r)
    BY <1>17, <1>b, <2>2 DEF MemoryRead, Calls
  <2>4. Proceeds(call[c], r)
    BY <1>17, <1>b DEF MemoryRead, Proceeds, SameRequest, Calls
  <2> HIDE DEF r
  <2> QED
    BY <1>17, <1>d, <2>3, <2>4, OneGoes DEF MemoryRead
<1>18. ASSUME NEW c \in Callers, MemoryPulled(c) PROVE CallersStep
  BY <1>18, <1>d, OneEnds DEF MemoryPulled, Give
<1>19. ASSUME NEW c \in Callers, MemoryPublished(c) PROVE CallersStep
  <2> DEFINE m == call[c].manifest
  <2>1. CASE ~ Verified(call[c])
    BY <1>19, <1>d, <2>1, OneEnds DEF MemoryPublished
  <2>2. CASE Verified(call[c])
    <3>1. /\ Add(m.version, m.sha, call[c].bytes)
          /\ \A b \in Callers : call'[b] = Idle \/ call'[b] = Alive(m.version, call[b])
      BY <1>19, <2>2 DEF MemoryPublished
    <3>2. m.version \in Versions /\ m.sha \in Digests
      BY <1>19, <1>a DEF MemoryPublished, Told, Manifests
    <3> QED
      BY <1>19, <3>1, <3>2 DEF MemoryPublished, Add, CallersStep, Publishes
  <2> QED
    BY <2>1, <2>2
<1>20. ASSUME NEW m \in OfflineManifests, OfflinePull(m) PROVE CallersStep
  BY <1>20, NoneGoes DEF OfflinePull
<1>21. CASE UNCHANGED vars
  BY <1>21, NoneGoes DEF vars
<1>22. ASSUME NEW v \in Versions, NEW d \in Digests, NEW b \in Digests, CacheAdd(v, d, b) PROVE CallersStep
  BY <1>22, NoneGoes DEF CacheAdd
<1> QED
  BY <1>1, <1>2, <1>3, <1>4, <1>5, <1>6, <1>7, <1>8, <1>9, <1>10, <1>11, <1>12, <1>13, <1>14, <1>15,
     <1>16, <1>17, <1>18, <1>19, <1>20, <1>21, <1>22 DEF Next, Call, Answer
-----------------------------------------------------------------------------
(* The invariant is kept.                                                  *)

LEMMA BytesKept ==
    Types /\ BlobsTrue /\ BytesVerified /\ [Next]_vars => (BlobsTrue /\ BytesVerified)'
<1> SUFFICES ASSUME Types, BlobsTrue, BytesVerified, [Next]_vars PROVE (BlobsTrue /\ BytesVerified)'
  OBVIOUS
<1> USE DEF hub, cache, callers
<1>a. blobs \in [Digests -> Bytes]
  BY DEF Types, TypeOK
<1>b. ASSUME NEW d \in Digests, SetBytes(d, d), added' = added \ {d} PROVE BlobsTrue'
  BY <1>a, <1>b DEF SetBytes, BlobsTrue
<1>c. ASSUME NEW d \in Digests, NEW b \in Digests, SetBytes(d, b), added' = added \cup {d} PROVE BlobsTrue'
  BY <1>a, <1>c DEF SetBytes, BlobsTrue
<1>d. ASSUME NEW c \in Callers, call[c].at = "hashing", Verified(call[c])
      PROVE  call[c].manifest.sha \in Digests /\ call[c].bytes = call[c].manifest.sha
  BY <1>d DEF Types, Told, Manifests, Verified
<1>e. ASSUME UNCHANGED <<blobs, added>> PROVE BlobsTrue'
  BY <1>e DEF BlobsTrue
<1>f. ASSUME UNCHANGED answer PROVE BytesVerified'
  BY <1>f DEF BytesVerified
<1>1. CASE UNCHANGED <<blobs, added, answer>>
  BY <1>1, <1>e, <1>f
<1>2. ASSUME NEW c \in Callers, Keep(c) PROVE (BlobsTrue /\ BytesVerified)'
  <2>1. CASE ~ Verified(call[c])
    BY <1>2, <1>1, <2>1 DEF Keep
  <2>2. CASE Verified(call[c])
    <3>1. BytesVerified'
      BY <1>2, <1>d, <2>2 DEF Keep, Give, BytesVerified
    <3>2. \/ UNCHANGED <<blobs, added>>
          \/ SetBytes(call[c].manifest.sha, call[c].bytes) /\ added' = added \ {call[c].manifest.sha}
      BY <1>2, <2>2 DEF Keep
    <3> QED
      BY <1>2, <1>b, <1>d, <1>e, <2>2, <3>1, <3>2 DEF Keep
  <2> QED
    BY <2>1, <2>2
<1>3. ASSUME NEW c \in Callers, MemoryPulled(c) PROVE (BlobsTrue /\ BytesVerified)'
  <2>1. CASE UNCHANGED <<blobs, added, answer>>
    BY <1>1, <2>1
  <2>2. CASE /\ call[c].at = "hashing" /\ Verified(call[c]) /\ Give(c)
             /\ SetBytes(call[c].manifest.sha, call[c].bytes) /\ added' = added \ {call[c].manifest.sha}
    BY <1>b, <1>d, <2>2 DEF Give, BytesVerified
  <2> QED
    BY <1>3, <2>1, <2>2 DEF MemoryPulled
<1>4. ASSUME NEW c \in Callers, MemoryPublished(c) PROVE (BlobsTrue /\ BytesVerified)'
  <2>1. CASE UNCHANGED <<blobs, added, answer>>
    BY <1>1, <2>1
  <2>2. CASE /\ call[c].at = "hashing" /\ Verified(call[c])
             /\ SetBytes(call[c].manifest.sha, call[c].bytes) /\ added' = added \ {call[c].manifest.sha}
             /\ answer' = [Nothing EXCEPT !.how = "publish", !.manifest = call[c].manifest,
                                          !.bytes = call[c].bytes]
    BY <1>b, <1>d, <2>2 DEF Nothing, BytesVerified
  <2> QED
    BY <1>4, <2>1, <2>2 DEF MemoryPublished, Add
<1>5. ASSUME NEW v \in Versions, NEW d \in Digests, NEW b \in Digests, MemoryAdd(v, d, b) \/ CacheAdd(v, d, b)
      PROVE  (BlobsTrue /\ BytesVerified)'
  BY <1>5, <1>c, <1>f DEF MemoryAdd, Add, CacheAdd
<1>6. ASSUME NEW m \in OfflineManifests, OfflinePull(m) PROVE (BlobsTrue /\ BytesVerified)'
  <2>1. m \in Manifests /\ m.sha \in Digests /\ blobs[m.sha] # NoDigest
    BY <1>6, OfflineHeld DEF OfflinePull, Types, Held, Manifests
  <2>2. /\ answer'.how = "offline" /\ answer'.manifest = m /\ answer'.bytes = blobs[m.sha]
        /\ answer'.raw <=> (m.sha \in added)
        /\ UNCHANGED <<blobs, added>>
    BY <1>6 DEF OfflinePull, Nothing
  <2>3. blobs[m.sha] = m.sha \/ m.sha \in added
    BY <2>1 DEF BlobsTrue
  <2> QED
    BY <1>e, <2>2, <2>3 DEF BytesVerified
<1> QED
  BY <1>1, <1>2, <1>3, <1>4, <1>5, <1>6
     DEF Next, Call, Answer, vars, Ask, PullHit, Search, PullHeld, StrictPull, PublishPack, PublishLearned,
         Serve, Fail, Receive, Fetch, HubPublish, MemoryResolve, MemoryYank, MemoryRead

LEMMA PinAskedKept == Types /\ PinAsked /\ [Next]_vars => PinAsked'
<1> SUFFICES ASSUME Types, PinAsked, [Next]_vars, NEW c \in Callers,
                    kind' = "http", call'[c].at \in {"fetching", "hashing"}
             PROVE  ~ Unpins(call'[c].manifest)
  BY DEF PinAsked, Unpins
<1>1. CallersStep /\ call[c] \in Calls
  BY StepsTaken DEF Types, TypeOK
<1>2. CASE call'[c] = Idle
  BY <1>2 DEF Idle
<1>3. CASE Publishes
  <2>1. PICK v \in Versions : call'[c] = Idle \/ call'[c] = Alive(v, call[c])
    BY <1>3 DEF Publishes
  <2>2. Alive(v, call[c]).at = call[c].at /\ Alive(v, call[c]).manifest = call[c].manifest
    BY <1>1, AliveCall
  <2> QED
    BY <1>1, <1>2, <2>1, <2>2 DEF CallersStep, PinAsked
<1>4. CASE CallStep(c)
  BY <1>1, <1>2, <1>4 DEF CallersStep, CallStep, Asks, Starts, Answered, Proceeds, PinAsked
<1> QED
  BY <1>1, <1>3, <1>4 DEF CallersStep

\* What an application is given comes of a call whose bytes were verified, of a
\* publication, or of the offline view.
AnswerStep ==
    \/ UNCHANGED answer
    \/ \E c \in Callers :
          /\ call[c].at = "hashing" /\ Verified(call[c])
          /\ kind = "http" \/ ~ Unpins(call[c].manifest)
          /\ answer'.how = call[c].op /\ answer'.manifest = call[c].manifest
          /\ answer'.bytes = call[c].bytes /\ answer'.hit = call[c].hit
          /\ answer'.dead <=> call[c].dead
    \/ answer'.how \in {"publish", "offline"} /\ answer'.hit = NoDigest

LEMMA AnswersGiven == Types /\ [Next]_vars => AnswerStep
<1> SUFFICES ASSUME Types, [Next]_vars PROVE AnswerStep
  OBVIOUS
<1> USE DEF hub, cache, callers
<1>1. CASE UNCHANGED answer
  BY <1>1 DEF AnswerStep
<1>2. ASSUME NEW c \in Callers, Keep(c) PROVE AnswerStep
  BY <1>2 DEF Keep, Give, AnswerStep
<1>3. ASSUME NEW c \in Callers, MemoryPulled(c) PROVE AnswerStep
  BY <1>3 DEF MemoryPulled, Give, AnswerStep
<1>4. ASSUME NEW c \in Callers, MemoryPublished(c) PROVE AnswerStep
  BY <1>4 DEF MemoryPublished, Nothing, AnswerStep
<1>5. ASSUME NEW m \in OfflineManifests, OfflinePull(m) PROVE AnswerStep
  BY <1>5 DEF OfflinePull, Nothing, AnswerStep
<1> QED
  BY <1>1, <1>2, <1>3, <1>4, <1>5
     DEF Next, Call, Answer, vars, Ask, PullHit, Search, PullHeld, StrictPull, PublishPack, PublishLearned,
         Serve, Fail, Receive, Fetch, HubPublish, MemoryAdd, CacheAdd, MemoryResolve, MemoryYank, MemoryRead

LEMMA PinGiven == Types /\ PinAsked /\ PinKept /\ [Next]_vars => PinKept'
<1> SUFFICES ASSUME Types, PinAsked, PinKept, [Next]_vars PROVE PinKept'
  OBVIOUS
<1>1. AnswerStep
  BY AnswersGiven
<1> QED
  BY <1>1 DEF AnswerStep, PinAsked, PinKept, Unpins, Verified, Types, TypeOK
\* Nothing that is gone comes back, and no digest changes, but by a new publication.
LEMMA RecordsKept ==
    ASSUME Types, RecordsNamed, CallersStep
    PROVE  /\ RecordsNamed'
           /\ \A v \in Versions : Gone(v) => Gone(v)'
           /\ \A v \in Versions, d \in Digests : Same(v, d) => Same(v, d)'
           /\ YanksOnly => \A a \in Versions \cup {Latest} : Dead(a) => Dead(a)'
<1>a. records \in [Versions -> Held] /\ NoManifest.sha \notin Digests /\ ~ NoManifest.yanked
      /\ Latest \notin Versions
  BY RegistryAssumption DEF Types, TypeOK, NoManifest, Latest
<1> DEFINE Kept == /\ RecordsNamed'
                   /\ \A v \in Versions : Gone(v) => Gone(v)'
                   /\ \A v \in Versions, d \in Digests : Same(v, d) => Same(v, d)'
<1>1. ASSUME Publishes PROVE Kept
  <2>1. PICK w \in Versions, e \in Digests : Republish(w, e)
    BY <1>1 DEF Publishes
  <2>2. /\ \A v \in Versions : v # w => records'[v] = records[v]
        /\ records'[w] = [version |-> w, sha |-> e, yanked |-> FALSE]
        /\ reissued \subseteq reissued'
        /\ records[w] # NoManifest => w \in reissued'
    BY <1>a, <2>1 DEF Republish
  <2>3. RecordsNamed'
    BY <2>2 DEF RecordsNamed
  <2>4. ASSUME NEW v \in Versions, Gone(v) PROVE Gone(v)'
    BY <1>a, <2>2, <2>4 DEF Gone
  <2>5. ASSUME NEW v \in Versions, NEW d \in Digests, Same(v, d) PROVE Same(v, d)'
    BY <1>a, <2>2, <2>5 DEF Same
  <2> QED
    BY <2>3, <2>4, <2>5
<1>b. ASSUME YanksOnly
      PROVE  /\ \A v \in Versions : /\ records'[v].version = records[v].version
                                    /\ records'[v].sha = records[v].sha
                                    /\ records[v].yanked => records'[v].yanked
                                    /\ records[v] = NoManifest <=> records'[v] = NoManifest
             /\ newest' = newest /\ reissued \subseteq reissued'
  <2>1. CASE UNCHANGED records
    BY <1>b, <2>1 DEF YanksOnly
  <2>2. CASE ~ UNCHANGED records
    <3>1. PICK w \in Versions : /\ records[w] \in Manifests
                                /\ records' = [records EXCEPT ![w] = [records[w] EXCEPT !.yanked = TRUE]]
      BY <1>b, <2>2 DEF YanksOnly
    <3> DEFINE y == [records[w] EXCEPT !.yanked = TRUE]
    <3>2. /\ y.version = records[w].version /\ y.sha = records[w].sha /\ y.yanked
          /\ records[w] # NoManifest /\ y # NoManifest
      BY <1>a, <3>1 DEF Manifests, NoManifest
    <3>3. records'[w] = y /\ \A v \in Versions : v # w => records'[v] = records[v]
      BY <1>a, <3>1
    <3> HIDE DEF y
    <3> QED
      BY <1>b, <3>2, <3>3 DEF YanksOnly
  <2> QED
    BY <2>1, <2>2
<1>2. ASSUME YanksOnly PROVE Kept
  <2>1. RecordsNamed'
    BY <1>2, <1>b DEF RecordsNamed
  <2>2. \A v \in Versions : Gone(v) => Gone(v)'
    BY <1>2, <1>b DEF Gone
  <2>3. \A v \in Versions, d \in Digests : Same(v, d) => Same(v, d)'
    BY <1>2, <1>b DEF Same
  <2> QED
    BY <2>1, <2>2, <2>3
<1>3. ASSUME YanksOnly, NEW a \in Versions \cup {Latest}, Dead(a) PROVE Dead(a)'
  <2>1. Served(a) \in Versions /\ Served(a)' = Served(a)
    BY <1>3, <1>b DEF Served, Dead, Known, Types, TypeOK
  <2> QED
    BY <1>3, <1>b, <2>1 DEF Dead, Known
<1> QED
  BY <1>1, <1>2, <1>3 DEF CallersStep

LEMMA DeadStoppedKept == Types /\ RecordsNamed /\ DeadStopped /\ [Next]_vars => DeadStopped'
<1> SUFFICES ASSUME Types, RecordsNamed, DeadStopped, [Next]_vars, NEW c \in Callers, NEW a, a = call'[c].asked,
                    call'[c].op = "pull", call'[c].dead, ~ Forced
             PROVE  \/ call'[c].at = "asked" /\ Dead(a)'
                    \/ kind' = "http" /\ call'[c].at = "answered" /\ call'[c].manifest.yanked
  BY DEF DeadStopped, Dead, Known, Served
<1> DEFINE k == call[c]
           n == call'[c]
<1>1. CallersStep /\ k \in Calls /\ n \in Calls
  BY StepsTaken, TypesKept DEF Types, TypeOK
<1>2. n # Idle
  BY DEF Idle
<1>3. CASE Publishes
  <2>1. PICK v \in Versions, d \in Digests : Republish(v, d) /\ n = Alive(v, k)
    BY <1>2, <1>3 DEF Publishes
  <2>2. k.op = "pull" /\ k.dead /\ n.asked = k.asked /\ n.at = k.at /\ n.manifest = k.manifest
        /\ k.asked = a /\ a \notin {v, Latest}
    BY <1>1, <2>1, AliveCall
  <2>3. Dead(a) => Dead(a)'
    BY <1>1, <2>1, <2>2 DEF Republish, Dead, Known, Served, Types, TypeOK, Calls
  <2> QED
    BY <1>1, <2>2, <2>3 DEF DeadStopped, CallersStep
<1>4. CASE YanksOnly /\ CallStep(c)
  <2>2. a \in Versions \cup {Latest}
    BY <1>1 DEF Calls
  <2>1. Dead(a) => Dead(a)'
    BY <1>1, <1>4, <2>2, RecordsKept
  <2>3. CASE n = k
    BY <1>1, <2>1, <2>2, <2>3 DEF DeadStopped, CallersStep
  <2>4. CASE Asks(c, n)
    BY <2>1, <2>2, <2>4 DEF Asks
  <2>5. CASE Starts(c, n)
    BY <2>5 DEF Starts
  <2>6. CASE Answered(k, n)
    <3>1. k.asked = a /\ Dead(a) /\ Dead(a)'
      BY <2>1, <2>2, <2>6 DEF Answered, SameRequest, DeadStopped
    <3>2. Served(a)' = Served(a)
      BY <1>4 DEF Served, YanksOnly
    <3>3. n.manifest.yanked
      BY <2>6, <3>1, <3>2 DEF Answered, Dead, Served
    <3> QED
      BY <1>1, <2>6, <3>3 DEF Answered, Denied, CallersStep
  <2>7. CASE Proceeds(k, n)
    <3>1. k.op = "pull" /\ k.dead /\ n.manifest = k.manifest
      BY <2>7 DEF Proceeds, SameRequest
    <3>2. k.at = "answered" /\ k.manifest.yanked
      BY <2>7, <3>1 DEF Proceeds, DeadStopped
    <3> QED
      BY <2>7, <3>1, <3>2 DEF Proceeds, Denied
  <2> QED
    BY <1>2, <1>4, <2>3, <2>4, <2>5, <2>6, <2>7 DEF CallStep
<1> QED
  BY <1>1, <1>3, <1>4 DEF CallersStep

LEMMA YankedStopped == Types /\ DeadStopped /\ YankedNotServed /\ [Next]_vars => YankedNotServed'
<1> SUFFICES ASSUME Types, DeadStopped, YankedNotServed, [Next]_vars PROVE YankedNotServed'
  OBVIOUS
<1>1. AnswerStep
  BY AnswersGiven
<1> QED
  BY <1>1 DEF AnswerStep, DeadStopped, YankedNotServed
LEMMA MoreReissued == CallersStep => reissued \subseteq reissued'
  BY DEF CallersStep, Publishes, YanksOnly, Republish

\* What a caller found is what it found before, or is in the records.
LEMMA SearchFinds ==
    ASSUME Types, [Next]_vars, NEW c \in Callers
    PROVE  \/ found'[c] = found[c]
           \/ UNCHANGED <<records, reissued>> /\ \E v \in Versions : found'[c] = records[v]
<1> USE DEF hub, cache, callers
<1>1. CASE UNCHANGED found
  BY <1>1
<1>2. ASSUME NEW d \in Callers, Search(d)
      PROVE  \/ found'[c] = found[c]
             \/ UNCHANGED <<records, reissued>> /\ \E v \in Versions : found'[c] = records[v]
  BY <1>2 DEF Search, HubHits, MemoryHits, Types, TypeOK
<1> QED
  BY <1>1, <1>2
     DEF Next, Call, Answer, vars, Ask, PullHit, PullHeld, StrictPull, PublishPack, PublishLearned,
         Serve, Fail, Receive, Fetch, HubPublish, MemoryAdd, CacheAdd, MemoryResolve, MemoryYank, MemoryRead,
         Keep, MemoryPulled, MemoryPublished, OfflinePull

LEMMA FoundKept ==
    ASSUME Types, RecordsNamed, HitsFollowed, [Next]_vars, NEW c \in Callers,
           NEW h, h = found'[c], h # NoManifest
    PROVE  Same(h.version, h.sha)'
<1>1. h \in Manifests
  BY TypesKept DEF Types, TypeOK, Held
<1>2. h.version \in Versions /\ h.sha \in Digests
  BY <1>1 DEF Manifests
<1>3. CASE h = found[c]
  <2>1. Same(h.version, h.sha)
    BY <1>3 DEF HitsFollowed
  <2> QED
    BY <1>2, <2>1, StepsTaken, RecordsKept
<1>4. CASE h # found[c]
  <2>1. UNCHANGED <<records, reissued>> /\ \E v \in Versions : h = records[v]
    BY <1>4, SearchFinds
  <2> QED
    BY <2>1 DEF RecordsNamed, Same
<1> QED
  BY <1>3, <1>4

\* Whatever call is answered, its hit is followed.
LEMMA HitKept ==
    ASSUME Types, RecordsNamed, HitsFollowed, [Next]_vars, NEW c \in Callers,
           NEW n, n = call'[c], n.hit # NoDigest
    PROVE  /\ n.at = "asked" => n.asked \in Versions /\ Same(n.asked, n.hit)'
           /\ n.at # "asked" => n.manifest.sha = n.hit \/ n.manifest.version \in reissued'
<1> DEFINE k == call[c]
<1>1. /\ CallersStep /\ k \in Calls /\ n \in Calls /\ n # Idle
      /\ n.hit \in Digests /\ reissued \subseteq reissued'
  BY StepsTaken, TypesKept, MoreReissued DEF Types, TypeOK, Calls, Bytes, Idle
<1>2. \A v \in Versions, d \in Digests : Same(v, d) => Same(v, d)'
  BY <1>1, RecordsKept
<1>3. CASE /\ n.hit = k.hit /\ n.at = k.at /\ n.asked = k.asked /\ n.manifest = k.manifest
  BY <1>1, <1>2, <1>3 DEF HitsFollowed
<1>4. CASE Publishes
  <2>1. PICK v \in Versions : n = Alive(v, k)
    BY <1>1, <1>4 DEF Publishes
  <2> QED
    BY <1>1, <1>3, <2>1, AliveCall
<1>5. CASE YanksOnly /\ CallStep(c)
  <2>1. CASE n = k
    BY <1>3, <2>1
  <2>2. CASE Asks(c, n)
    <3>1. /\ found[c] \in Manifests /\ n.at = "asked"
          /\ n.asked = found[c].version /\ n.hit = found[c].sha
      BY <2>2 DEF Asks, Types, TypeOK, Held
    <3>2. n.asked \in Versions /\ Same(n.asked, n.hit)
      BY <2>2, <3>1 DEF Asks, HitsFollowed, Manifests
    <3> QED
      BY <1>1, <1>2, <3>1, <3>2
  <2>3. CASE Starts(c, n)
    BY <2>3 DEF Starts
  <2>4. CASE Answered(k, n)
    <3>1. /\ k.at = "asked" /\ k.hit = n.hit /\ n.manifest = records'[Served(k.asked)]
          /\ n.at # "asked" /\ n.at # "idle"
      BY <2>4 DEF Answered, SameRequest
    <3>2. k.asked \in Versions /\ Same(k.asked, n.hit)
      BY <3>1 DEF HitsFollowed
    <3>3. PICK a \in Versions : a = k.asked
      BY <3>2
    <3>4. n.manifest = records'[a] /\ Same(a, n.hit)'
      BY <1>1, <1>2, <3>1, <3>2, <3>3, ManifestTypes DEF Served
    <3>5. n.manifest \in Manifests
      BY <3>1, TypesKept DEF Types, Told
    <3>6. n.manifest.version = a
      <4>1. RecordsNamed'
        BY <1>1, RecordsKept
      <4>2. n.manifest # NoManifest
        BY <3>5, ManifestTypes DEF Manifests, NoManifest
      <4> QED
        BY <3>4, <4>1, <4>2 DEF RecordsNamed
    <3> QED
      BY <3>1, <3>4, <3>6 DEF Same
  <2>5. CASE Proceeds(k, n)
    BY <1>1, <2>5 DEF Proceeds, SameRequest, HitsFollowed
  <2> QED
    BY <1>1, <1>5, <2>1, <2>2, <2>3, <2>4, <2>5 DEF CallStep
<1> QED
  BY <1>1, <1>4, <1>5 DEF CallersStep

LEMMA HitsFollowedKept ==
    Types /\ RecordsNamed /\ HitsFollowed /\ [Next]_vars => HitsFollowed'
<1> SUFFICES ASSUME Types, RecordsNamed, HitsFollowed, [Next]_vars, NEW c \in Callers,
                    NEW h, h = found'[c], NEW n, n = call'[c]
             PROVE  /\ h # NoManifest => Same(h.version, h.sha)'
                    /\ n.hit # NoDigest =>
                         /\ n.at = "asked" => n.asked \in Versions /\ Same(n.asked, n.hit)'
                         /\ n.at # "asked" =>
                               n.manifest.sha = n.hit \/ n.manifest.version \in reissued'
  BY DEF HitsFollowed, Same
<1> QED
  BY FoundKept, HitKept

LEMMA StagedKept ==
    Types /\ HitsFollowed /\ StagedMatches /\ [Next]_vars => StagedMatches'
<1> SUFFICES ASSUME Types, HitsFollowed, StagedMatches, [Next]_vars PROVE StagedMatches'
  OBVIOUS
<1>1. AnswerStep /\ reissued \subseteq reissued'
  BY AnswersGiven, StepsTaken, MoreReissued
<1> QED
  BY <1>1 DEF AnswerStep, HitsFollowed, StagedMatches, Verified
\* What setManifest is given says of a yank what the records do, or was resolved
\* by a call before.
Reported(m) ==
    IF m.yanked THEN Gone(m.version)'
    ELSE \/ Gone(m.version) => m.version \in reissued'
         \/ \E c \in Callers : /\ m = call[c].manifest /\ call'[c] # call[c]
                               /\ \/ call[c].at = "answered"
                                  \/ /\ call[c].at = "hashing" /\ call[c].op # "publish"
                                     /\ kind = "http" => ~ call[c].stored

ManifestStep == UNCHANGED manifests \/ \E m \in Manifests : SetManifest(m) /\ Reported(m)

LEMMA YankedManifest ==
    ASSUME NEW m \in Manifests
    PROVE  LET y == [m EXCEPT !.yanked = TRUE] IN
           y \in Manifests /\ y.version = m.version /\ y.yanked
  BY DEF Manifests

LEMMA ManifestsSet ==
    Types /\ RecordsNamed /\ YanksTrue /\ SinceTrue /\ [Next]_vars => ManifestStep
<1> SUFFICES ASSUME Types, RecordsNamed, YanksTrue, SinceTrue, [Next]_vars PROVE ManifestStep
  OBVIOUS
<1> USE DEF hub, cache, callers
<1>a. TypeOK /\ Told /\ CallersStep
  BY StepsTaken DEF Types
<1>b. \A v \in Versions : Gone(v) => Gone(v)'
  BY <1>a, RecordsKept
<1>c. ASSUME NEW m \in Manifests PROVE m.version \in Versions /\ m.yanked \in BOOLEAN
  BY DEF Manifests
<1>d. ASSUME NEW c \in Callers PROVE call[c] \in Calls /\ Honest(call[c].manifest)
  BY <1>a DEF TypeOK, YanksTrue
<1>e. ASSUME NEW m \in Manifests, SetManifest(m), Honest(m), NEW c \in Callers,
             m = call[c].manifest, call'[c] # call[c],
             \/ call[c].at = "answered"
             \/ /\ call[c].at = "hashing" /\ call[c].op # "publish"
                /\ kind = "http" => ~ call[c].stored
      PROVE  ManifestStep
  BY <1>b, <1>c, <1>e DEF ManifestStep, Reported, Honest
<1>f. ASSUME NEW v \in Versions, NEW d \in Digests, Republish(v, d),
             SetManifest([version |-> v, sha |-> d, yanked |-> FALSE])
      PROVE  ManifestStep
  <2> DEFINE m == [version |-> v, sha |-> d, yanked |-> FALSE]
  <2>1. m \in Manifests /\ m.version = v /\ ~ m.yanked
    BY DEF Manifests
  <2>2. Gone(v) => v \in reissued'
    BY <1>f DEF Gone, Republish, NoManifest
  <2> HIDE DEF m
  <2> QED
    BY <1>f, <2>1, <2>2 DEF ManifestStep, Reported, m
<1>g. ASSUME NEW z \in Manifests, Honest(z), NEW m \in Manifests, m.version = z.version, m.yanked, z.yanked,
             SetManifest(m)
      PROVE  ManifestStep
  BY <1>b, <1>c, <1>g DEF ManifestStep, Reported, Honest
<1>h. ASSUME NEW v \in Versions, records[v] # NoManifest
      PROVE  records[v] \in Manifests /\ records[v].version = v /\ Honest(records[v])
  BY <1>a, <1>h DEF TypeOK, Held, RecordsNamed, Honest, Gone
<1>1. CASE UNCHANGED manifests
  BY <1>1 DEF ManifestStep
<1>2. ASSUME NEW c \in Callers, Receive(c) PROVE ManifestStep
  <2>1. call[c].at = "answered" /\ call[c].manifest \in Manifests
    BY <1>2, <1>a DEF Receive, Told
  <2>2. PICK z \in Manifests : z = call[c].manifest
    BY <2>1
  <2>3. CASE z.yanked
    <3> DEFINE y == [z EXCEPT !.yanked = TRUE]
    <3>1. y \in Manifests /\ y.version = z.version /\ y.yanked /\ SetManifest(y)
      BY <1>2, <2>2, <2>3, YankedManifest DEF Receive, SetYanked
    <3> HIDE DEF y
    <3> QED
      BY <1>d, <1>g, <2>2, <2>3, <3>1
  <2>4. CASE ~ z.yanked
    <3>1. SetManifest(z)
      BY <1>2, <2>2, <2>4 DEF Receive
    <3>2. call'[c].at # "answered"
      <4>1. CASE End(c)
        BY <1>a, <4>1, IdleType, CallerGoes DEF End, Idle
      <4>2. CASE Pull(c, call[c], z)
        <5>1. PICK k \in Calls : k = call[c]
          BY <1>d
        <5>2. Stored(k, z).at = "hashing" /\ Missing(k, z).at = "fetching" /\ Idle.at = "idle"
          BY DEF Stored, Missing, Calls, Idle
        <5>3. call'[c] \in {Idle, Stored(k, z), Missing(k, z)}
          BY <1>a, <4>2, <5>1, PullGoes, CallerGoes, IdleType
        <5> QED
          BY <5>2, <5>3
      <4> QED
        BY <1>2, <2>2, <4>1, <4>2 DEF Receive
    <3> QED
      BY <1>d, <1>e, <2>1, <2>2, <3>1, <3>2
  <2> QED
    BY <2>3, <2>4
<1>3. ASSUME NEW c \in Callers, End(c), call[c].at = "hashing", SetManifest(call[c].manifest),
             call[c].op # "publish", kind = "http" => ~ call[c].stored
      PROVE  ManifestStep
  <2>1. PICK z \in Manifests : z = call[c].manifest
    BY <1>3, <1>a DEF Told
  <2>2. call'[c] # call[c]
    BY <1>3, <1>a, IdleType, CallerGoes DEF End, Idle
  <2> QED
    BY <1>3, <1>d, <1>e, <2>1, <2>2
<1>4. ASSUME NEW c \in Callers, Keep(c) PROVE ManifestStep
  <2>1. CASE UNCHANGED manifests
    BY <2>1 DEF ManifestStep
  <2>2. CASE ~ UNCHANGED manifests
    <3>1. /\ SetManifest(call[c].manifest) /\ ~ call[c].stored /\ call[c].at = "hashing"
          /\ End(c) /\ kind = "http"
      BY <1>4, <2>2 DEF Keep, Give
    <3>2. call[c].op # "publish"
      BY <3>1 DEF SinceTrue
    <3> QED
      BY <1>3, <3>1, <3>2
  <2> QED
    BY <2>1, <2>2
<1>5. ASSUME NEW c \in Callers, MemoryPulled(c) PROVE ManifestStep
  <2>1. CASE UNCHANGED manifests
    BY <2>1 DEF ManifestStep
  <2>2. CASE ~ UNCHANGED manifests
    BY <1>3, <1>5, <2>2 DEF MemoryPulled, Give
  <2> QED
    BY <2>1, <2>2
<1>6. ASSUME NEW c \in Callers, NEW v, v = Served(call[c].asked), Known(call[c].asked)
      PROVE  v \in Versions /\ records[v] # NoManifest
  BY <1>6, <1>a, <1>d DEF Known, Served, TypeOK, Calls
<1>7. ASSUME NEW c \in Callers, MemoryResolve(c) PROVE ManifestStep
  <2>1. CASE UNCHANGED manifests
    BY <2>1 DEF ManifestStep
  <2>2. CASE ~ UNCHANGED manifests
    <3>1. PICK v : v = Served(call[c].asked)
      OBVIOUS
    <3>2. Known(call[c].asked) /\ SetManifest(records[v]) /\ UNCHANGED <<records, reissued>>
      BY <1>7, <2>2, <3>1 DEF MemoryResolve
    <3>3. v \in Versions /\ records[v] # NoManifest
      BY <1>6, <3>1, <3>2
    <3>4. PICK z \in Manifests : z = records[v]
      BY <1>h, <3>3
    <3>5. z.version = v /\ SetManifest(z)
      BY <1>h, <3>2, <3>3, <3>4
    <3>6. Reported(z)
      BY <3>2, <3>4, <3>5 DEF Reported, Gone
    <3> QED
      BY <3>5, <3>6 DEF ManifestStep
  <2> QED
    BY <2>1, <2>2
<1>8. ASSUME NEW c \in Callers, MemoryYank(c) PROVE ManifestStep
  <2>1. CASE UNCHANGED manifests
    BY <2>1 DEF ManifestStep
  <2>2. CASE ~ UNCHANGED manifests
    <3>1. PICK v : v = Served(call[c].asked)
      OBVIOUS
    <3>2. /\ Known(call[c].asked) /\ SetManifest([records[v] EXCEPT !.yanked = TRUE])
          /\ records' = [records EXCEPT ![v].yanked = TRUE]
      BY <1>8, <2>2, <3>1 DEF MemoryYank, SetYanked
    <3>3. v \in Versions /\ records[v] # NoManifest
      BY <1>6, <3>1, <3>2
    <3>4. PICK y \in Manifests : y = [records[v] EXCEPT !.yanked = TRUE]
      BY <1>h, <3>3, YankedManifest
    <3>5. y.version = v /\ y.yanked /\ records'[v] = y
      BY <1>a, <1>h, <3>2, <3>3, <3>4, YankedManifest DEF TypeOK
    <3>6. Reported(y)
      BY <3>3, <3>5 DEF Reported, Gone
    <3> QED
      BY <3>2, <3>4, <3>6 DEF ManifestStep
  <2> QED
    BY <2>1, <2>2
<1>9. ASSUME NEW v \in Versions, NEW d \in Digests, NEW b \in Digests, MemoryAdd(v, d, b)
      PROVE  ManifestStep
  BY <1>9, <1>f DEF MemoryAdd, Add
<1>11. ASSUME NEW v \in Versions, NEW d \in Digests, NEW b \in Digests, CacheAdd(v, d, b)
      PROVE  ManifestStep
  <2>1. PICK m \in Manifests : m = [version |-> v, sha |-> d, yanked |-> FALSE]
    BY DEF Manifests
  <2>2. SetManifest(m) /\ m.version \in reissued' /\ ~ m.yanked
    BY <1>11, <2>1 DEF CacheAdd
  <2> QED
    BY <2>2 DEF ManifestStep, Reported
<1>10. ASSUME NEW c \in Callers, MemoryPublished(c) PROVE ManifestStep
  <2>1. CASE UNCHANGED manifests
    BY <2>1 DEF ManifestStep
  <2>2. CASE ~ UNCHANGED manifests
    <3>1. PICK m \in Manifests : m = call[c].manifest
      BY <1>10, <1>a DEF MemoryPublished, Told
    <3>2. Add(m.version, m.sha, call[c].bytes)
      BY <1>10, <2>2, <3>1 DEF MemoryPublished
    <3>3. m.version \in Versions /\ m.sha \in Digests
      BY DEF Manifests
    <3> QED
      BY <1>f, <3>2, <3>3 DEF Add
  <2> QED
    BY <2>1, <2>2
<1> QED
  BY <1>1, <1>2, <1>4, <1>5, <1>7, <1>8, <1>9, <1>10, <1>11
     DEF Next, Call, Answer, vars, Ask, PullHit, Search, PullHeld, StrictPull, PublishPack, PublishLearned,
         Serve, Fail, Fetch, HubPublish, MemoryRead, OfflinePull
LEMMA ManifestsKept ==
    Types /\ RecordsNamed /\ YanksTrue /\ SinceTrue /\ [Next]_vars =>
        /\ \A v \in Versions \cup {Latest} : \A m : m = manifests'[v] => Honest(m)'
        /\ \A v \in Versions : manifests'[v] # NoManifest => manifests'[v].version = v
<1> SUFFICES ASSUME Types, RecordsNamed, YanksTrue, SinceTrue, [Next]_vars
             PROVE  /\ \A v \in Versions \cup {Latest} : \A m : m = manifests'[v] => Honest(m)'
                    /\ \A v \in Versions : manifests'[v] # NoManifest => manifests'[v].version = v
  OBVIOUS
<1>1. /\ manifests \in [Versions \cup {Latest} -> Held] /\ Latest \notin Versions
      /\ \A v \in Versions : Gone(v) => Gone(v)'
  BY StepsTaken, RecordsKept, ManifestTypes DEF Types, TypeOK
<1>2. ASSUME NEW m \in Held, Honest(m) PROVE Honest(m)'
  <2>1. m \in Manifests \/ ~ m.yanked
    BY DEF Held, NoManifest
  <2> QED
    BY <1>1, <1>2, <2>1 DEF Honest, Manifests
<1>3. CASE UNCHANGED manifests
  BY <1>1, <1>2, <1>3 DEF YanksTrue
<1>4. ASSUME NEW m \in Manifests, SetManifest(m), Reported(m)
      PROVE  /\ \A v \in Versions \cup {Latest} : \A n : n = manifests'[v] => Honest(n)'
             /\ \A v \in Versions : manifests'[v] # NoManifest => manifests'[v].version = v
  <2>1. Honest(m)'
    BY <1>4 DEF Reported, Honest
  <2>2. \A v \in Versions \cup {Latest} :
           manifests'[v] = IF v \in {m.version, Latest} THEN m ELSE manifests[v]
    BY <1>1, <1>4 DEF SetManifest
  <2> QED
    BY <1>1, <1>2, <2>1, <2>2 DEF YanksTrue
<1> QED
  BY <1>3, <1>4, ManifestsSet DEF ManifestStep

\* A caller holds what it held, or what it was answered, or what is in the records.
LEMMA HeldStep ==
    ASSUME Types, [Next]_vars, NEW c \in Callers
    PROVE  \/ held'[c] = held[c] \/ held'[c] = call[c].manifest
           \/ \E v \in Versions : records[v] # NoManifest /\ held'[c] = records[v]
<1> USE DEF hub, cache, callers
<1>1. CASE UNCHANGED held
  BY <1>1
<1>2. ASSUME NEW d \in Callers, Receive(d)
      PROVE  held'[c] = held[c] \/ held'[c] = call[c].manifest
  BY <1>2 DEF Receive, Types, TypeOK
<1>3. ASSUME NEW d \in Callers, MemoryResolve(d)
      PROVE  \/ held'[c] = held[c]
             \/ \E v \in Versions : records[v] # NoManifest /\ held'[c] = records[v]
  <2>1. CASE Known(call[d].asked)
    <3>1. Served(call[d].asked) \in Versions /\ records[Served(call[d].asked)] # NoManifest
      BY <2>1 DEF Known, Served, Types, TypeOK, Calls
    <3> QED
      BY <1>3, <3>1 DEF MemoryResolve, Types, TypeOK
  <2>2. CASE ~ Known(call[d].asked)
    BY <1>3, <2>2 DEF MemoryResolve
  <2> QED
    BY <2>1, <2>2
<1> QED
  BY <1>1, <1>2, <1>3
     DEF Next, Call, Answer, vars, Ask, PullHit, PullHeld, StrictPull, PublishPack, PublishLearned,
         Search, Serve, Fail, Fetch, HubPublish, MemoryAdd, CacheAdd, MemoryYank, MemoryRead,
         Keep, MemoryPulled, MemoryPublished, OfflinePull

LEMMA YanksTrueKept ==
    Types /\ RecordsNamed /\ YanksTrue /\ SinceTrue /\ [Next]_vars => YanksTrue'
<1> SUFFICES ASSUME Types, RecordsNamed, YanksTrue, SinceTrue, [Next]_vars PROVE YanksTrue'
  OBVIOUS
<1>1. CallersStep /\ \A v \in Versions : Gone(v) => Gone(v)'
  BY StepsTaken, RecordsKept
<1>2. ASSUME NEW m \in Held, Honest(m) PROVE Honest(m)'
  <2>1. m \in Manifests \/ ~ m.yanked
    BY DEF Held, NoManifest
  <2> QED
    BY <1>1, <1>2, <2>1 DEF Honest, Manifests
<1>3. ASSUME NEW v \in Versions, NEW m, m = records[v] \/ m = records'[v], m # NoManifest
      PROVE  Honest(m)'
  <2>1. records' \in [Versions -> Held] /\ RecordsNamed'
    BY <1>1, TypesKept, RecordsKept DEF Types, TypeOK
  <2>2. CASE m = records[v]
    <3>1. m \in Held /\ Honest(m)
      BY <1>3, <2>2 DEF Honest, Gone, RecordsNamed, Types, TypeOK
    <3> QED
      BY <1>2, <3>1
  <2>3. CASE m = records'[v]
    BY <1>3, <2>1, <2>3 DEF Honest, Gone, RecordsNamed
  <2> QED
    BY <1>3, <2>2, <2>3
<1>4. ASSUME NEW c \in Callers, NEW m, m = held'[c] PROVE Honest(m)'
  <2>1. held[c] \in Held /\ call[c].manifest \in Held
    BY DEF Types, TypeOK, Calls
  <2> QED
    BY <1>2, <1>3, <1>4, <2>1, HeldStep DEF YanksTrue
<1>5. ASSUME NEW c \in Callers, NEW n, n = call'[c], NEW m, m = n.manifest PROVE Honest(m)'
  <2>1. /\ call[c] \in Calls /\ call[c].manifest \in Held /\ held[c] \in Held
        /\ \A v \in Versions \cup {Latest} : manifests[v] \in Held
    BY DEF Types, TypeOK, Calls
  <2>2. CASE m = call[c].manifest
    BY <1>2, <2>1, <2>2 DEF YanksTrue
  <2>3. CASE ~ m.yanked
    BY <2>3 DEF Honest
  <2>4. CASE n = Idle \/ Asks(c, n)
    BY <1>5, <2>3, <2>4 DEF Asks, Idle, NoManifest
  <2>5. CASE Starts(c, n)
    BY <1>2, <1>5, <2>1, <2>3, <2>5 DEF Starts, YanksTrue
  <2>6. CASE Answered(call[c], n)
    <3>1. PICK v : v = Served(call[c].asked)
      OBVIOUS
    <3>2. v \in Versions /\ n.at \notin {"idle", "asked"} /\ m = records'[v]
      BY <1>5, <2>1, <2>6, <3>1 DEF Answered, Known, Served, Types, TypeOK, Calls
    <3>3. m # NoManifest
      BY <1>5, <3>2, TypesKept, ManifestTypes DEF Types, Told, Manifests, NoManifest
    <3> QED
      BY <1>3, <3>2, <3>3
  <2>7. CASE Publishes
    <3>1. PICK v \in Versions : n = Idle \/ n = Alive(v, call[c])
      BY <1>5, <2>7 DEF Publishes
    <3> QED
      BY <1>5, <2>1, <2>2, <2>4, <3>1, AliveCall
  <2>8. CASE Proceeds(call[c], n) \/ n = call[c]
    BY <1>5, <2>2, <2>8 DEF Proceeds
  <2> QED
    BY <1>1, <1>5, <2>4, <2>5, <2>6, <2>7, <2>8 DEF CallersStep, CallStep
<1>6. /\ \A v \in Versions \cup {Latest} : \A m : m = manifests'[v] => Honest(m)'
      /\ \A v \in Versions : manifests'[v] # NoManifest => manifests'[v].version = v
  BY ManifestsKept
<1> QED
  BY <1>4, <1>5, <1>6 DEF YanksTrue, Honest
LEMMA SinceTrueKept ==
    Types /\ RecordsNamed /\ YanksTrue /\ SinceTrue /\ [Next]_vars => SinceTrue'
<1> DEFINE Knows(n) ==
      /\ n.op \in {"keep", "strict", "publish"} => n.at \in {"fetching", "hashing"}
      /\ n.op = "strict" => kind = "http" /\ n.stored
      /\ n.op = "publish" => kind = "memory"
      /\ n.at \notin {"idle", "asked"} /\ n.op \notin {"keep", "strict", "publish"} =>
            n.manifest.yanked \/ n.manifest.version \in reissued \/ n.manifest.version \notin n.since
<1> SUFFICES ASSUME Types, RecordsNamed, YanksTrue, SinceTrue, [Next]_vars, NEW c \in Callers,
                    NEW n, n = call'[c]
             PROVE  (\A v \in n.since : Gone(v)') /\ Knows(n)'
  BY DEF SinceTrue, Gone
<1>1. /\ CallersStep /\ call[c] \in Calls /\ n \in Calls /\ reissued \subseteq reissued' /\ kind' = kind
      /\ \A v \in Versions : Gone(v) => Gone(v)'
  BY StepsTaken, TypesKept, RecordsKept, MoreReissued DEF Types, TypeOK, CallersStep
<1> DEFINE k == call[c]
<1>2. Knows(k) /\ \A v \in k.since : v \in Versions /\ Gone(v)
  BY <1>1 DEF SinceTrue, Calls
<1>3. ASSUME n.op = k.op, n.at = k.at, n.manifest = k.manifest, n.stored <=> k.stored, n.since = k.since
      PROVE  (\A v \in n.since : Gone(v)') /\ Knows(n)'
  BY <1>1, <1>2, <1>3
<1>4. CASE n = Idle
  BY <1>4 DEF Idle
<1>5. CASE Publishes
  <2>1. PICK v \in Versions : n = Idle \/ n = Alive(v, k)
    BY <1>5 DEF Publishes
  <2> QED
    BY <1>1, <1>3, <1>4, <2>1, AliveCall
<1>6. \A v \in Yanked : Gone(v)'
  <2>1. \A v \in Yanked : v \in Versions /\ manifests[v].yanked
    BY DEF Yanked
  <2> QED
    BY <1>1, <2>1 DEF YanksTrue, Honest, NoManifest
<1>7. CASE YanksOnly /\ CallStep(c)
  <2>1. CASE n = k
    BY <1>3, <2>1
  <2>2. CASE Asks(c, n)
    BY <1>6, <2>2 DEF Asks
  <2>3. CASE Starts(c, n)
    BY <1>1, <1>6, <2>3 DEF Starts
  <2>4. CASE Answered(k, n)
    <3>1. /\ k.at = "asked" /\ n.op = k.op /\ n.since = k.since /\ n.at \in {"answered", "resolved"}
          /\ Known(k.asked) /\ n.manifest = records'[Served(k.asked)]
      BY <2>4 DEF Answered, SameRequest
    <3>2. PICK v \in Versions : v = Served(k.asked)
      BY <1>1, <3>1 DEF Known, Served, Types, TypeOK, Calls
    <3>3. n.manifest = records'[v] /\ n.manifest # NoManifest
      BY <3>1, <3>2, TypesKept, ManifestTypes DEF Types, Told, Manifests, NoManifest
    <3>4. n.manifest.version = v
      BY <1>1, <3>3, RecordsKept DEF RecordsNamed
    <3>5. k.op \notin {"keep", "strict", "publish"}
      BY <1>2, <3>1
    <3>6. \A w \in n.since : Gone(w)'
      BY <1>1, <1>2, <3>1
    <3>7. v \in n.since => n.manifest.yanked \/ v \in reissued'
      BY <3>3, <3>6 DEF Gone
    <3> QED
      BY <3>1, <3>4, <3>5, <3>6, <3>7
  <2>5. CASE Proceeds(k, n)
    <3>1. /\ n.op = k.op /\ n.since = k.since /\ n.manifest = k.manifest
          /\ n.at \in {"fetching", "hashing"} /\ k.at \notin {"idle", "asked"}
          /\ (n.stored <=> k.stored) \/ k.op = "pull"
      BY <2>5 DEF Proceeds, SameRequest
    <3> QED
      BY <1>1, <1>2, <3>1
  <2> QED
    BY <1>4, <1>7, <2>1, <2>2, <2>3, <2>4, <2>5 DEF CallStep
<1> QED
  BY <1>1, <1>5, <1>7 DEF CallersStep

\* A manifest in the cache that is no longer marked was set by a step that
\* YankRemembered allows.
LEMMA YankForgotten ==
    ASSUME Types, RecordsNamed, YanksTrue, SinceTrue, [Next]_vars,
           NEW v \in Versions, manifests[v].yanked, ~ manifests'[v].yanked
    PROVE  \/ v \in reissued'
           \/ \E c \in Callers : /\ call'[c] # call[c]
                                 /\ (v \notin call[c].since \/ call[c].op = "keep")
<1>1. PICK m \in Manifests : SetManifest(m) /\ Reported(m)
  BY ManifestsSet DEF ManifestStep
<1>2. m.version = v /\ ~ m.yanked
  BY <1>1, ManifestSet DEF Held, Types
<1>3. Gone(v)
  BY DEF YanksTrue, Honest, NoManifest
<1>4. CASE Gone(m.version) => m.version \in reissued'
  BY <1>2, <1>3, <1>4
<1>5. ASSUME NEW c \in Callers, m = call[c].manifest, call'[c] # call[c],
             \/ call[c].at = "answered"
             \/ /\ call[c].at = "hashing" /\ call[c].op # "publish"
                /\ kind = "http" => ~ call[c].stored
      PROVE  v \in reissued' \/ v \notin call[c].since \/ call[c].op = "keep"
  <2>1. call[c].op \notin {"strict", "publish"}
    BY <1>5 DEF SinceTrue
  <2>2. reissued \subseteq reissued'
    BY StepsTaken, MoreReissued
  <2> QED
    BY <1>2, <1>5, <2>1, <2>2 DEF SinceTrue
<1> QED
  BY <1>1, <1>2, <1>4, <1>5 DEF Reported

-----------------------------------------------------------------------------
(* The theorems.                                                           *)

RegistryInv ==
    /\ Types /\ RecordsNamed /\ BlobsTrue /\ PinAsked /\ DeadStopped /\ HitsFollowed /\ YanksTrue /\ SinceTrue
    /\ BytesVerified /\ PinKept /\ YankedNotServed /\ StagedMatches

LEMMA RegistryStarts == Init => RegistryInv
<1> SUFFICES ASSUME Init PROVE RegistryInv
  OBVIOUS
<1>1. Types
  BY TypesStart
<1>2. \A c \in Callers : call[c] = Idle /\ found[c] = NoManifest /\ held[c] = NoManifest
  BY DEF Init
<1>3. RecordsNamed /\ BlobsTrue
  BY DEF Init, RecordsNamed, BlobsTrue
<1>4. PinAsked /\ DeadStopped /\ HitsFollowed
  BY <1>2 DEF PinAsked, DeadStopped, HitsFollowed, Idle
<1>5. YanksTrue /\ SinceTrue
  BY <1>2 DEF Init, YanksTrue, SinceTrue, Honest, Idle, NoManifest
<1>6. BytesVerified /\ PinKept /\ YankedNotServed /\ StagedMatches
  BY DEF Init, Nothing, BytesVerified, PinKept, YankedNotServed, StagedMatches
<1> QED
  BY <1>1, <1>3, <1>4, <1>5, <1>6 DEF RegistryInv

LEMMA RegistryKept == RegistryInv /\ [Next]_vars => RegistryInv'
<1> SUFFICES ASSUME RegistryInv, [Next]_vars PROVE RegistryInv'
  OBVIOUS
<1>1. Types' /\ RecordsNamed'
  BY TypesKept, StepsTaken, RecordsKept DEF RegistryInv
<1>2. (BlobsTrue /\ BytesVerified)' /\ PinAsked' /\ PinKept'
  BY BytesKept, PinAskedKept, PinGiven DEF RegistryInv
<1>3. DeadStopped' /\ YankedNotServed'
  BY DeadStoppedKept, YankedStopped DEF RegistryInv
<1>4. HitsFollowed' /\ StagedMatches'
  BY HitsFollowedKept, StagedKept DEF RegistryInv
<1>5. YanksTrue' /\ SinceTrue'
  BY YanksTrueKept, SinceTrueKept DEF RegistryInv
<1> QED
  BY <1>1, <1>2, <1>3, <1>4, <1>5 DEF RegistryInv

\* The invariant holds in every state of every run of the client.
THEOREM RegistryInvHolds == Spec => []RegistryInv
  BY RegistryStarts, RegistryKept, PTL DEF Spec

\* Whatever the blob store answers and whoever filled the cache, the bytes a pull
\* returns are those of the manifest's digest (assertDigest in http.ts and fake.ts),
\* and those of the offline view as well, unless add was given others for that digest
\* and no pull has replaced them since (offline.ts).
THEOREM BytesAreVerified == Spec => []BytesVerified
<1>1. RegistryInv => BytesVerified
  BY DEF RegistryInv
<1> QED
  BY <1>1, RegistryInvHolds, PTL

\* An online pull gives the digest the lockfile pins or nothing
\* (assertLockfilePin in http.ts and fake.ts).
THEOREM PinIsKept == Spec => []PinKept
<1>1. RegistryInv => PinKept
  BY DEF RegistryInv
<1> QED
  BY <1>1, RegistryInvHolds, PTL

\* A version yanked before it was asked for is not given, whatever happens
\* between the request and the answer (denyYanked in http.ts and fake.ts).
THEOREM YankedIsNotServed == Spec => []YankedNotServed
<1>1. RegistryInv => YankedNotServed
  BY DEF RegistryInv
<1> QED
  BY <1>1, RegistryInvHolds, PTL

\* Acquisition stages the pack whose digest its search found, unless the version
\* was published anew since (the pull by name and version in acquire.ts).
THEOREM HitIsStaged == Spec => []StagedMatches
<1>1. RegistryInv => StagedMatches
  BY DEF RegistryInv
<1> QED
  BY <1>1, RegistryInvHolds, PTL

\* The cache forgets a yank in no other way than YankRemembered allows
\* (setManifest in http.ts and fake.ts).
THEOREM YankIsRemembered == Spec => YankRemembered
<1>1. RegistryInv /\ [Next]_vars => Remembers
  BY YankForgotten DEF RegistryInv, Remembers
<1> QED
  BY <1>1, RegistryInvHolds, PTL DEF Spec, YankRemembered
=============================================================================
