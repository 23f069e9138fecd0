----------------------------- MODULE PackRegistry -----------------------------
(***************************************************************************)
(* The registry clients of packages/agents/src/registry for one pack:      *)
(* HttpPackRegistry over a hub (http.ts), MemoryPackRegistry (fake.ts),    *)
(* the cache both fill (cache.ts), the offline view of it (offline.ts),    *)
(* and what calls them: acquisition (skills/acquire.ts), which pulls what  *)
(* a search found, and publication of a learned skill (skills/publish.ts). *)
(* The callers share one process: their calls interleave at the awaits.    *)
(* Bytes are named by their digest.                                        *)
(***************************************************************************)
EXTENDS Integers, FiniteSets

CONSTANTS
    Versions,   \* of the pack: positive numbers
    Digests,    \* of contents
    NoDigest,
    Callers,
    Pin,        \* what the lockfile pins: a version and a digest
    Forced,      \* the option force
    MaxCalls    \* bound: calls begun

Latest == 0     \* the version a specification without one asks for

NoManifest == [version |-> Latest, sha |-> NoDigest, yanked |-> FALSE]
Manifests  == [version : Versions, sha : Digests, yanked : BOOLEAN]
Unpinned   == [version |-> Latest, sha |-> NoDigest]
Pins       == [version : Versions, sha : Digests] \cup {Unpinned}

ASSUME RegistryAssumption ==
    /\ Versions \subseteq Nat \ {0} /\ NoDigest \notin Digests
    /\ Pin \in Pins
    /\ Forced \in BOOLEAN /\ MaxCalls \in Nat

VARIABLES
    kind,       \* "http" or "memory": the registry the application made
    records,    \* what it offers: the manifest of each version,
    contents,   \* and the bytes behind it (memory)
    newest,
    manifests,  \* the cache: manifests by version or Latest,
    blobs,      \* and bytes by digest,
    added,      \* history: those last set by add, under a digest it was told
    call,       \* the call each caller awaits
    held,       \* the manifest each caller last resolved
    found,      \* the hit each caller last searched
    calls,      \* calls begun
    reissued,   \* history: versions published more than once, or added beside
    answer      \* what an application was last given

hub     == <<kind, records, contents, newest, reissued>>
cache   == <<manifests, blobs, added>>
callers == <<call, held, found, calls>>
vars    == <<hub, cache, callers, answer>>

\* since: the yanks the cache knew when the call began; dead: the version it
\* asks for was yanked then; hit: the digest of the hit acquisition follows.
Idle == [op |-> "none", at |-> "idle", asked |-> Latest, manifest |-> NoManifest, bytes |-> NoDigest,
         stored |-> FALSE, hit |-> NoDigest, dead |-> FALSE, since |-> {}]

\* raw: the bytes are as add was given them.
Nothing == [how |-> "none", manifest |-> NoManifest, bytes |-> NoDigest, hit |-> NoDigest,
            dead |-> FALSE, raw |-> FALSE]

Init ==
    /\ kind \in {"http", "memory"}
    /\ records = [v \in Versions |-> NoManifest]
    /\ contents = [v \in Versions |-> NoDigest] /\ newest = Latest
    /\ manifests = [v \in Versions \cup {Latest} |-> NoManifest]
    /\ blobs = [d \in Digests |-> NoDigest] /\ added = {}
    /\ call = [c \in Callers |-> Idle] /\ calls = 0
    /\ held = [c \in Callers |-> NoManifest] /\ found = [c \in Callers |-> NoManifest]
    /\ reissued = {} /\ answer = Nothing

-----------------------------------------------------------------------------
\* MemoryPackCache.setManifest: the last manifest set, of whatever version, is
\* the latest one.
SetManifest(m) ==
    manifests' = [v \in DOMAIN manifests |-> IF v \in {m.version, Latest} THEN m ELSE manifests[v]]

SetBytes(d, b) == blobs' = [blobs EXCEPT ![d] = b]

\* Fault: the 410 branch caches the manifest of the body, not marked as yanked.
SetAsAnswered(k, m) == SetManifest([m EXCEPT !.yanked = (k.op = "yank")])

\* The 410 branch of resolve, and yank: the manifest is cached as yanked.
SetYanked(k, m) == SetManifest([m EXCEPT !.yanked = TRUE])

\* Fault: a yanked manifest passes.
NotDenied(m) == FALSE

\* denyYanked throws.
Denied(m) == m.yanked /\ ~ Forced

\* Fault: the pin binds the version it names only.
UnpinsVersion(m) == Pin.version = m.version /\ Pin.sha # m.sha /\ ~ Forced

\* assertLockfilePin throws: the digest of whatever version is compared.
Unpins(m) == Pin # Unpinned /\ Pin.sha # m.sha /\ ~ Forced

Served(v) == IF v = Latest THEN newest ELSE v     \* the version a registry takes v for
Known(v)  == Served(v) # Latest /\ records[Served(v)] # NoManifest
Dead(v)   == Known(v) /\ records[Served(v)].yanked
Yanked    == {v \in Versions : manifests[v].yanked}

Go(c, k) == call' = [call EXCEPT ![c] = k]
End(c)   == Go(c, Idle)

Begin(c, k) ==
    /\ call[c] = Idle /\ calls < MaxCalls
    /\ calls' = calls + 1
    /\ Go(c, [k EXCEPT !.since = Yanked])

Give(c) ==
    LET k == call[c] IN
    /\ answer' = [how |-> k.op, manifest |-> k.manifest, bytes |-> k.bytes, hit |-> k.hit,
                  dead |-> k.dead, raw |-> FALSE]
    /\ End(c)

\* Version v is published: what was yanked of it is not any more.
Republish(v, d) ==
    /\ records' = [records EXCEPT ![v] = [version |-> v, sha |-> d, yanked |-> FALSE]]
    /\ newest' = v
    /\ reissued' = IF records[v] = NoManifest THEN reissued ELSE reissued \cup {v}

Alive(v, k) == [k EXCEPT !.dead = @ /\ k.asked \notin {v, Latest}]

-----------------------------------------------------------------------------
(* What an application calls.  Operations: "resolve", "pull", "keep" (a pull   *)
(* of a manifest the caller holds), "yank", "publish" and "strict".            *)

\* resolve, pull or yank of a specification, up to the first await.
Ask(c, op, v) ==
    /\ Begin(c, [Idle EXCEPT !.op = op, !.at = "asked", !.asked = v, !.dead = Dead(v)])
    /\ UNCHANGED <<hub, cache, held, found, answer>>

\* Fault: the hit is pulled by its name only.
PullLatest(c) ==
    /\ found[c] # NoManifest /\ ~ found[c].yanked
    /\ Begin(c, [Idle EXCEPT !.op = "pull", !.at = "asked", !.dead = Dead(Latest), !.hit = found[c].sha])
    /\ UNCHANGED <<hub, cache, held, found, answer>>

\* acquireSkills pulls a hit by its name and version, if it is not yanked.
PullHit(c) ==
    LET h == found[c] IN
    /\ h # NoManifest /\ ~ h.yanked
    /\ Begin(c, [Idle EXCEPT !.op = "pull", !.at = "asked", !.asked = h.version,
                             !.dead = Dead(h.version), !.hit = h.sha])
    /\ UNCHANGED <<hub, cache, held, found, answer>>

\* What a search finds: the hub lists every version with its flag,
HubHits == {records[v] : v \in Versions} \ {NoManifest}

\* the memory registry the newest, and only if it is not yanked.
MemoryHits == {records[v] : v \in {w \in Versions : w = newest /\ ~ Denied(records[w])}}

Search(c) ==
    /\ \E h \in IF kind = "http" THEN HubHits ELSE MemoryHits : found' = [found EXCEPT ![c] = h]
    /\ UNCHANGED <<hub, cache, call, held, calls, answer>>

\* The part of HttpPackRegistry.pull after the manifest is known.
Pull(c, k, m) ==
    IF Denied(m) \/ Unpins(m) THEN End(c)
    ELSE Go(c, [k EXCEPT !.manifest = m, !.bytes = blobs[m.sha], !.stored = (blobs[m.sha] # NoDigest),
                         !.at = IF blobs[m.sha] # NoDigest THEN "hashing" ELSE "fetching"])

\* pull of a manifest: its own flag is looked at, the registry is not asked.
PullHeld(c) ==
    LET m == held[c]
        k == [Idle EXCEPT !.op = "keep", !.manifest = m, !.since = Yanked] IN
    /\ m # NoManifest /\ call[c] = Idle /\ calls < MaxCalls
    /\ calls' = calls + 1
    /\ IF kind = "http" THEN Pull(c, k, m)
       ELSE IF Denied(m) \/ records[m.version] = NoManifest THEN End(c)
       ELSE Go(c, [k EXCEPT !.at = "hashing", !.bytes = contents[m.version]])
    /\ UNCHANGED <<hub, cache, held, found, answer>>

-----------------------------------------------------------------------------
(* HttpPackRegistry.                                                           *)

\* The hub handles the request: 404 and other failures end the call, a yank
\* takes effect, 200 and 410 are on their way back.
Serve(c) ==
    LET k == call[c]  v == Served(k.asked) IN
    /\ kind = "http" /\ k.at = "asked"
    /\ IF ~ Known(k.asked) THEN End(c) /\ UNCHANGED records
       ELSE /\ records' = IF k.op = "yank" THEN [records EXCEPT ![v].yanked = TRUE] ELSE records
            /\ Go(c, [k EXCEPT !.at = "answered", !.manifest = records'[v]])
    /\ UNCHANGED <<kind, contents, newest, reissued, cache, held, found, calls, answer>>

\* The request fails: the call throws.
Fail(c) ==
    /\ kind = "http" /\ call[c].at \in {"asked", "answered", "fetching"}
    /\ End(c)
    /\ UNCHANGED <<hub, cache, held, found, calls, answer>>

\* resolve and yank with the answer, and pull up to its next await.
Receive(c) ==
    LET k == call[c]  m == k.manifest IN
    /\ kind = "http" /\ k.at = "answered"
    /\ IF m.yanked THEN SetYanked(k, m) ELSE SetManifest(m)
    /\ held' = IF k.op = "resolve" /\ ~ Denied(m) THEN [held EXCEPT ![c] = m] ELSE held
    /\ IF k.op = "pull" THEN Pull(c, k, m) ELSE End(c)
    /\ UNCHANGED <<hub, blobs, added, found, calls, answer>>

\* The blob, whatever the store has under the manifest's address.
Fetch(c) ==
    /\ call[c].at = "fetching"
    /\ \E b \in Digests : Go(c, [call[c] EXCEPT !.at = "hashing", !.bytes = b])
    /\ UNCHANGED <<hub, cache, held, found, calls, answer>>

\* Fault: what was stored or downloaded is not hashed.
Unverified(k) == TRUE

\* assertDigest does not throw.
Verified(k) == k.bytes = k.manifest.sha

\* What follows assertDigest in pull.
Keep(c) ==
    LET k == call[c] IN
    /\ kind = "http" /\ k.at = "hashing"
    /\ IF ~ Verified(k) THEN End(c) /\ UNCHANGED <<cache, answer>>
       ELSE /\ Give(c)
            /\ IF k.stored THEN UNCHANGED cache
               ELSE /\ SetBytes(k.manifest.sha, k.bytes) /\ added' = added \ {k.manifest.sha}
                    /\ SetManifest(k.manifest)
    /\ UNCHANGED <<hub, held, found, calls>>

\* Others publish on the hub.
HubPublish(v, d) ==
    /\ kind = "http" /\ calls < MaxCalls /\ calls' = calls + 1
    /\ Republish(v, d)
    /\ call' = [c \in Callers |-> Alive(v, call[c])]
    /\ UNCHANGED <<kind, contents, cache, held, found, answer>>

-----------------------------------------------------------------------------
(* MemoryPackRegistry: only digests are awaited.                               *)

\* add: version v with digest d over the bytes b, which are not looked at.
Add(v, d, b) ==
    /\ Republish(v, d)
    /\ contents' = [contents EXCEPT ![v] = b]
    /\ SetManifest([version |-> v, sha |-> d, yanked |-> FALSE])
    /\ SetBytes(d, b)

MemoryAdd(v, d, b) ==
    /\ kind = "memory" /\ calls < MaxCalls /\ calls' = calls + 1
    /\ Add(v, d, b) /\ added' = added \cup {d}
    /\ call' = [c \in Callers |-> Alive(v, call[c])]
    /\ UNCHANGED <<kind, held, found, answer>>

\* The same of another registry, over the cache of an HttpPackRegistry.
CacheAdd(v, d, b) ==
    /\ kind = "http" /\ calls < MaxCalls /\ calls' = calls + 1
    /\ SetManifest([version |-> v, sha |-> d, yanked |-> FALSE])
    /\ SetBytes(d, b) /\ added' = added \cup {d}
    /\ reissued' = reissued \cup {v}
    /\ UNCHANGED <<kind, records, contents, newest, call, held, found, answer>>

\* resolve, and the first part of pull, whose resolve is awaited.
MemoryResolve(c) ==
    LET k == call[c]  v == Served(k.asked) IN
    /\ kind = "memory" /\ k.at = "asked" /\ k.op # "yank"
    /\ IF ~ Known(k.asked) \/ Denied(records[v]) THEN End(c) /\ UNCHANGED <<manifests, held>>
       ELSE /\ SetManifest(records[v])
            /\ held' = IF k.op = "resolve" THEN [held EXCEPT ![c] = records[v]] ELSE held
            /\ IF k.op = "resolve" THEN End(c)
               ELSE Go(c, [k EXCEPT !.at = "resolved", !.manifest = records[v]])
    /\ UNCHANGED <<hub, blobs, added, found, calls, answer>>

MemoryYank(c) ==
    LET k == call[c]  v == Served(k.asked) IN
    /\ kind = "memory" /\ k.at = "asked" /\ k.op = "yank"
    /\ End(c)
    /\ IF ~ Known(k.asked) THEN UNCHANGED <<records, manifests>>
       ELSE /\ records' = [records EXCEPT ![v].yanked = TRUE]
            /\ SetYanked(k, records[v])
    /\ UNCHANGED <<kind, contents, newest, reissued, blobs, added, held, found, calls, answer>>

\* pull reads the record and awaits the digest of its bytes.
MemoryRead(c) ==
    LET k == call[c] IN
    /\ kind = "memory" /\ k.at = "resolved"
    /\ Go(c, [k EXCEPT !.at = "hashing", !.bytes = contents[k.manifest.version]])
    /\ UNCHANGED <<hub, cache, held, found, calls, answer>>

\* The rest of pull.
MemoryPulled(c) ==
    LET k == call[c] IN
    /\ kind = "memory" /\ k.at = "hashing" /\ k.op # "publish"
    /\ IF ~ Verified(k) \/ Unpins(k.manifest) THEN End(c) /\ UNCHANGED <<cache, answer>>
       ELSE /\ Give(c)
            /\ SetBytes(k.manifest.sha, k.bytes) /\ added' = added \ {k.manifest.sha}
            /\ SetManifest(k.manifest)
    /\ UNCHANGED <<hub, held, found, calls>>

\* The rest of publish.
MemoryPublished(c) ==
    LET k == call[c]  m == k.manifest IN
    /\ kind = "memory" /\ k.at = "hashing" /\ k.op = "publish"
    /\ IF ~ Verified(k) THEN End(c) /\ UNCHANGED <<records, contents, newest, reissued, cache, answer>>
       ELSE /\ Add(m.version, m.sha, k.bytes) /\ added' = added \ {m.sha}
            /\ answer' = [Nothing EXCEPT !.how = "publish", !.manifest = m, !.bytes = k.bytes]
            /\ call' = [b \in Callers |-> IF b = c THEN Idle ELSE Alive(m.version, call[b])]
    /\ UNCHANGED <<kind, held, found, calls>>

-----------------------------------------------------------------------------
(* Offline: offlinePackRegistry over the cache of either registry, whose       *)
(* origin is remote (of another it hands everything to the registry), and an   *)
(* HttpPackRegistry with the option offline over the same cache.               *)

\* resolve: the cached manifest as it is, else the pin.
OfflineManifest(v) ==
    IF manifests[v] # NoManifest THEN manifests[v]
    ELSE IF Pin # Unpinned /\ v \in {Latest, Pin.version}
         THEN [version |-> Pin.version, sha |-> Pin.sha, yanked |-> FALSE]
    ELSE NoManifest

\* What its pull is asked for: a specification, or a manifest of an earlier resolve.
OfflineManifests == {OfflineManifest(v) : v \in Versions \cup {Latest}} \cup {held[c] : c \in Callers}

\* pull: the cached bytes as they are.
OfflinePull(m) ==
    /\ m # NoManifest /\ blobs[m.sha] # NoDigest
    /\ calls < MaxCalls /\ calls' = calls + 1
    /\ answer' = [Nothing EXCEPT !.how = "offline", !.manifest = m, !.bytes = blobs[m.sha],
                                !.raw = (m.sha \in added)]
    /\ UNCHANGED <<hub, cache, call, held, found>>

\* The option offline: nothing is fetched.
StrictPull(c, v) ==
    LET m == manifests[v]  k == [Idle EXCEPT !.op = "strict", !.since = Yanked] IN
    /\ kind = "http" /\ m # NoManifest /\ call[c] = Idle /\ calls < MaxCalls
    /\ calls' = calls + 1
    /\ IF blobs[m.sha] # NoDigest THEN Pull(c, k, m) ELSE End(c)
    /\ UNCHANGED <<hub, cache, held, found, answer>>

-----------------------------------------------------------------------------
(* publishLearnedSkill, and publish called by the application itself.          *)

Candidates == [promoted : BOOLEAN, gates : BOOLEAN, passed : BOOLEAN, secret : BOOLEAN]
Requests   == [skill : Candidates, policy : {"disabled", "propose-only", "authorized"}, approval : BOOLEAN]

\* The pack built of a skill and its manifest, which holds no secret.
Clean(skill) == ~ skill.secret

\* The requests that get as far as their policy.
Publishable == {q \in Requests :
    /\ q.policy # "disabled"
    /\ q.skill.promoted /\ q.skill.gates /\ q.skill.passed
    /\ q.policy = "authorized" => q.approval
    /\ Clean(q.skill)}

\* The manifest of a pack that was built: its digest is that of its bytes.
Built(v, d) == [version |-> v, sha |-> d, yanked |-> FALSE]

\* A proposal is answered at once; an HttpPackRegistry has no publish.
PublishLearned(c, q, v, d) ==
    /\ \/ /\ q.policy = "propose-only"
          /\ call[c] = Idle /\ calls < MaxCalls /\ calls' = calls + 1
          /\ UNCHANGED call
       \/ /\ q.policy = "authorized" /\ kind = "memory"
          /\ Begin(c, [Idle EXCEPT !.op = "publish", !.at = "hashing", !.manifest = Built(v, d), !.bytes = d])
    /\ UNCHANGED <<hub, cache, held, found, answer>>

\* publish of bytes b with a manifest of the application's own.
PublishPack(c, v, d, b) ==
    /\ kind = "memory"
    /\ Begin(c, [Idle EXCEPT !.op = "publish", !.at = "hashing", !.bytes = b,
                             !.manifest = [version |-> v, sha |-> d, yanked |-> FALSE]])
    /\ UNCHANGED <<hub, cache, held, found, answer>>

-----------------------------------------------------------------------------
Call(c) ==
    \/ \E v \in Versions \cup {Latest} :
          \/ \E op \in {"resolve", "pull", "yank"} : Ask(c, op, v)
          \/ StrictPull(c, v)
    \/ PullHit(c) \/ Search(c) \/ PullHeld(c)
    \/ \E v \in Versions, d \in Digests :
          \/ \E q \in Publishable : PublishLearned(c, q, v, d)
          \/ \E b \in Digests : PublishPack(c, v, d, b)

Answer(c) ==
    \/ Serve(c) \/ Receive(c) \/ Fetch(c) \/ Keep(c)
    \/ MemoryResolve(c) \/ MemoryYank(c) \/ MemoryRead(c) \/ MemoryPulled(c) \/ MemoryPublished(c)

Next ==
    \/ \E c \in Callers : Call(c) \/ Answer(c) \/ Fail(c)
    \/ \E m \in OfflineManifests : OfflinePull(m)
    \/ \E v \in Versions, d \in Digests :
          HubPublish(v, d) \/ \E b \in Digests : MemoryAdd(v, d, b) \/ CacheAdd(v, d, b)

Spec == Init /\ [][Next]_vars

-----------------------------------------------------------------------------
Operations == {"none", "resolve", "pull", "keep", "yank", "publish", "strict"}
Held  == Manifests \cup {NoManifest}
Bytes == Digests \cup {NoDigest}

Calls == [op : Operations, at : {"idle", "asked", "answered", "resolved", "fetching", "hashing"},
          asked : Versions \cup {Latest}, manifest : Held, bytes : Bytes, stored : BOOLEAN,
          hit : Bytes, dead : BOOLEAN, since : SUBSET Versions]

\* Types.
TypeOK ==
    /\ kind \in {"http", "memory"}
    /\ records \in [Versions -> Held] /\ contents \in [Versions -> Bytes]
    /\ newest \in Versions \cup {Latest} /\ reissued \subseteq Versions
    /\ manifests \in [Versions \cup {Latest} -> Held] /\ blobs \in [Digests -> Bytes]
    /\ added \subseteq Digests
    /\ call \in [Callers -> Calls] /\ calls \in Nat
    /\ held \in [Callers -> Held] /\ found \in [Callers -> Held]
    /\ answer \in [how : Operations \cup {"offline"}, manifest : Held, bytes : Bytes,
                   hit : Bytes, dead : BOOLEAN, raw : BOOLEAN]

\* Whatever the blob store answers and whoever filled the cache, the bytes a pull
\* or publication returns are those of its manifest's digest.  The offline view does
\* not hash them: it gives others only where they are as add was given them, and no
\* pull has set them since (http.ts, fake.ts, offline.ts).
BytesVerified == answer.how # "none" =>
    \/ answer.bytes = answer.manifest.sha
    \/ answer.how = "offline" /\ answer.raw

\* An online pull, and one with the option offline, gives what the lockfile pins
\* or nothing (assertLockfilePin), whoever else pulls and publishes meanwhile.
PinKept == answer.how \in {"pull", "keep", "strict"} /\ Pin # Unpinned /\ ~ Forced => answer.bytes = Pin.sha

\* A pull by specification that was called after the yank of the version it asks
\* for gives nothing, at whatever moment the other calls are answered (denyYanked).
YankedNotServed == answer.how = "pull" /\ answer.dead => Forced

\* What acquisition stages under the digest of a search hit is the pack of that
\* digest, unless the version was published anew after the search (acquire.ts).
StagedMatches ==
    answer.hit # NoDigest => (answer.bytes = answer.hit \/ answer.manifest.version \in reissued)

Remembers ==
    \A v \in Versions : manifests[v].yanked /\ ~ manifests'[v].yanked =>
        \/ v \in reissued'
        \/ \E c \in Callers : /\ call'[c] # call[c]
                             /\ (v \notin call[c].since \/ call[c].op = "keep")

\* The cache forgets a yank for a new publication of the version or an add, for an answer
\* to a call that began before the client knew the yank, or for the pull of a
\* manifest resolved before: by nothing else (setManifest in http.ts, fake.ts).
YankRemembered == [][Remembers]_vars
=============================================================================
