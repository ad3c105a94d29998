------------------------------ MODULE StreamAuth ------------------------------
(***************************************************************************)
(* Stream Authorization: whether a listener may play a track now, and      *)
(* which variant.  The status comes from Catalog and the variants from     *)
(* object storage, each through a cache in Redis, while the transcoder     *)
(* writes variants one by one and an editor blocks the track.              *)
(***************************************************************************)
EXTENDS Integers, FiniteSets, FiniteSetsExt

CONSTANTS Bitrates,        \* media.Qualities, naturals
          DefaultQuality,
          Streams,         \* requests
          StatusTTL,       \* STREAM_STATUS_CACHE_TTL
          StreamTimeout,   \* HTTP_REQUEST_TIMEOUT
          LastStreamTime   \* bound: the clock

ASSUME StreamAssumption ==
  /\ Bitrates \subseteq Nat /\ IsFiniteSet(Bitrates)
  /\ DefaultQuality \in Nat
  /\ StatusTTL \in Nat
  /\ StreamTimeout \in Nat
  /\ LastStreamTime \in Nat

VARIABLES streamClock,
          trackStatus,     \* what Catalog answers, and since when it is (not) READY
          variants,        \* variants in object storage
          statusCache,     \* [status, expires]; status "none" when absent
          variantCache,    \* the cached set, {} when absent
          stream           \* each request

streamVars == <<streamClock, trackStatus, variants, statusCache, variantCache, stream>>

NoStream == [pc |-> "idle", wants |-> 0, since |-> 0, read |-> "none", seen |-> {}, left |-> {},
             whole |-> FALSE, status |-> 0, granted |-> 0]

StreamInit ==
  /\ streamClock = 0
  /\ trackStatus = [status |-> "PROCESSING", since |-> 0]
  /\ variants = {}
  /\ statusCache = [status |-> "none", expires |-> 0]
  /\ variantCache = {}
  /\ stream = [r \in Streams |-> NoStream]

StreamStep(r, from, rec) == stream[r].pc = from /\ stream' = [stream EXCEPT ![r] = rec]
WorldUnchanged == UNCHANGED <<streamClock, trackStatus, variants>>

\* A request is cut off by the timeout.
StreamTick ==
  /\ streamClock < LastStreamTime
  /\ \A r \in Streams : stream[r].pc \notin {"idle", "answer"} => streamClock - stream[r].since < StreamTimeout
  /\ streamClock' = streamClock + 1
  /\ UNCHANGED <<trackStatus, variants, statusCache, variantCache, stream>>

\* The transcoder stores a variant.
StoreVariant(q) ==
  /\ variants' = variants \cup {q}
  /\ UNCHANGED <<streamClock, trackStatus, statusCache, variantCache, stream>>

\* Catalog's state machine; an editor may make a track READY before the
\* transcoder has finished.
CatalogSets(s) ==
  /\ CASE trackStatus.status = "READY" -> s \in {"BLOCKED", "DELETED"}
       [] trackStatus.status = "DELETED" -> FALSE
       [] OTHER -> s \in {"READY", "DELETED"}
  /\ trackStatus' = [status |-> s, since |-> IF "READY" \in {s, trackStatus.status} THEN streamClock ELSE trackStatus.since]
  /\ UNCHANGED <<streamClock, variants, statusCache, variantCache, stream>>

\* fail: the HTTP status of an error.
StreamFailure(err) ==
  CASE err = "ErrTrackNotFound" -> 404 [] err = "ErrTrackBlocked" -> 403
    [] err \in {"ErrTrackNotReady", "ErrNoVariant"} -> 409 [] OTHER -> 503
Denied(r, err) == [stream[r] EXCEPT !.pc = "answer", !.status = StreamFailure(err)]

\* CheckPlayable.
CheckPlayable(s) ==
  CASE s = "READY" -> "nil" [] s = "BLOCKED" -> "ErrTrackBlocked"
    [] s \in {"DELETED", "none"} -> "ErrTrackNotFound" [] OTHER -> "ErrTrackNotReady"

\* POST /stream/authorize, or GET /stream/proxy: a missing quality is the default.
Authorize(r, q) ==
  /\ StreamStep(r, "idle", [NoStream EXCEPT !.pc = "status", !.since = streamClock, !.whole = variants = Bitrates,
                                            !.wants = IF q = 0 THEN DefaultQuality ELSE q])
  /\ WorldUnchanged /\ UNCHANGED <<statusCache, variantCache>>

Playable(r, s) ==
  IF CheckPlayable(s) = "nil" THEN [stream[r] EXCEPT !.pc = "variants", !.left = Bitrates]
                              ELSE Denied(r, CheckPlayable(s))

\* CachedTracks.Status: a hit, or Catalog is asked (also when Redis is down).
StatusHit(r) ==
  /\ statusCache.status # "none" /\ streamClock < statusCache.expires
  /\ StreamStep(r, "status", Playable(r, statusCache.status))
  /\ WorldUnchanged /\ UNCHANGED <<statusCache, variantCache>>

StatusLoad(r, redisDown) ==
  /\ redisDown \/ streamClock >= statusCache.expires
  /\ StreamStep(r, "status", [stream[r] EXCEPT !.pc = "store", !.read = trackStatus.status])
  /\ WorldUnchanged /\ UNCHANGED <<statusCache, variantCache>>

\* GetOrLoad stores what it loaded; an error is not stored.  A failing Set is logged.
StatusSet(r, redisDown) ==
  /\ StreamStep(r, "store", Playable(r, stream[r].read))
  /\ statusCache' = IF redisDown THEN statusCache
                    ELSE [status |-> stream[r].read, expires |-> streamClock + StatusTTL]
  /\ WorldUnchanged /\ UNCHANGED variantCache

\* CachedVariants.Available: a hit is the complete set.
VariantsHit(r) ==
  /\ variantCache # {} /\ stream[r].left = Bitrates
  /\ StreamStep(r, "variants", [stream[r] EXCEPT !.pc = "choose", !.seen = variantCache])
  /\ WorldUnchanged /\ UNCHANGED <<statusCache, variantCache>>

\* Media.Available: one HEAD request after the other.
StatVariant(r) ==
  LET q == Min(stream[r].left) IN
  /\ stream[r].left # {}
  /\ StreamStep(r, "variants", [stream[r] EXCEPT !.left = @ \ {q}, !.seen = @ \cup (variants \cap {q})])
  /\ WorldUnchanged /\ UNCHANGED <<statusCache, variantCache>>

\* Mutant of VariantsSet, and what services/stream-auth/README.md says: any set
\* that is not empty is remembered.
VariantsSetAny(r) ==
  /\ stream[r].left = {}
  /\ StreamStep(r, "variants", [stream[r] EXCEPT !.pc = "choose"])
  /\ variantCache' = IF stream[r].seen # {} THEN stream[r].seen ELSE variantCache
  /\ WorldUnchanged /\ UNCHANGED statusCache
\* A complete set is remembered.
VariantsSet(r) ==
  /\ stream[r].left = {}
  /\ StreamStep(r, "variants", [stream[r] EXCEPT !.pc = "choose"])
  /\ variantCache' = IF stream[r].seen = Bitrates THEN stream[r].seen ELSE variantCache
  /\ WorldUnchanged /\ UNCHANGED statusCache

\* ChooseVariant: the best that is not above the requested one, else the lowest.
ChooseVariant(requested, available) ==
  LET fitting == {q \in available : q <= requested}
  IN IF fitting # {} THEN Max(fitting) ELSE Min(available)

\* Sign, or Stream the bytes: both name the chosen variant.
Grant(r) ==
  /\ StreamStep(r, "choose", IF stream[r].seen = {} THEN Denied(r, "ErrNoVariant")
       ELSE [stream[r] EXCEPT !.pc = "answer", !.status = 200,
                              !.granted = ChooseVariant(stream[r].wants, stream[r].seen)])
  /\ WorldUnchanged /\ UNCHANGED <<statusCache, variantCache>>

\* Catalog, storage or the signer fails, or the request is cut off.
StreamFails(r) ==
  /\ stream[r].pc \in {"status", "store", "variants", "choose"}
  /\ StreamStep(r, stream[r].pc, Denied(r, "dependency"))
  /\ WorldUnchanged /\ UNCHANGED <<statusCache, variantCache>>

StreamAnswered(r) ==
  StreamStep(r, "answer", NoStream) /\ WorldUnchanged /\ UNCHANGED <<statusCache, variantCache>>

StreamNext ==
  \/ StreamTick
  \/ \E q \in Bitrates : StoreVariant(q)
  \/ \E s \in {"READY", "BLOCKED", "DELETED"} : CatalogSets(s)
  \/ \E r \in Streams :
       \/ \E q \in Bitrates \cup {0} : Authorize(r, q)
       \/ StatusHit(r)
       \/ \E down \in BOOLEAN : StatusLoad(r, down) \/ StatusSet(r, down)
       \/ VariantsHit(r) \/ StatVariant(r) \/ VariantsSet(r)
       \/ Grant(r) \/ StreamFails(r) \/ StreamAnswered(r)

StreamSpec == StreamInit /\ [][StreamNext]_streamVars

-----------------------------------------------------------------------------
\* "A block takes effect within the cache TTL": no request that begins later
\* than the TTL and the time a slower request needs to store the status it
\* read is granted a track that has been blocked or deleted since.
BlockTakesEffect ==
  \A r \in Streams :
    stream[r].granted # 0 /\ trackStatus.status # "READY"
    => stream[r].since <= trackStatus.since + StatusTTL + StreamTimeout

\* "the track gets every quality as soon as the transcoder finishes": a request
\* made when all variants were stored gets the best one for its wish, whatever
\* requests before it found and remembered, and what is granted is in storage.
\* The service's README, which has every non-empty set cached, says otherwise.
BestVariantGranted ==
  \A r \in Streams :
    stream[r].granted # 0 =>
      /\ stream[r].granted \in variants
      /\ stream[r].whole => stream[r].granted = ChooseVariant(stream[r].wants, Bitrates)

\* A grant is current up to the caches' TTL: for a track that may be played,
\* and for the best variant that is stored.
GrantsCurrent == BlockTakesEffect /\ BestVariantGranted
=============================================================================
