--------------------------- MODULE ExpiringTables ---------------------------
(***************************************************************************)
(* The tables whose entries expire.                                        *)
(*                                                                         *)
(* PowerTTLMap (src/helpers/powerTTLMap.js): a map whose entries expire,   *)
(* bounded as an LRU.  Beside the entries it keeps _expirations, a second  *)
(* map of the expiry times, and _nextExpiryAt, which lets purge() and      *)
(* expiredCount return without a walk.  Time 0 stands for "no expiry", as  *)
(* in the code; the clock starts at 1.                                     *)
(*                                                                         *)
(* PowerDeduplication (src/helpers/powerDeduplication.js): has(key) is     *)
(* true for a key seen less than ttl ago, and otherwise records it.  The   *)
(* keys are kept in the order they were put in the map, and pruning stops  *)
(* at the first one that is still fresh.                                   *)
(*                                                                         *)
(* The idempotency ledger of PowerPool (src/helpers/powerPool.js): a post  *)
(* claims its key, and the claim is settled or released when the post      *)
(* returns.  A post calls the user's balancer, logger and codecs, so a     *)
(* post may begin inside another.                                          *)
(***************************************************************************)
EXTENDS Integers, Sequences, FiniteSets

LOCAL INSTANCE SequencesExt
LOCAL INSTANCE Functions

-----------------------------------------------------------------------------
(* PowerTTLMap                                                             *)

CONSTANTS
  TKeys,
  Ttls,        \* time-to-live values in use; 0 is no expiry
  MaxSize,     \* options.maxSize; 0 is no bound
  LastTime     \* the clock stops here

ASSUME TTLMapConstants ==
  IsFiniteSet(TKeys) /\ Ttls \subseteq Nat /\ MaxSize \in Nat /\ LastTime \in Nat \ {0}

VARIABLES
  order,         \* the keys of _map, least recently used first when MaxSize > 0
  expiresAt,     \* the entries' expiresAt
  expirations,   \* _expirations; 0 where it has no entry
  nextExpiryAt, nextExpiryDirty,
  clock

tvars == << order, expiresAt, expirations, nextExpiryAt, nextExpiryDirty, clock >>

TInit ==
  /\ order = << >>
  /\ expiresAt = [k \in TKeys |-> 0] /\ expirations = [k \in TKeys |-> 0]
  /\ nextExpiryAt = 0 /\ nextExpiryDirty = FALSE
  /\ clock = 1

Held == { order[i] : i \in DOMAIN order }
IsExpired(k) == k \in Held /\ expiresAt[k] # 0 /\ clock > expiresAt[k]
Deadline(ttl) == IF ttl > 0 THEN clock + ttl + 1 ELSE 0

\* A write moves its key to the end of an LRU, and leaves it where it is otherwise.
Recent(k) ==
  CASE k \notin Held -> Append(order, k)
    [] MaxSize > 0   -> Append(Remove(order, k), k)
    [] OTHER         -> order

\* _updateNextExpiryOnWrite
StaleOnWrite(prev, next) == prev # 0 /\ nextExpiryAt = prev /\ prev # next
NextOnWrite(next) ==
  IF next # 0 /\ (nextExpiryAt = 0 \/ next < nextExpiryAt) THEN next ELSE nextExpiryAt

\* Bug: the new minimum is taken over only by a map that had none.
NextOnWriteFirst(next) == IF nextExpiryAt = 0 THEN next ELSE nextExpiryAt

NextAfterWrite(next) == NextOnWrite(next)

Put(k, ttl) ==
  LET e == Deadline(ttl)
      o == Recent(k)
      lru == o[1]
      full == k \notin Held /\ MaxSize > 0 /\ Len(o) > MaxSize
  IN  /\ order' = IF full THEN Tail(o) ELSE o
      /\ expiresAt' = [expiresAt EXCEPT ![k] = e, ![lru] = IF full THEN 0 ELSE IF lru = k THEN e ELSE @]
      /\ expirations' = [expirations EXCEPT ![k] = e, ![lru] = IF full THEN 0 ELSE IF lru = k THEN e ELSE @]
      /\ nextExpiryAt' = NextAfterWrite(e)
      /\ nextExpiryDirty' = \/ nextExpiryDirty \/ StaleOnWrite(expirations[k], e)
                            \/ full /\ expiresAt[lru] # 0 /\ nextExpiryAt' = expiresAt[lru]
      /\ UNCHANGED clock

\* _expireKey, and delete(): they differ in where the time is read.
Forget(k, at) ==
  /\ order' = Remove(order, k)
  /\ expiresAt' = [expiresAt EXCEPT ![k] = 0]
  /\ expirations' = [expirations EXCEPT ![k] = 0]
  /\ nextExpiryDirty' = (nextExpiryDirty \/ (at # 0 /\ nextExpiryAt = at))
  /\ UNCHANGED << nextExpiryAt, clock >>

Lookup(k) ==
  \/ IsExpired(k) /\ Forget(k, expiresAt[k])
  \/ k \in Held /\ ~IsExpired(k)
     /\ order' = Recent(k)
     /\ UNCHANGED << expiresAt, expirations, nextExpiryAt, nextExpiryDirty, clock >>

DeleteEntry(k) == k \in Held /\ Forget(k, expirations[k])

TouchEntry(k, ttl) ==
  \/ IsExpired(k) /\ Forget(k, expiresAt[k])
  \/ /\ k \in Held /\ ~IsExpired(k)
     /\ expiresAt' = [expiresAt EXCEPT ![k] = Deadline(ttl)]
     /\ expirations' = [expirations EXCEPT ![k] = Deadline(ttl)]
     /\ nextExpiryAt' = NextAfterWrite(Deadline(ttl))
     /\ nextExpiryDirty' = (nextExpiryDirty \/ StaleOnWrite(expiresAt[k], Deadline(ttl)))
     /\ order' = Recent(k)
     /\ UNCHANGED clock

\* purge() and expiredCount return early on an honest _nextExpiryAt.
Overdue == { k \in TKeys : expirations[k] # 0 /\ clock > expirations[k] }
NothingDue == nextExpiryAt # 0 /\ ~nextExpiryDirty /\ clock < nextExpiryAt
Least(S) == IF S = {} THEN 0 ELSE CHOOSE x \in S : \A y \in S : x <= y

Purge ==
  LET kept == { k \in TKeys : expirations[k] # 0 } \ Overdue
  IN  /\ ~NothingDue /\ Overdue # {}
      /\ order' = SelectSeq(order, LAMBDA k : k \notin Overdue)
      /\ expiresAt' = [k \in TKeys |-> IF k \in Overdue THEN 0 ELSE expiresAt[k]]
      /\ expirations' = [k \in TKeys |-> IF k \in Overdue THEN 0 ELSE expirations[k]]
      /\ nextExpiryAt' = Least({ expirations[k] : k \in kept })
      /\ nextExpiryDirty' = FALSE
      /\ UNCHANGED clock

ClearEntries ==
  /\ order' = << >>
  /\ expiresAt' = [k \in TKeys |-> 0] /\ expirations' = [k \in TKeys |-> 0]
  /\ nextExpiryAt' = 0 /\ nextExpiryDirty' = FALSE
  /\ UNCHANGED clock

TTick ==
  /\ clock < LastTime /\ clock' = clock + 1
  /\ UNCHANGED << order, expiresAt, expirations, nextExpiryAt, nextExpiryDirty >>

TNext ==
  \/ \E k \in TKeys :
       \/ Lookup(k) \/ DeleteEntry(k)
       \/ \E ttl \in Ttls : Put(k, ttl) \/ TouchEntry(k, ttl)
  \/ Purge \/ ClearEntries \/ TTick

\* The early return of purge() leaves nothing overdue behind; the second map agrees with
\* the first, without which an entry would never be swept; the LRU bound holds.
NothingOverdueIsMissed ==
  /\ NothingDue => Overdue = {}
  /\ \A k \in TKeys : expirations[k] = expiresAt[k] /\ (k \notin Held => expiresAt[k] = 0)
  /\ Cardinality(Held) = Len(order)
  /\ MaxSize > 0 => Len(order) <= MaxSize

-----------------------------------------------------------------------------
(* PowerDeduplication                                                      *)

CONSTANTS
  DKeys, DTtl, MaxKeys, LastDTime,
  LKeys,         \* idempotency keys
  SweepBatch,    \* DEFAULT_IDEMPOTENCY_SWEEP_BATCH
  NoKey          \* no cursor

ASSUME DeduplicationConstants ==
  /\ IsFiniteSet(DKeys) /\ DTtl \in Nat \ {0} /\ MaxKeys \in Nat \ {0} /\ LastDTime \in Nat
  /\ SweepBatch \in Nat \ {0} /\ NoKey \notin LKeys

VARIABLES
  kept,        \* the keys of _keys, in insertion order
  stamp,       \* their timestamps; -1 for a key that is not kept
  time,
  disposedD,
  lastSeen     \* history: when a key was last recorded and not given up; -1 otherwise

dvars == << kept, stamp, time, disposedD, lastSeen >>

DInit ==
  /\ kept = << >> /\ stamp = [k \in DKeys |-> -1] /\ lastSeen = [k \in DKeys |-> -1]
  /\ time = 0 /\ disposedD = FALSE

Stale(k) == time - stamp[k] >= DTtl
SeenIn(s) == { s[i] : i \in DOMAIN s }
FreshFrom == { i \in DOMAIN kept : ~Stale(kept[i]) }

\* _prune: what is left of the keys.
Pruned ==
  IF FreshFrom = {} THEN << >>
  ELSE SubSeq(kept, CHOOSE i \in FreshFrom : \A j \in FreshFrom : i <= j, Len(kept))

Evicting == IF Len(Pruned) >= MaxKeys THEN Tail(Pruned) ELSE Pruned

\* Recording a key that is kept leaves it in its place.
Record(k) ==
  LET rest == Evicting
      evicted == SeenIn(Pruned) \ SeenIn(rest)
  IN  /\ kept' = IF k \in SeenIn(rest) THEN rest ELSE Append(rest, k)
      /\ stamp' = [x \in DKeys |-> IF x = k THEN time ELSE IF x \in SeenIn(rest) THEN stamp[x] ELSE -1]
      /\ lastSeen' = [x \in DKeys |-> IF x = k THEN time ELSE IF x \in evicted THEN -1 ELSE lastSeen[x]]
      /\ UNCHANGED << time, disposedD >>

\* Bug: the boundary is one too late.
IsDuplicateLate(k) == stamp[k] # -1 /\ time - stamp[k] <= DTtl

\* has() asks the age of what is recorded.
IsDuplicate(k) == stamp[k] # -1 /\ ~Stale(k)

Has(k) == ~disposedD /\ ~IsDuplicate(k) /\ Record(k)
Mark(k) == ~disposedD /\ Record(k)

DeleteSeen(k) ==
  /\ ~disposedD /\ k \in SeenIn(kept)
  /\ kept' = Remove(kept, k)
  /\ stamp' = [stamp EXCEPT ![k] = -1] /\ lastSeen' = [lastSeen EXCEPT ![k] = -1]
  /\ UNCHANGED << time, disposedD >>

Empty ==
  /\ kept' = << >> /\ stamp' = [k \in DKeys |-> -1] /\ lastSeen' = [k \in DKeys |-> -1]
  /\ UNCHANGED time

ClearSeen == Empty /\ UNCHANGED disposedD
DisposeSeen == ~disposedD /\ disposedD' = TRUE /\ Empty

\* Reading size prunes.
ReadSize ==
  /\ kept # Pruned /\ kept' = Pruned
  /\ stamp' = [k \in DKeys |-> IF k \in SeenIn(Pruned) THEN stamp[k] ELSE -1]
  /\ UNCHANGED << time, disposedD, lastSeen >>

DTick == time < LastDTime /\ time' = time + 1 /\ UNCHANGED << kept, stamp, disposedD, lastSeen >>

DNext ==
  \/ \E k \in DKeys : Has(k) \/ Mark(k) \/ DeleteSeen(k)
  \/ ReadSize \/ ClearSeen \/ DisposeSeen \/ DTick

\* has() answers true exactly for the keys recorded less than ttl ago that were not
\* evicted, deleted or cleared since, though pruning stops early when mark() refreshed an
\* old key in its place; and the table is bounded.
DuplicatesAreKnown ==
  /\ \A k \in DKeys : IsDuplicate(k) <=> lastSeen[k] # -1 /\ time - lastSeen[k] < DTtl
  /\ Len(kept) <= MaxKeys
  /\ \A k \in DKeys : stamp[k] # -1 <=> k \in SeenIn(kept)

-----------------------------------------------------------------------------
VARIABLES
  ledger,      \* the keys of _idempotency, in insertion order
  claim,       \* what the ledger has of a key: nothing, a post under way, or one that is over
  cursor,      \* _idempotencyCursor
  posting,     \* the keys of the posts under way, the innermost last
  applied,     \* history: the keys whose task was accepted less than the TTL ago
  twice        \* history: such a key was accepted again

ledgerVars == << ledger, claim, cursor, posting, applied, twice >>

LedgerInit ==
  /\ ledger = << >> /\ claim = [k \in LKeys |-> "none"] /\ cursor = NoKey
  /\ posting = << >> /\ applied = {} /\ twice = FALSE

\* The entries that the next sweep looks at: from the one it stopped at, or from the head.
SweepSlice ==
  LET from == IF cursor \in SeenIn(ledger) THEN CHOOSE i \in DOMAIN ledger : ledger[i] = cursor
              ELSE 1
  IN  { ledger[i] : i \in (from..from + SweepBatch - 1) \cap DOMAIN ledger }

\* Bug: whatever has no fresh date is swept.
KeysNotFresh == { k \in SweepSlice : claim[k] # "fresh" }

\* What _idempotencySweep() expires.
KeysOverdue == { k \in SweepSlice : claim[k] = "expired" }

SweptLedger ==
  LET gone == KeysOverdue
      left == SelectSeq(ledger, LAMBDA k : k \in SweepSlice \ gone)
  IN  [ keys   |-> SelectSeq(ledger, LAMBDA k : k \notin gone),
        claim  |-> [k \in LKeys |-> IF k \in gone THEN "none" ELSE claim[k]],
        cursor |-> IF left = << >> THEN NoKey ELSE Last(left) ]

\* Bug: a post that is turned away as a duplicate gives the key up.
BeginPostReleases(k) ==
  LET s == SweptLedger
      new == s.claim[k] = "none"
  IN  /\ Len(posting) < 2     \* a bound of the model
      /\ ledger' = IF new THEN Append(s.keys, k) ELSE Remove(s.keys, k)
      /\ claim' = [s.claim EXCEPT ![k] = IF new THEN "posting" ELSE "none"]
      /\ cursor' = s.cursor
      /\ posting' = IF new THEN Append(posting, k) ELSE posting
      /\ UNCHANGED << applied, twice >>

\* postMessage() with a key, up to _postMessageInner(): a key that is claimed is refused.
BeginPost(k) ==
  LET s == SweptLedger
      new == s.claim[k] = "none"
  IN  /\ Len(posting) < 2     \* a bound of the model
      /\ ledger' = IF new THEN Append(s.keys, k) ELSE s.keys
      /\ claim' = [s.claim EXCEPT ![k] = IF new THEN "posting" ELSE s.claim[k]]
      /\ cursor' = s.cursor
      /\ posting' = IF new THEN Append(posting, k) ELSE posting
      /\ UNCHANGED << applied, twice >>

\* _postMessageInner() accepted the task, or gave a promise for it; a promise that is
\* rejected, as when the queue is full, counts as one.
SettlePost(accepted) ==
  /\ posting # << >>
  /\ LET k == Last(posting)
     IN  /\ claim' = [claim EXCEPT ![k] = IF k \in SeenIn(ledger) THEN "fresh" ELSE claim[k]]
         /\ twice' = (twice \/ (accepted /\ k \in applied))
         /\ applied' = IF accepted THEN applied \cup {k} ELSE applied
  /\ posting' = Front(posting)
  /\ UNCHANGED << ledger, cursor >>

\* It answered false, or threw.
ReleasePost ==
  /\ posting # << >>
  /\ ledger' = Remove(ledger, Last(posting))
  /\ claim' = [claim EXCEPT ![Last(posting)] = "none"]
  /\ posting' = Front(posting)
  /\ UNCHANGED << cursor, applied, twice >>

\* Time passes between posts: keys expire in the order they were claimed.
PostExpires ==
  /\ posting = << >>
  /\ \E i \in DOMAIN ledger :
       /\ claim[ledger[i]] = "fresh" /\ \A j \in 1..i - 1 : claim[ledger[j]] = "expired"
       /\ claim' = [claim EXCEPT ![ledger[i]] = "expired"]
       /\ applied' = applied \ {ledger[i]}
  /\ UNCHANGED << ledger, cursor, posting, twice >>

LedgerNext ==
  \/ \E k \in LKeys : BeginPost(k)
  \/ \E accepted \in BOOLEAN : SettlePost(accepted)
  \/ ReleasePost \/ PostExpires

\* However posts nest, fail and are retried, and wherever the bounded sweep has got to: no
\* task is accepted twice under one key within its time, a claim is held exactly while its
\* post is under way, a post that was turned away leaves no claim behind, and the ledger
\* lists the keys that are claimed, once each.
RetriesAreSafe ==
  /\ ~twice
  /\ \A k \in LKeys : claim[k] = "posting" <=> k \in SeenIn(posting)
  /\ \A k \in applied : claim[k] = "fresh"
  /\ SeenIn(ledger) = { k \in LKeys : claim[k] # "none" }
  /\ IsInjective(ledger)
=============================================================================
