----------------------------- MODULE EventBus -----------------------------
(* PowerEventBus and the PowerSubscriberSet of each of its keys           *)
(* (src/src/helpers/powerEventBus.js, powerSubscriberSet.js): listeners    *)
(* for an event and for a pattern that matches it, which may register,     *)
(* remove and emit while they are called.                                  *)
(* An entry of a set has a number, its place in the order of insertion; a  *)
(* wrapper made by once() is known by it.  One event, one pattern; strong  *)
(* references only.                                                        *)
EXTENDS Integers, Sequences, FiniteSets

CONSTANTS
  Listeners,                   \* functions, numbered
  MaxListeners,                \* of one set, 0 for no limit
  MaxRegistered, MaxBuckets,      \* bounds: entries and sets made
  MaxDepth                     \* bound: emissions that are under way at once

ASSUME BusConstants ==
  Listeners \cup {MaxListeners, MaxRegistered, MaxBuckets, MaxDepth} \subseteq Nat

BusKeys == {"event", "pattern"}

VARIABLES
  buckets,             \* _listeners and _wildcards: the set of each key, or 0
  home, members,     \* the key each set was made for; its _listeners
  onceMap,           \* its _onceMap: the number of the last wrapper of each function, or 0
  made,              \* entries made so far
  frames,            \* the emissions that are under way, innermost first
  async,             \* the emitAsync() that is under way: [bucket, pos, flight, limited]
  wanted,            \* history: what should be registered for each key
  fired,             \* history: the wrappers that were called
  mixed,             \* history: << set, function >> that once() is not alone with
  swapped            \* history: an emission took away a set it had not emitted to

busSets == << buckets, home, members, onceMap, made >>
busPast == << wanted, fired, mixed, swapped >>
busVars == << busSets, frames, async, busPast >>

NoEmission == [bucket |-> 0, pos |-> 0, flight |-> {}, limited |-> FALSE]

BusInit ==
  /\ buckets = [k \in BusKeys |-> 0] /\ home = << >> /\ members = << >> /\ onceMap = << >> /\ made = 0
  /\ frames = << >> /\ async = NoEmission
  /\ wanted = [k \in BusKeys |-> {}] /\ fired = {} /\ mixed = {} /\ swapped = FALSE

\* _getBucket(): the set of a key, or the one that is made for it.
Bucket(k) == IF buckets[k] = 0 THEN Len(home) + 1 ELSE buckets[k]
MembersOf(b) == IF b \in DOMAIN members THEN members[b] ELSE {}
OnceOf(b) == IF b \in DOMAIN onceMap THEN onceMap[b] ELSE [f \in Listeners |-> 0]

\* on() and once(), of the lowest number first: the set refuses beyond its limit, also a function it has already.
Register(k, f, once) ==
  LET b == Bucket(k)
      there == \E e \in MembersOf(b) : e.fn = f /\ ~e.once
      new == once \/ ~there
  IN  /\ made < MaxRegistered /\ b <= MaxBuckets
      /\ made = 0 => \A g \in Listeners : f <= g
      /\ MaxListeners > 0 => Cardinality(MembersOf(b)) < MaxListeners
      /\ buckets' = [buckets EXCEPT ![k] = b]
      /\ home' = IF b > Len(home) THEN Append(home, k) ELSE home
      /\ made' = IF new THEN made + 1 ELSE made
      /\ members' = [i \in 1..Len(home') |->
           IF i # b THEN members[i]
           ELSE MembersOf(b) \cup IF new THEN {[n |-> made', fn |-> f, once |-> once]} ELSE {}]
      /\ onceMap' = [i \in 1..Len(home') |->
           IF i # b THEN onceMap[i]
           ELSE [OnceOf(b) EXCEPT ![f] = IF once THEN made' ELSE @]]
      /\ mixed' = IF \E e \in MembersOf(b) : e.fn = f /\ (once \/ e.once)
                  THEN mixed \cup {<< b, f >>} ELSE mixed
      /\ wanted' = [wanted EXCEPT ![k] = @ \cup {f}]
      /\ UNCHANGED << frames, async, fired, swapped >>

\* delete(): the last wrapper of the function if there is one, or else the function itself.
Removed(b, f) ==
  {e \in members[b] : e.fn = f /\ IF onceMap[b][f] # 0 THEN e.n = onceMap[b][f] ELSE ~e.once}

DropListener(b, f) ==
  /\ members' = [members EXCEPT ![b] = @ \ Removed(b, f)]
  /\ onceMap' = [onceMap EXCEPT ![b][f] = 0]
  /\ wanted' = IF buckets[home[b]] = b THEN [wanted EXCEPT ![home[b]] = @ \ {f}] ELSE wanted

\* off(): the set goes with its last listener.
OffListener(k, f) ==
  /\ buckets[k] # 0
  /\ DropListener(buckets[k], f)
  /\ buckets' = IF members'[buckets[k]] = {} THEN [buckets EXCEPT ![k] = 0] ELSE buckets
  /\ UNCHANGED << home, made, frames, async, fired, mixed, swapped >>

\* What on() and once() returned, called later: only the set it was given by, which matters
\* while it is registered or iterated.
Unsubscribes(b, f) ==
  /\ b \in DOMAIN home /\ (buckets[home[b]] = b \/ b = async.bucket)
  /\ DropListener(b, f)
  /\ UNCHANGED << buckets, home, made, frames, async, fired, mixed, swapped >>

\* clear(), dispose(), and clear(event), which takes the patterns that match it along.
ClearBus ==
  /\ buckets' = [k \in BusKeys |-> 0] /\ wanted' = [k \in BusKeys |-> {}]
  /\ UNCHANGED << home, members, onceMap, made, frames, async, fired, mixed, swapped >>

\* What a fault would look like: the wrapper stays registered.
NotifyKeeps(b, e) ==
  IF e.once
  THEN /\ fired' = fired \cup {e.n}
       /\ UNCHANGED << members, onceMap, wanted, mixed >>
  ELSE UNCHANGED << members, onceMap, wanted, fired, mixed >>

\* A listener is called.  A wrapper takes its function out of its set before it calls it.
Notify(b, e) ==
  IF e.once
  THEN /\ DropListener(b, e.fn)
       /\ fired' = fired \cup {e.n}
       /\ mixed' = IF e.n \in fired THEN mixed \cup {<< b, e.fn >>} ELSE mixed
  ELSE UNCHANGED << members, onceMap, wanted, fired, mixed >>

Earliest(S) == CHOOSE e \in S : \A d \in S : e.n <= d.n

\* emit(): the set of the event first, then the patterns, each as it is when its turn comes.
EmissionOf(b) == [bucket |-> b, todo |-> members[b]]
UnderWay == Len(frames) + IF async = NoEmission THEN 0 ELSE 1
Filled(k) == buckets[k] # 0 /\ members[buckets[k]] # {}

Emit ==
  /\ UnderWay < MaxDepth
  /\ \/ Filled("event") /\ frames' = << EmissionOf(buckets["event"]) >> \o frames
     \/ ~Filled("event") /\ Filled("pattern") /\ frames' = << EmissionOf(buckets["pattern"]) >> \o frames
  /\ UNCHANGED << busSets, async, busPast >>

EmitCalls ==
  /\ frames # << >> /\ Head(frames).todo # {}
  /\ LET e == Earliest(Head(frames).todo)
     IN  /\ frames' = [frames EXCEPT ![1].todo = @ \ {e}]
         /\ Notify(Head(frames).bucket, e)
  /\ UNCHANGED << buckets, home, made, async, swapped >>

\* What a fault would look like: whether the set is empty is not asked.
TakesAwayAlways(b) == [buckets EXCEPT ![home[b]] = 0]

\* An emission that emptied its set takes the set away, by the key.
TakesAway(b) == IF members[b] = {} THEN [buckets EXCEPT ![home[b]] = 0] ELSE buckets

\* The patterns are a Map that is iterated while it changes: a set made since is visited too.
NextBucket(b, key) ==
  IF key["pattern"] > (IF home[b] = "event" THEN 0 ELSE b) /\ members[key["pattern"]] # {}
  THEN key["pattern"] ELSE 0

EmitEnds ==
  /\ frames # << >> /\ Head(frames).todo = {}
  /\ LET b == Head(frames).bucket
     IN  /\ buckets' = TakesAway(b)
         /\ swapped' = (swapped \/ (members[b] = {} /\ buckets[home[b]] \notin {0, b}))
         /\ frames' = IF NextBucket(b, buckets') # 0
                      THEN [frames EXCEPT ![1] = EmissionOf(NextBucket(b, buckets'))]
                      ELSE Tail(frames)
  /\ UNCHANGED << home, members, onceMap, made, async, wanted, fired, mixed >>

\* emitAsync(): the sets as they are when their turn comes, iterated while they change; each
\* call is a microtask, with a concurrency limit one after the other.
EmitAsync(limited) ==
  /\ async = NoEmission /\ UnderWay < MaxDepth
  /\ \E k \in BusKeys : /\ Filled(k) /\ (k = "pattern" => ~Filled("event"))
                     /\ async' = [NoEmission EXCEPT !.bucket = buckets[k], !.limited = limited]
  /\ UNCHANGED << busSets, frames, busPast >>

Unvisited == {e \in members[async.bucket] : e.n > async.pos}

AsyncTakes ==
  /\ async.bucket # 0 /\ frames = << >> /\ async.flight = {} /\ Unvisited # {}
  /\ LET taken == IF async.limited THEN {Earliest(Unvisited)} ELSE Unvisited
     IN  async' = [async EXCEPT !.flight = taken,
                     !.pos = CHOOSE p \in {e.n : e \in taken} : \A e \in taken : e.n <= p]
  /\ UNCHANGED << busSets, frames, busPast >>

AsyncCalls ==
  /\ frames = << >> /\ async.flight # {}
  /\ LET e == Earliest(async.flight)
     IN  async' = [async EXCEPT !.flight = @ \ {e}] /\ Notify(async.bucket, e)
  /\ UNCHANGED << buckets, home, made, frames, swapped >>

\* An emptied set is taken away from the events, whatever kind of key it is of.
AsyncEnds ==
  /\ async.bucket # 0 /\ frames = << >> /\ async.flight = {} /\ Unvisited = {}
  /\ LET b == async.bucket
     IN  /\ buckets' = IF home[b] = "event" THEN TakesAway(b) ELSE buckets
         /\ swapped' = (swapped \/ (home[b] = "event" /\ members[b] = {} /\ buckets["event"] \notin {0, b}))
         /\ async' = IF NextBucket(b, buckets') = 0 THEN NoEmission
                     ELSE [async EXCEPT !.bucket = NextBucket(b, buckets'), !.pos = 0]
  /\ UNCHANGED << home, members, onceMap, made, frames, wanted, fired, mixed >>

BusNext ==
  \/ \E k \in BusKeys, f \in Listeners : OffListener(k, f) \/ \E once \in BOOLEAN : Register(k, f, once)
  \/ \E b \in 1..MaxBuckets, f \in Listeners : Unsubscribes(b, f)
  \/ \E limited \in BOOLEAN : EmitAsync(limited)
  \/ ClearBus \/ Emit \/ EmitCalls \/ EmitEnds \/ AsyncTakes \/ AsyncCalls \/ AsyncEnds

-----------------------------------------------------------------------------
\* Whoever registers, removes and emits while listeners are called: what was registered and
\* not removed is in the set the next emission reads, and what was removed is not.
NoListenerIsLost ==
  swapped \/ \A k \in BusKeys, f \in Listeners :
    \/ << buckets[k], f >> \in mixed
    \/ f \in wanted[k] <=> buckets[k] # 0 /\ \E e \in MembersOf(buckets[k]) : e.fn = f

\* A listener of once() that was called is in no set any more, already while it runs: an
\* emission that begins inside it, or after it, does not call it again.
FiredIsGone ==
  \A b \in DOMAIN members : \A e \in members[b] :
    e.once /\ e.n \in fired => << b, e.fn >> \in mixed

BusIsSound ==
  /\ NoListenerIsLost /\ FiredIsGone
  /\ MaxListeners > 0 => \A b \in DOMAIN members : Cardinality(members[b]) <= MaxListeners
=============================================================================
