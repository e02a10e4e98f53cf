----------------------------- MODULE Observers -----------------------------
(* A PowerObserver and an observer that is derived from it                 *)
(* (src/src/helpers/powerObserver.js): notifications that are synchronous  *)
(* or coalesced, a chain that is attached while it has subscribers, and an *)
(* effect with a cleanup.  The derived value is the source's value; what   *)
(* map, computed and derive compute from it does not matter here.          *)
(* Whatever a subscriber does while it is called is a step of its own: the *)
(* notification on top of the stack has a subscriber that is running.      *)
EXTENDS Integers, Sequences, FiniteSets, SequencesExt

CONSTANTS
  Values,
  MaxSets, MaxNested         \* bounds: values set by the user, notifications inside another

ASSUME ObserverConstants == {MaxSets, MaxNested} \subseteq Nat

Observed == {"source", "derived"}
Subscribers == {"effect", "reader", "chain"}
Watched(s) == IF s = "reader" THEN "derived" ELSE "source"
NoOne == "none"

VARIABLES
  immediate, distinct,   \* async: false; distinct
  value,                 \* _value of each observer
  unflushed,               \* << _pendingNext >>, or << >> when nothing is _pending
  gone,                  \* observers that were disposed
  subs, attached,        \* _subs in order of insertion; the chain's release is set
  notices,                 \* the notifications under way, innermost first
  cleanup,               \* the effect's cleanup is set
  knows, due,             \* history: what each subscriber was told; it was told of a change
  nested, tooLate,          \* history: a notification overtook another; the effect ran, or was
                         \* ended, after it was ended or while it ran
  resources,             \* history: effects that ran and were not cleaned up
  sets

obsState == << immediate, distinct, value, unflushed, gone, subs, attached, notices >>
obsPast == << cleanup, knows, due, nested, tooLate, resources, sets >>
obsVars == << obsState, obsPast >>

ObsInit ==
  /\ immediate \in BOOLEAN /\ distinct \in BOOLEAN
  /\ value = [o \in Observed |-> 0] /\ unflushed = [o \in Observed |-> << >>] /\ gone = {}
  /\ subs = [o \in Observed |-> << >>] /\ attached = FALSE
  /\ notices = << >>
  /\ cleanup = FALSE /\ knows = [s \in Subscribers |-> 0] /\ due = {}
  /\ nested = FALSE /\ tooLate = FALSE /\ resources = 0 /\ sets = 0

Notification(o, v) == [of |-> o, todo |-> subs[o], next |-> v, running |-> NoOne]
RunningNow == IF notices = << >> THEN NoOne ELSE notices[1].running
MayAct == notices = << >> \/ RunningNow # NoOne
UnderNotice(o) == \E i \in DOMAIN notices : notices[i].of = o

\* What a fault would look like: the value of the first of the pending changes is told.
AssignKeepsFirst(o, v, stack) ==
  IF o \in gone \/ (distinct /\ o = "source" /\ v = value[o])
  THEN /\ value' = IF o \in gone THEN value ELSE [value EXCEPT ![o] = v]
       /\ notices' = stack
       /\ UNCHANGED << unflushed, due, nested >>
  ELSE /\ value' = [value EXCEPT ![o] = v]
       /\ due' = due \cup ToSet(subs[o])
       /\ unflushed' = IF unflushed[o] = << >> THEN [unflushed EXCEPT ![o] = << v >>] ELSE unflushed
       /\ notices' = stack
       /\ UNCHANGED nested

\* set value(): told at once, or the first of the pending changes schedules the flush.
\* The notifications to go on with are the stack under the new one.
Assign(o, v, stack) ==
  IF o \in gone \/ (distinct /\ o = "source" /\ v = value[o])
  THEN /\ value' = IF o \in gone THEN value ELSE [value EXCEPT ![o] = v]
       /\ notices' = stack
       /\ UNCHANGED << unflushed, due, nested >>
  ELSE /\ value' = [value EXCEPT ![o] = v]
       /\ due' = due \cup ToSet(subs[o])
       /\ IF immediate
          THEN /\ notices' = << Notification(o, v) >> \o stack
               /\ nested' = (nested \/ UnderNotice(o))
               /\ UNCHANGED unflushed
          ELSE /\ unflushed' = [unflushed EXCEPT ![o] = << v >>]
               /\ notices' = stack
               /\ UNCHANGED nested

SetValue(v) ==
  /\ sets < MaxSets /\ sets' = sets + 1
  /\ MayAct /\ Len(notices) < MaxNested
  /\ Assign("source", v, notices)
  /\ UNCHANGED << immediate, distinct, gone, subs, attached, cleanup, knows, tooLate, resources >>

\* _flushPending(): by the scheduler between two tasks, or by flush(), which anybody may call.
FlushObserver(o, explicit) ==
  /\ unflushed[o] # << >>
  /\ IF explicit THEN MayAct /\ Len(notices) < MaxNested ELSE notices = << >>
  /\ unflushed' = [unflushed EXCEPT ![o] = << >>]
  /\ notices' = << Notification(o, unflushed[o][1]) >> \o notices
  /\ nested' = (nested \/ UnderNotice(o))
  /\ UNCHANGED << immediate, distinct, value, gone, subs, attached, cleanup, knows, due, tooLate, resources, sets >>

\* The next subscriber of the snapshot.  The chain sets the derived value; the effect cleans
\* up after its last run first.
Tell ==
  /\ notices # << >> /\ notices[1].running = NoOne /\ notices[1].todo # << >>
  /\ LET n == notices[1]
         s == Head(n.todo)
         rest == [notices EXCEPT ![1].todo = Tail(@), ![1].running = IF s = "chain" THEN NoOne ELSE s]
     IN  /\ knows' = IF s \in due THEN [knows EXCEPT ![s] = n.next] ELSE knows
         /\ IF s = "chain" THEN Assign("derived", n.next, rest)
                           ELSE notices' = rest /\ UNCHANGED << value, unflushed, due, nested >>
         /\ IF s = "effect"
            THEN /\ resources' = resources - IF cleanup THEN 1 ELSE 0
                 /\ cleanup' = FALSE
                 /\ tooLate' = (tooLate \/ "effect" \notin ToSet(subs["source"]))
            ELSE UNCHANGED << cleanup, resources, tooLate >>
  /\ UNCHANGED << immediate, distinct, gone, subs, attached, sets >>

\* A subscriber returns, the effect perhaps with a cleanup.
Returns(cleans) ==
  /\ notices # << >> /\ notices[1].running # NoOne
  /\ cleans => notices[1].running = "effect"
  /\ notices' = [notices EXCEPT ![1].running = NoOne]
  /\ cleanup' = (cleanup \/ cleans)
  /\ resources' = resources + IF cleans THEN 1 ELSE 0
  /\ UNCHANGED << immediate, distinct, value, unflushed, gone, subs, attached, knows, due, nested, tooLate, sets >>

AllTold ==
  /\ notices # << >> /\ notices[1].running = NoOne /\ notices[1].todo = << >>
  /\ notices' = Tail(notices)
  /\ UNCHANGED << immediate, distinct, value, unflushed, gone, subs, attached, obsPast >>

With(q, s) == IF s \in ToSet(q) THEN q ELSE Append(q, s)
Without(q, s) == IF s \in ToSet(q) THEN RemoveAt(q, CHOOSE i \in DOMAIN q : q[i] = s) ELSE q

\* subscribe(), or effect() with a cleanup of its own.  The first subscriber of a derived
\* observer attaches it, even one that was disposed; a disposed observer registers nobody.
SubscribeTo(s) ==
  /\ MayAct /\ s # "chain" /\ s \notin ToSet(subs[Watched(s)])
  /\ LET chains == s = "reader" /\ ~attached
     IN  /\ attached' = (attached \/ s = "reader")
         /\ subs' = [o \in Observed |->
              IF o \in gone THEN subs[o]
              ELSE IF o = Watched(s) THEN With(subs[o], s)
              ELSE IF o = "source" /\ chains THEN With(subs[o], "chain") ELSE subs[o]]
  /\ cleanup' = (cleanup /\ s # "effect")
  /\ UNCHANGED << immediate, distinct, value, unflushed, gone, notices, knows, due, nested, tooLate, resources, sets >>

\* What a fault would look like: it stays attached.
DetachesNever(left) == FALSE

\* The last one detaches it.
Detaches(left) == left = << >>

\* The function that subscribe() or effect() returned; the effect cleans up.
Leave(s) ==
  /\ MayAct /\ s \in ToSet(subs[Watched(s)]) \ {"chain"}
  /\ LET left == Without(subs[Watched(s)], s)
         detaches == s = "reader" /\ Detaches(left)
     IN  /\ subs' = [o \in Observed |->
              IF o = Watched(s) THEN left
              ELSE IF o = "source" /\ detaches THEN Without(subs[o], "chain") ELSE subs[o]]
         /\ attached' = (attached /\ ~detaches)
         /\ due' = due \ ({s} \cup IF detaches THEN {"chain"} ELSE {})
         /\ knows' = [t \in Subscribers |-> IF t \in due' THEN knows[t] ELSE 0]
  /\ IF s = "effect"
     THEN /\ resources' = resources - IF cleanup THEN 1 ELSE 0
          /\ tooLate' = (tooLate \/ \E i \in DOMAIN notices : notices[i].running = "effect")
     ELSE UNCHANGED << resources, tooLate >>
  /\ UNCHANGED << immediate, distinct, value, unflushed, gone, notices, cleanup, nested, sets >>

\* dispose(): pending changes are forgotten, a notification under way goes on.
DisposeObserver(o) ==
  /\ MayAct /\ o \notin gone
  /\ gone' = gone \cup {o}
  /\ unflushed' = [unflushed EXCEPT ![o] = << >>]
  /\ attached' = (attached /\ o # "derived")
  /\ subs' = [p \in Observed |-> IF p = o THEN << >>
                                 ELSE IF o = "derived" THEN Without(subs[p], "chain") ELSE subs[p]]
  /\ due' = due \ (ToSet(subs[o]) \cup IF o = "derived" THEN {"chain"} ELSE {})
  /\ knows' = [t \in Subscribers |-> IF t \in due' THEN knows[t] ELSE 0]
  /\ UNCHANGED << immediate, distinct, value, notices, cleanup, nested, tooLate, resources, sets >>

ObsNext ==
  \/ \E v \in Values : SetValue(v)
  \/ \E o \in Observed : DisposeObserver(o) \/ \E explicit \in BOOLEAN : FlushObserver(o, explicit)
  \/ \E s \in Subscribers : SubscribeTo(s) \/ Leave(s)
  \/ \E cleans \in BOOLEAN : Returns(cleans)
  \/ Tell \/ AllTold

-----------------------------------------------------------------------------
\* When everything was told, who was told of a change knows the value of today, through the
\* chain too, and whatever was coalesced, unless a notification was overtaken by one that
\* began inside it.
ReadersAreCurrent ==
  notices = << >> /\ ~nested =>
    \A s \in due : unflushed[Watched(s)] = << >> => knows[s] = value[Watched(s)]

\* A derived observer costs its source a subscription only while somebody reads it, and
\* whoever reads it is connected.
ChainIsLazy ==
  gone = {} => /\ attached <=> "chain" \in ToSet(subs["source"])
               /\ attached <=> subs["derived"] # << >>

\* What an effect has opened is cleaned up before it runs again and when it is ended: never
\* twice, and nothing is left behind.
EffectsAreCleaned ==
  nested \/ tooLate \/ gone # {} \/
    resources = IF cleanup /\ "effect" \in ToSet(subs["source"]) THEN 1 ELSE 0

ObserversAreSound == ReadersAreCurrent /\ ChainIsLazy /\ EffectsAreCleaned
=============================================================================
