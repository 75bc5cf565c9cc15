------------------------- MODULE InteractionDiagnostics -------------------------
(***************************************************************************)
(* The store of full results that compact answers refer to: bounded in     *)
(* number, in size and in time.  A result is dropped by a timer, by the    *)
(* calls that find it expired, and by newer results.                       *)
(*                                                                         *)
(* Results are numbered in the order in which they are stored, which is    *)
(* the order of the code's map.  A Bug operator is the definition after it *)
(* with one plausible mistake; no action uses it.                          *)
(***************************************************************************)
EXTENDS Naturals, FiniteSetsExt, Functions

CONSTANTS
  KeptResults,  \* results that are kept (100 in the code)
  KeptBytes,    \* their size (16 MiB)
  ResultBytes,  \* the size of one (1 MiB)
  KeptFor,      \* the time that one is kept (600 s)
  MaxResults,   \* bound: results
  MaxAge        \* bound: time

ASSUME StoreAssumption ==
  /\ {KeptResults, KeptFor, ResultBytes, KeptBytes} \subseteq Nat \ {0}
  /\ ResultBytes <= KeptBytes /\ MaxResults \in Nat

VARIABLES
  entries,  \* the results that are kept, by id: their size, and when they were completed
  bytes,    \* the size that the store counts
  nextId,   \* the id of the next result
  time,
  claims,   \* the results that answers said are available, in the same form
  lookedUp  \* the last lookup: the id, and the size of the result that was found, or 0

storeVars == <<entries, bytes, nextId, time, claims, lookedUp>>

NoResults == [i \in {} |-> 0]

StoreInit ==
  /\ entries = NoResults /\ bytes = 0 /\ nextId = 1 /\ time = 0
  /\ claims = NoResults /\ lookedUp = [id |-> 0, size |-> 0]

TooOld(e) == time - e.completed >= KeptFor

SizeOf(es) ==
  LET upTo[i \in 0..MaxResults] ==
        IF i = 0 THEN 0
        ELSE upTo[i - 1] + (IF i \in DOMAIN es THEN es[i].bytes ELSE 0)
  IN upTo[MaxResults]

\* Entries and the size that is counted go together.
Without(es, ids) ==
  [es |-> Restrict(es, DOMAIN es \ ids), less |-> SizeOf(Restrict(es, DOMAIN es \cap ids))]

Pruned == Without(entries, {i \in DOMAIN entries : TooOld(entries[i])})

\* The oldest are dropped up to the first id at which there is room for the size.
BugRoom(es, counted, size) ==
  Min({n \in 0..nextId : Cardinality(DOMAIN Without(es, 1..n).es) < KeptResults})
Room(es, counted, size) ==
  Min({n \in 0..nextId : /\ Cardinality(DOMAIN Without(es, 1..n).es) < KeptResults
                         /\ counted - Without(es, 1..n).less + size <= KeptBytes})

\* Results with the new one.
Plus(es, e) == [i \in DOMAIN es \cup {nextId} |-> IF i = nextId THEN e ELSE es[i]]

\* A result of a size; one that is too large is not kept, and its answer says so.
Retain(size) ==
  LET counted == bytes - Pruned.less
      left == Without(Pruned.es, 1..Room(Pruned.es, counted, size))
      result == [bytes |-> size, completed |-> time]
  IN /\ nextId <= MaxResults
     /\ nextId' = nextId + 1
     /\ IF size > ResultBytes
        THEN entries' = Pruned.es /\ bytes' = counted /\ UNCHANGED claims
        ELSE /\ entries' = Plus(left.es, result)
             /\ bytes' = counted - left.less + size
             /\ claims' = Plus(claims, result)
     /\ UNCHANGED <<time, lookedUp>>

Lookup(id) ==
  /\ entries' = Pruned.es /\ bytes' = bytes - Pruned.less
  /\ lookedUp' = [id |-> id, size |-> IF id \in DOMAIN Pruned.es THEN Pruned.es[id].bytes ELSE 0]
  /\ UNCHANGED <<nextId, time, claims>>

\* The timer of an entry: not before its time is up, and as late as it likes.
TimerExpires(id) ==
  /\ id \in DOMAIN entries /\ TooOld(entries[id])
  /\ LET left == Without(entries, {id})
     IN entries' = left.es /\ bytes' = bytes - left.less
  /\ UNCHANGED <<nextId, time, claims, lookedUp>>

StoreTimePasses ==
  /\ time < MaxAge
  /\ time' = time + 1
  /\ UNCHANGED <<entries, bytes, nextId, claims, lookedUp>>

StoreNext ==
  \/ \E size \in 1 .. ResultBytes + 1 : Retain(size)
  \/ \E id \in 1 .. nextId : Lookup(id) \/ TimerExpires(id)
  \/ StoreTimePasses

StoreSpec == StoreInit /\ [][StoreNext]_storeVars

----------------------------------------------------------------------------
(* Properties *)

\* The store counts the size of what it keeps, and keeps its limits.
\* A result that an answer said is available is found, as it was, until its time is up, as
\* long as it and the newer ones are within the limits.
ResultsAreKept ==
  /\ bytes = SizeOf(entries) /\ bytes <= KeptBytes
  /\ Cardinality(DOMAIN entries) <= KeptResults
  /\ \A i \in DOMAIN claims :
       LET newer == Restrict(claims, {j \in DOMAIN claims : j >= i})
       IN /\ Cardinality(DOMAIN newer) <= KeptResults /\ SizeOf(newer) <= KeptBytes
          /\ ~TooOld(claims[i])
          => i \in DOMAIN entries /\ entries[i] = claims[i]
  /\ lookedUp.size # 0 =>
       lookedUp.id \in DOMAIN claims /\ claims[lookedUp.id].bytes = lookedUp.size

=============================================================================
