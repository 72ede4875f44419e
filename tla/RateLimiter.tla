----------------------------- MODULE RateLimiter -----------------------------
(***************************************************************************)
(* The per-IP fixed-window limiter of the generate route                   *)
(* (server/image-studio/rate-limiter.js): one synchronous                  *)
(* check-and-increment, a sweep of expired entries on every access, and a  *)
(* Retry-After in whole seconds, rounded up.                               *)
(***************************************************************************)
EXTENDS FiniteSetsExt, Integers

CONSTANTS
  Key,       \* client addresses
  Limit,     \* counted requests per window
  Window,    \* windowMs, in ticks of the clock
  Second,    \* ticks in a second
  MaxNow     \* bound: last value of the clock

ASSUME LimiterAssumption ==
  /\ Limit \in Nat \ {0} /\ Window \in Nat \ {0} /\ Second \in Nat \ {0} /\ MaxNow \in Nat

VARIABLES
  entries,   \* the map: the window and the count of every tracked key
  now,       \* the clock
  granted,   \* history: how many requests of a key were allowed at a time
  told       \* history: the last refusal of a key, when it may come back

limiterVars == <<entries, now, granted, told>>

Time == 0 .. MaxNow
Never == [start |-> -1, back |-> 0]

Restricted(f, dom) == [k \in dom |-> f[k]]

(* Faulty variant: only the key that asks is swept. *)
SweptOne(key) ==
  Restricted(entries, {k \in DOMAIN entries : k = key => now < entries[k].start + Window})

(* sweep(at), as tryConsume(key) sees the map. *)
Swept(key) ==
  Restricted(entries, {k \in DOMAIN entries : now < entries[k].start + Window})

Counted(map, key) ==
  [k \in DOMAIN map \cup {key} |->
     IF k # key THEN map[k]
     ELSE IF key \in DOMAIN map THEN [map[key] EXCEPT !.count = @ + 1]
     ELSE [start |-> now, count |-> 1]]

(* Faulty variant: the check lets one more request pass. *)
HasRoomForOneMore(map, key) == key \in DOMAIN map => map[key].count <= Limit

HasRoom(map, key) == key \in DOMAIN map => map[key].count < Limit

(* Math.max(1, Math.ceil(msLeft / 1000)) *)
RetryAfter(entry) == LET left == entry.start + Window - now
                     IN  Max({1, (left + Second - 1) \div Second})

Allowed(key) == HasRoom(Swept(key), key)

TryConsume(key) ==
  LET map == Swept(key) IN
  IF HasRoom(map, key)
  THEN /\ entries' = Counted(map, key)
       /\ granted' = [granted EXCEPT ![key][now] = @ + 1]
       /\ UNCHANGED told
  ELSE /\ entries' = map
       /\ told' = [told EXCEPT ![key] = [start |-> map[key].start,
                                         back |-> now + RetryAfter(map[key]) * Second]]
       /\ UNCHANGED granted

LimiterInit ==
  /\ entries = [k \in {} |-> 0]
  /\ now = 0
  /\ granted = [k \in Key |-> [t \in Time |-> 0]]
  /\ told = [k \in Key |-> Never]

Tick == now < MaxNow /\ now' = now + 1 /\ UNCHANGED <<entries, granted, told>>

LimiterNext == Tick \/ \E key \in Key : TryConsume(key) /\ UNCHANGED now

LimiterSpec == LimiterInit /\ [][LimiterNext]_limiterVars

-----------------------------------------------------------------------------
(* The types; a window that is tracked has 1 .. Limit requests (tryConsume).*)
LimiterTypeOK ==
  /\ DOMAIN entries \subseteq Key
  /\ \A k \in DOMAIN entries : entries[k] \in [start : 0 .. now, count : 1 .. Limit]
  /\ now \in Time
  /\ granted \in [Key -> [Time -> Nat]]
  /\ told \in [Key -> [start : Time \cup {-1}, back : Nat]]

Grants(key, times) == MapThenSumSet(LAMBDA t : granted[key][t], times)

(* A client never gets more than two windows' worth less one request in    *)
(* any stretch as long as a window, wherever it begins: the first request  *)
(* of a window is what starts it (FR-66, FR-67; tryConsume).               *)
BurstIsBounded ==
  \A k \in Key : \A t \in 0 .. now :
    Grants(k, {u \in t .. t + Window - 1 : u <= now}) <= 2 * Limit - 1

(* A client that waits as long as it was told finds its window over, and   *)
(* one that comes a second earlier does not (Retry-After, SD-16).          *)
RetryAfterIsHonest ==
  \A k \in Key : told[k] # Never =>
    LET over == told[k].start + Window IN
    told[k].back >= over /\ told[k].back - Second < over

(* What the limiter tells its clients is what it does: bursts are bounded, *)
(* and a refused client may come back when it was told to.                 *)
LimiterKeepsWord == BurstIsBounded /\ RetryAfterIsHonest

(* Every access leaves only keys that were granted something inside the    *)
(* last window: the map does not grow with the addresses ever seen (sweep).*)
MapStaysSmall ==
  [][entries' # entries =>
       \A k \in DOMAIN entries' :
         \E t \in Time : now - Window < t /\ t <= now /\ granted'[k][t] > 0]_limiterVars
===============================================================================
