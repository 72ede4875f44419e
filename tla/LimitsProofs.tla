----------------------------- MODULE LimitsProofs -----------------------------
(***************************************************************************)
(* The three guards of the server against too much: the rate limiter, the    *)
(* history trim, and the retries of one call of a text model.  The machines  *)
(* share nothing; they are together here because the first two rest on the   *)
(* same facts about sums.                                                  *)
(***************************************************************************)
EXTENDS RateLimiter, HistoryTrim, LlmCall, FoldLemmas

-----------------------------------------------------------------------------
(* The rate limiter, for any number of clients, any limit, window and clock. *)

(* The requests granted in a stretch are a sum.                              *)
LEMMA GrantsIsSum == \A k, S : Grants(k, S) = SumOf(granted[k], S)
BY SumIsFold DEF Grants

-----------------------------------------------------------------------------
(* The times of the window that began at s. *)
Span(s) == {u \in Time : s <= u /\ u < s + Window}

(* The windows that a key has had, named by their beginnings W: they do not  *)
(* overlap, each began with a request and has no more than the limit, every  *)
(* request granted lies in one, the one that is tracked is counted right,    *)
(* and it is the only one that may still be open.                            *)
Windows(k, W) ==
  /\ W \subseteq 0 .. now
  /\ \A s \in W : granted[k][s] > 0 /\ SumOf(granted[k], Span(s)) <= Limit
  /\ \A s1 \in W : \A s2 \in W : s1 < s2 => s1 + Window <= s2
  /\ \A u \in Time : granted[k][u] > 0 => u <= now /\ \E s \in W : u \in Span(s)
  /\ k \in DOMAIN entries => /\ entries[k].start \in W
                             /\ entries[k].count = SumOf(granted[k], Span(entries[k].start))
  /\ \A s \in W : s + Window <= now \/ (k \in DOMAIN entries /\ entries[k].start = s)

(* Such windows exist for every key, and what the refused ones were told is  *)
(* true.                                                                     *)
LimiterInv ==
  /\ LimiterTypeOK
  /\ \A k \in Key : \E W : Windows(k, W)
  /\ RetryAfterIsHonest

(* The constants.                                                            *)
LEMMA Clock == Limit \in Nat \ {0} /\ Window \in Nat \ {0} /\ Second \in Nat \ {0} /\ MaxNow \in Nat
BY LimiterAssumption

(* Any stretch of the clock is finite, with natural weights.                 *)
LEMMA TimeFinite ==
  ASSUME LimiterTypeOK, NEW k \in Key, NEW S \in SUBSET Time
  PROVE  IsFiniteSet(S) /\ NatOn(granted[k], S)
<1>1. IsFiniteSet(Time)
  BY Clock, FS_Interval DEF Time
<1>2. \A t \in Time : granted[k][t] \in Nat
  BY DEF LimiterTypeOK
<1> QED
  BY <1>1, <1>2, FS_Subset DEF NatOn

(* Windows began in the past.                                                *)
LEMMA StartsBefore ==
  ASSUME now \in Nat, NEW k, NEW W, Windows(k, W)
  PROVE  \A s \in W : s \in Nat /\ s <= now
<1>1. W \subseteq 0 .. now
  BY DEF Windows
<1> QED
  BY <1>1

(* From t on, no window begins before the last of these times.               *)
NoneBegins(W, A, t) == \A u \in A : t <= u /\ \A s \in W : ~(t <= s /\ s <= u)

(* What is granted in a stretch in which no window begins is the rest of one *)
(* window, without the request that began it.                                *)
LEMMA RestOfWindow ==
  ASSUME LimiterTypeOK, NEW k \in Key, NEW W, Windows(k, W), NEW A \in SUBSET Time, NEW t \in Nat,
         NoneBegins(W, A, t)
  PROVE  SumOf(granted[k], A) <= Limit - 1
<1>1. \A S \in SUBSET Time : IsFiniteSet(S) /\ NatOn(granted[k], S)
  BY TimeFinite
<1>2. \A u \in Time : u \in Nat /\ granted[k][u] \in Nat
  BY Clock DEF LimiterTypeOK, Time
<1>3. \A s \in W : s \in Time /\ s \in Nat
  BY Clock DEF Windows, LimiterTypeOK, Time
<1>4. CASE \A u \in A : granted[k][u] = 0
  BY <1>1, <1>4, SumZero, Clock
<1>5. CASE \E u \in A : granted[k][u] # 0
  <2>1. PICK u0 \in A : granted[k][u0] > 0
    BY <1>2, <1>5
  <2>2. PICK s0 \in W : u0 \in Span(s0)
    BY <2>1 DEF Windows
  <2>3. s0 < t /\ u0 < s0 + Window
    BY <1>2, <1>3, <2>1, <2>2 DEF Span, NoneBegins
  <2>4. \A u \in A \ (Span(s0) \ {s0}) : granted[k][u] = 0
    <3> SUFFICES ASSUME NEW u \in A, granted[k][u] > 0 PROVE u \in Span(s0) \ {s0}
      BY <1>2
    <3>1. PICK s \in W : u \in Span(s)
      BY DEF Windows
    <3>2. s < t /\ u < s + Window
      BY <1>2, <1>3, <3>1 DEF Span, NoneBegins
    <3>3. ~(s < s0) /\ ~(s0 < s)
      <4>1. (s < s0 => s + Window <= s0) /\ (s0 < s => s0 + Window <= s)
        BY DEF Windows
      <4>2. u \in Nat /\ u0 \in Nat /\ s \in Nat /\ s0 \in Nat /\ t <= u /\ t <= u0
        BY <1>2, <1>3, <2>1 DEF NoneBegins
      <4> QED
        BY <2>3, <3>2, <4>1, <4>2, Clock
    <3>4. s = s0
      BY <1>3, <3>3
    <3> QED
      BY <1>2, <1>3, <2>3, <3>1, <3>4 DEF NoneBegins
  <2>5. Span(s0) \in SUBSET Time /\ s0 \in Span(s0)
    BY <1>3, Clock DEF Span
  <2>6. SumOf(granted[k], A) <= SumOf(granted[k], Span(s0) \ {s0})
    <3>1. Span(s0) \ {s0} \in SUBSET Time
      BY <2>5
    <3> QED
      BY <1>1, <2>4, <3>1, SumBelow
  <2>7. SumOf(granted[k], Span(s0)) = granted[k][s0] + SumOf(granted[k], Span(s0) \ {s0})
    BY <1>1, <2>5, SumTakes
  <2>8. SumOf(granted[k], Span(s0)) <= Limit /\ granted[k][s0] > 0
    BY DEF Windows
  <2>9. /\ SumOf(granted[k], Span(s0) \ {s0}) \in Nat /\ SumOf(granted[k], A) \in Nat
        /\ granted[k][s0] \in Nat
    <3>1. Span(s0) \ {s0} \in SUBSET Time
      BY <2>5
    <3> QED
      BY <1>1, <1>2, <1>3, <3>1, SumType
  <2> QED
    BY <2>6, <2>7, <2>8, <2>9, Clock
<1> QED
  BY <1>4, <1>5

(* A stretch as long as a window meets the beginning of one window at most:  *)
(* what lies before it is the rest of an earlier window, one request short   *)
(* of the limit, and what lies behind it is part of that window.             *)
LEMMA BurstBound == LimiterInv => BurstIsBounded
<1> SUFFICES ASSUME LimiterInv, NEW k \in Key, NEW t \in 0 .. now
             PROVE  Grants(k, {u \in t .. t + Window - 1 : u <= now}) <= 2 * Limit - 1
  BY DEF BurstIsBounded
<1> DEFINE S == {u \in t .. t + Window - 1 : u <= now}
<1>0. LimiterTypeOK /\ now \in Nat /\ now <= MaxNow /\ t \in Nat
  BY Clock DEF LimiterInv, LimiterTypeOK, Time
<1>1. PICK W : Windows(k, W)
  BY DEF LimiterInv
<1>2. S \in SUBSET Time
  BY <1>0, Clock DEF Time
<1>3. \A A \in SUBSET Time : IsFiniteSet(A) /\ NatOn(granted[k], A) /\ SumOf(granted[k], A) \in Nat
  BY <1>0, TimeFinite, SumType
<1>4. \A s \in W : s \in Nat /\ s <= now
  BY <1>0, <1>1, StartsBefore
<1>5. CASE \A s \in W : s \notin S
  <2>1. NoneBegins(W, S, t)
    BY <1>0, <1>4, <1>5, Clock DEF NoneBegins
  <2>2. SumOf(granted[k], S) <= Limit - 1
    <3> HIDE DEF S
    <3> QED
      BY <1>0, <1>1, <1>2, <2>1, RestOfWindow, Zenon
  <2> QED
    BY <1>2, <1>3, <2>2, GrantsIsSum, Clock
<1>6. CASE \E s \in W : s \in S
  <2>1. PICK s2 \in W : s2 \in S
    BY <1>6
  <2> DEFINE A == {u \in S : u < s2}
             B == {u \in S : u >= s2}
  <2>2. A \in SUBSET Time /\ B \in SUBSET Time /\ S = A \cup B /\ A \cap B = {}
    BY <1>0, <1>2, <1>4, Clock
  <2>3. NoneBegins(W, A, t)
    <3> SUFFICES ASSUME NEW u \in A, NEW s \in W, t <= s, s <= u PROVE FALSE
      BY <1>0, Clock DEF NoneBegins
    <3>1. s < s2 /\ s2 < s + Window
      BY <1>0, <1>4, <2>1, Clock
    <3> QED
      BY <1>1, <1>4, <3>1, Clock DEF Windows
  <2>4. SumOf(granted[k], A) <= Limit - 1
    <3> HIDE DEF A
    <3> QED
      BY <1>0, <1>1, <2>2, <2>3, RestOfWindow, Zenon
  <2>5. Span(s2) \in SUBSET Time /\ B \subseteq Span(s2)
    BY <1>0, <1>2, <1>4, <2>1, Clock DEF Span
  <2>6. SumOf(granted[k], B) <= SumOf(granted[k], Span(s2))
    <3> HIDE DEF B
    <3> QED
      BY <1>3, <2>2, <2>5, SumBelow
  <2>7. SumOf(granted[k], Span(s2)) <= Limit
    BY <1>1 DEF Windows
  <2>8. SumOf(granted[k], S) = SumOf(granted[k], A) + SumOf(granted[k], B)
    <3> HIDE DEF A, B
    <3> QED
      BY <1>3, <2>2, SumSplits
  <2>9. SumOf(granted[k], A) \in Nat /\ SumOf(granted[k], B) \in Nat /\ SumOf(granted[k], Span(s2)) \in Nat
    <3> HIDE DEF A, B
    <3> QED
      BY <1>3, <2>2, <2>5
  <2> HIDE DEF A, B
  <2>10. SumOf(granted[k], S) <= 2 * Limit - 1
    BY <2>4, <2>6, <2>7, <2>8, <2>9, Clock
  <2> QED
    BY <2>10, GrantsIsSum
<1> QED
  BY <1>5, <1>6

-----------------------------------------------------------------------------
(* Nothing is granted, and there are no windows.                             *)
LEMMA LimiterInvInitially == LimiterInit => LimiterInv
<1> SUFFICES ASSUME LimiterInit PROVE LimiterInv
  OBVIOUS
<1>1. now \in Time /\ DOMAIN entries = {} /\ granted \in [Key -> [Time -> Nat]]
  BY Clock DEF LimiterInit, Time
<1>2. \A k \in Key : told[k] = Never /\ told \in [Key -> [start : Time \cup {-1}, back : Nat]]
  BY DEF LimiterInit, Never
<1>3. \A k \in Key : Windows(k, {})
  BY <1>1 DEF LimiterInit, Windows
<1>4. told \in [Key -> [start : Time \cup {-1}, back : Nat]]
  BY DEF LimiterInit, Never
<1> QED
  BY <1>1, <1>2, <1>3, <1>4 DEF LimiterInv, LimiterTypeOK, RetryAfterIsHonest

(* The map after the sweep has the windows that are open.                    *)
LEMMA SweptOpen ==
  ASSUME LimiterInv, NEW key
  PROVE  /\ DOMAIN Swept(key) = {k \in DOMAIN entries : now < entries[k].start + Window}
         /\ \A k \in DOMAIN Swept(key) : Swept(key)[k] = entries[k]
BY DEF Swept, Restricted

(* The clock moves on: windows that were over stay over.                     *)
LEMMA TickKeeps == LimiterInv /\ Tick => LimiterInv'
<1> SUFFICES ASSUME LimiterInv, Tick PROVE LimiterInv'
  OBVIOUS
<1>1. now \in Nat /\ now' = now + 1 /\ now' \in Time /\ UNCHANGED <<entries, granted, told>>
  BY Clock DEF LimiterInv, LimiterTypeOK, Tick, Time
<1>2. LimiterTypeOK'
  <2>1. \A k \in DOMAIN entries : entries[k] \in [start : 0 .. now', count : 1 .. Limit]
    BY <1>1 DEF LimiterInv, LimiterTypeOK
  <2> QED
    BY <1>1, <2>1 DEF LimiterInv, LimiterTypeOK
<1>3. ASSUME NEW k \in Key PROVE \E W : Windows(k, W)'
  <2>1. PICK W : Windows(k, W)
    BY DEF LimiterInv
  <2>2. \A s \in W : s \in Nat /\ s <= now
    BY <1>1, <2>1 DEF Windows
  <2>3. W \subseteq 0 .. now'
    BY <1>1, <2>2
  <2>4. \A s \in W : s + Window <= now' \/ (k \in DOMAIN entries /\ entries[k].start = s)
    BY <1>1, <2>1, <2>2, Clock DEF Windows
  <2>5. \A u \in Time : granted[k][u] > 0 => u <= now' /\ \E s \in W : u \in Span(s)
    BY <1>1, <2>1, Clock DEF Windows, Time
  <2>6. Windows(k, W)'
    <3>1. \A s : Span(s)' = Span(s)
      BY DEF Span, Time
    <3> QED
      BY <1>1, <2>1, <2>3, <2>4, <2>5, <3>1 DEF Windows
  <2> QED
    BY <2>6
<1>4. RetryAfterIsHonest'
  BY <1>1 DEF LimiterInv, RetryAfterIsHonest
<1> QED
  BY <1>2, <1>3, <1>4 DEF LimiterInv

(* A key that does not ask loses nothing but a window that is over.          *)
LEMMA OthersKeep ==
  ASSUME LimiterInv, NEW key \in Key, TryConsume(key), UNCHANGED now, NEW k \in Key, k # key
  PROVE  \E W : Windows(k, W)'
<1>0. now \in Nat /\ DOMAIN granted = Key
  BY Clock DEF LimiterInv, LimiterTypeOK, Time
<1>1. PICK W : Windows(k, W)
  BY DEF LimiterInv
<1>2. granted'[k] = granted[k]
  BY <1>0 DEF TryConsume
<1>3. /\ k \in DOMAIN entries' <=> k \in DOMAIN entries /\ now < entries[k].start + Window
      /\ k \in DOMAIN entries' => entries'[k] = entries[k]
  <2>1. /\ DOMAIN Swept(key) = {j \in DOMAIN entries : now < entries[j].start + Window}
        /\ \A j \in DOMAIN Swept(key) : Swept(key)[j] = entries[j]
    BY SweptOpen
  <2>2. entries' = Swept(key) \/ entries' = Counted(Swept(key), key)
    BY DEF TryConsume
  <2>3. /\ k \in DOMAIN entries' <=> k \in DOMAIN Swept(key)
        /\ k \in DOMAIN entries' => entries'[k] = Swept(key)[k]
    BY <2>2 DEF Counted
  <2> QED
    BY <2>1, <2>3
<1>4. \A s : Span(s)' = Span(s)
  BY DEF Span, Time
<1>5. \A s \in W : s \in Nat
  BY <1>0, <1>1, StartsBefore
<1>6. \A s \in W : s + Window <= now \/ (k \in DOMAIN entries' /\ entries'[k].start = s)
  BY <1>0, <1>1, <1>3, <1>5, Clock DEF Windows
<1>7. Windows(k, W)'
  BY <1>1, <1>2, <1>3, <1>4, <1>6 DEF Windows
<1> QED
  BY <1>7

(* The request of a key whose window is open, with room in it.               *)
LEMMA CountedInWindow ==
  ASSUME LimiterInv, NEW key \in Key, TryConsume(key), UNCHANGED now,
         HasRoom(Swept(key), key), key \in DOMAIN Swept(key)
  PROVE  /\ \E W : Windows(key, W)'
         /\ DOMAIN entries' = DOMAIN Swept(key)
         /\ entries'[key].start = entries[key].start
         /\ entries'[key] \in [start : 0 .. now, count : 1 .. Limit]
<1>0. /\ LimiterTypeOK /\ now \in Nat /\ now \in Time /\ DOMAIN granted = Key /\ DOMAIN granted[key] = Time
      /\ key \in DOMAIN entries /\ now < entries[key].start + Window
      /\ entries[key] \in [start : 0 .. now, count : 1 .. Limit]
  <2>1. key \in DOMAIN entries /\ now < entries[key].start + Window
    BY SweptOpen
  <2> QED
    BY <2>1, Clock DEF LimiterInv, LimiterTypeOK, Time
<1>1. PICK W : Windows(key, W)
  BY DEF LimiterInv
<1> DEFINE st == entries[key].start
<1>2. /\ entries'[key] = [entries[key] EXCEPT !.count = @ + 1] /\ entries[key].count < Limit
      /\ DOMAIN entries' = DOMAIN Swept(key)
  BY SweptOpen DEF TryConsume, Counted, HasRoom
<1>3. /\ entries'[key].start = st /\ entries'[key].count = entries[key].count + 1
      /\ entries'[key] \in [start : 0 .. now, count : 1 .. Limit]
  BY <1>0, <1>2, Clock
<1>4. /\ granted'[key][now] = granted[key][now] + 1
      /\ \A u \in Time \ {now} : granted'[key][u] = granted[key][u]
  BY <1>0 DEF TryConsume
<1>5. \A S \in SUBSET Time : IsFiniteSet(S) /\ NatOn(granted[key], S) /\ NatOn(granted'[key], S)
  <2>1. \A S \in SUBSET Time : IsFiniteSet(S) /\ NatOn(granted[key], S)
    BY <1>0, TimeFinite
  <2>2. \A u \in Time : granted[key][u] \in Nat /\ granted'[key][u] \in Nat
    BY <1>0, <1>4 DEF LimiterTypeOK
  <2> QED
    BY <2>1, <2>2 DEF NatOn
<1>6. \A s \in W : s \in Nat /\ Span(s) \in SUBSET Time
  BY <1>0, <1>1 DEF Windows, Span
<1>7. st \in W /\ now \in Span(st)
  BY <1>0, <1>1 DEF Windows, Span
<1>8. SumOf(granted'[key], Span(st)) = SumOf(granted[key], Span(st)) + 1
  BY <1>4, <1>5, <1>6, <1>7, SumGrows
<1>9. \A s \in W \ {st} : SumOf(granted'[key], Span(s)) = SumOf(granted[key], Span(s))
  <2> SUFFICES ASSUME NEW s \in W, s # st
               PROVE  SumOf(granted'[key], Span(s)) = SumOf(granted[key], Span(s))
    OBVIOUS
  <2>1. now \notin Span(s)
    BY <1>0, <1>1, <1>6, Clock DEF Windows, Span
  <2>2. \A u \in Span(s) : granted'[key][u] = granted[key][u]
    BY <1>4, <1>6, <2>1
  <2> QED
    BY <1>5, <1>6, <2>2, SumSame
<1>10. \A s \in W : granted'[key][s] > 0 /\ SumOf(granted'[key], Span(s)) <= Limit
  <2>1. \A s \in W : granted[key][s] > 0 /\ granted[key][s] \in Nat /\ s \in Time
    <3>1. \A s \in W : s \in Time /\ granted[key][s] > 0
      BY <1>0, <1>1, StartsBefore, Clock DEF Windows, Time
    <3> QED
      BY <1>0, <3>1 DEF LimiterTypeOK
  <2>2. \A s \in W : granted'[key][s] > 0
    BY <1>4, <2>1
  <2>3. SumOf(granted'[key], Span(st)) <= Limit
    BY <1>0, <1>1, <1>2, <1>8, Clock DEF Windows
  <2>4. \A s \in W \ {st} : SumOf(granted'[key], Span(s)) <= Limit
    BY <1>1, <1>9 DEF Windows
  <2> QED
    BY <2>2, <2>3, <2>4
<1>11. \A u \in Time : granted'[key][u] > 0 => u <= now /\ \E s \in W : u \in Span(s)
  BY <1>0, <1>1, <1>4, <1>7 DEF Windows
<1>12. \A s : Span(s)' = Span(s)
  BY DEF Span, Time
<1>13. entries'[key].count = SumOf(granted'[key], Span(st))
  BY <1>0, <1>1, <1>3, <1>8 DEF Windows
<1>14. \A s \in W : s + Window <= now \/ st = s
  BY <1>1 DEF Windows
<1>15. Windows(key, W)'
  <2>1. key \in DOMAIN entries'
    BY <1>2
  <2> HIDE DEF st
  <2>2. entries'[key].start = st /\ now' = now
    BY <1>3
  <2>3. W \subseteq 0 .. now /\ \A s1 \in W : \A s2 \in W : s1 < s2 => s1 + Window <= s2
    BY <1>1 DEF Windows
  <2> QED
    BY <1>7, <1>10, <1>11, <1>12, <1>13, <1>14, <2>1, <2>2, <2>3 DEF Windows
<1> QED
  BY <1>2, <1>3, <1>15

(* The request that begins a window.                                         *)
LEMMA WindowBegins ==
  ASSUME LimiterInv, NEW key \in Key, TryConsume(key), UNCHANGED now, key \notin DOMAIN Swept(key)
  PROVE  /\ \E W : Windows(key, W)'
         /\ DOMAIN entries' = DOMAIN Swept(key) \cup {key}
         /\ entries'[key] = [start |-> now, count |-> 1]
         /\ granted'[key][now] > 0
<1>0. /\ LimiterTypeOK /\ now \in Nat /\ now \in Time /\ DOMAIN granted = Key /\ DOMAIN granted[key] = Time
      /\ (key \in DOMAIN entries => entries[key].start \in Nat /\ ~(now < entries[key].start + Window))
  <2>1. key \in DOMAIN entries => ~(now < entries[key].start + Window)
    BY SweptOpen
  <2> QED
    BY <2>1, Clock DEF LimiterInv, LimiterTypeOK, Time
<1>1. PICK W : Windows(key, W)
  BY DEF LimiterInv
<1>2. /\ entries'[key] = [start |-> now, count |-> 1]
      /\ DOMAIN entries' = DOMAIN Swept(key) \cup {key}
  BY DEF TryConsume, Counted, HasRoom
<1>3. \A s \in W : s \in Nat /\ s \in Time /\ s + Window <= now /\ s # now /\ Span(s) \in SUBSET Time
  BY <1>0, <1>1, Clock DEF Windows, Span, Time
<1>4. /\ granted'[key][now] = granted[key][now] + 1
      /\ \A u \in Time \ {now} : granted'[key][u] = granted[key][u]
  BY <1>0 DEF TryConsume, HasRoom
<1>5. \A S \in SUBSET Time : IsFiniteSet(S) /\ NatOn(granted[key], S) /\ NatOn(granted'[key], S)
  <2>1. \A S \in SUBSET Time : IsFiniteSet(S) /\ NatOn(granted[key], S)
    BY <1>0, TimeFinite
  <2>2. \A u \in Time : granted[key][u] \in Nat /\ granted'[key][u] \in Nat
    BY <1>0, <1>4 DEF LimiterTypeOK
  <2> QED
    BY <2>1, <2>2 DEF NatOn
<1>6. Span(now) \in SUBSET Time /\ now \in Span(now) /\ \A u \in Span(now) : u \in Nat /\ u >= now
  BY <1>0, Clock DEF Span, Time
<1>7. \A u \in Span(now) : granted[key][u] = 0
  <2> SUFFICES ASSUME NEW u \in Span(now), granted[key][u] > 0 PROVE FALSE
    BY <1>5, <1>6 DEF NatOn
  <2>1. u <= now /\ \E s \in W : u \in Span(s)
    BY <1>1, <1>6 DEF Windows
  <2>2. \A s \in W : u < s + Window => s + Window <= now
    BY <1>3
  <2> QED
    BY <1>0, <1>3, <1>6, <2>1, <2>2, Clock DEF Span
<1>8. granted'[key][now] = 1 /\ SumOf(granted'[key], Span(now)) = 1
  <2>1. SumOf(granted[key], Span(now)) = 0
    BY <1>5, <1>6, <1>7, SumZero
  <2>2. SumOf(granted'[key], Span(now)) = SumOf(granted[key], Span(now)) + 1
    BY <1>4, <1>5, <1>6, SumGrows
  <2> QED
    BY <1>4, <1>6, <1>7, <2>1, <2>2
<1>9. \A s \in W : /\ granted'[key][s] > 0
                   /\ SumOf(granted'[key], Span(s)) = SumOf(granted[key], Span(s))
  <2> SUFFICES ASSUME NEW s \in W
               PROVE  /\ granted'[key][s] > 0
                      /\ SumOf(granted'[key], Span(s)) = SumOf(granted[key], Span(s))
    OBVIOUS
  <2>1. now \notin Span(s)
    BY <1>0, <1>3, Clock DEF Span
  <2>2. \A u \in Span(s) : granted'[key][u] = granted[key][u]
    BY <1>3, <1>4, <2>1
  <2>3. granted'[key][s] > 0
    BY <1>1, <1>3, <1>4 DEF Windows
  <2> QED
    BY <1>3, <1>5, <2>2, <2>3, SumSame
<1> DEFINE V == W \cup {now}
<1>10. \A s \in V : granted'[key][s] > 0 /\ SumOf(granted'[key], Span(s)) <= Limit
  BY <1>1, <1>8, <1>9, Clock DEF Windows
<1>11. \A u \in Time : granted'[key][u] > 0 => u <= now /\ \E s \in V : u \in Span(s)
  BY <1>0, <1>1, <1>4, <1>6 DEF Windows
<1>12. \A s1 \in V : \A s2 \in V : s1 < s2 => s1 + Window <= s2
  BY <1>0, <1>1, <1>3, Clock DEF Windows
<1>13. V \subseteq 0 .. now /\ now \in V /\ \A s \in V : s + Window <= now \/ now = s
  BY <1>0, <1>1, <1>3 DEF Windows
<1>14. \A s : Span(s)' = Span(s)
  BY DEF Span, Time
<1>15. Windows(key, V)'
  <2>0. V' = V
    OBVIOUS
  <2> HIDE DEF V
  <2>1. key \in DOMAIN entries' /\ entries'[key].start = now /\ entries'[key].count = 1 /\ now' = now
    BY <1>2
  <2>2. entries'[key].start \in V /\ entries'[key].count = SumOf(granted'[key], Span(entries'[key].start))
    BY <1>8, <1>13, <2>1
  <2>3. \A s \in V : s + Window <= now \/ (key \in DOMAIN entries' /\ entries'[key].start = s)
    BY <1>13, <2>1
  <2> QED
    BY <1>10, <1>11, <1>12, <1>13, <1>14, <2>0, <2>1, <2>2, <2>3 DEF Windows
<1> QED
  BY <1>2, <1>8, <1>15

(* Math.max(1, ...) does not count while the window is open.                 *)
LEMMA RetryIs ==
  ASSUME NEW e, NEW q \in Nat \ {0}, q = (e.start + Window - now + Second - 1) \div Second
  PROVE  RetryAfter(e) = q
BY SMT DEF RetryAfter, Max

(* Whole seconds, rounded up, reach the end of the window and no further.    *)
LEMMA RetryFits ==
  ASSUME now \in Nat, NEW e, e.start \in Nat, now < e.start + Window,
         NEW back, back = now + RetryAfter(e) * Second
  PROVE  back \in Nat /\ back >= e.start + Window /\ back - Second < e.start + Window
<1>1. PICK left \in Nat \ {0} : left = e.start + Window - now
  BY Clock
<1>2. PICK q \in Nat \ {0} : q = (left + Second - 1) \div Second
                          /\ q * Second >= left /\ q * Second - Second < left
  BY Ceiling, Clock
<1>3. RetryAfter(e) = q
  BY <1>1, <1>2, RetryIs
<1>4. PICK wait \in Nat : wait = q * Second
  BY Clock
<1> QED
  BY <1>1, <1>2, <1>3, <1>4, Clock

(* A refusal changes nothing but the map, and tells the key when to come     *)
(* back.                                                                     *)
LEMMA Refused ==
  ASSUME LimiterInv, NEW key \in Key, TryConsume(key), UNCHANGED now, ~HasRoom(Swept(key), key)
  PROVE  /\ \E W : Windows(key, W)'
         /\ entries' = Swept(key) /\ granted' = granted
         /\ told' \in [Key -> [start : Time \cup {-1}, back : Nat]] /\ RetryAfterIsHonest'
<1>0. /\ LimiterTypeOK /\ now \in Nat /\ now \in Time /\ told \in [Key -> [start : Time \cup {-1}, back : Nat]]
  BY Clock DEF LimiterInv, LimiterTypeOK, Time
<1>1. /\ key \in DOMAIN Swept(key) /\ entries' = Swept(key) /\ granted' = granted
      /\ key \in DOMAIN entries /\ now < entries[key].start + Window /\ Swept(key)[key] = entries[key]
      /\ told' = [told EXCEPT ![key] = [start |-> entries[key].start,
                                        back |-> now + RetryAfter(entries[key]) * Second]]
  BY SweptOpen DEF TryConsume, HasRoom
<1>2. entries[key].start \in Time /\ entries[key].start \in Nat
  BY <1>0, <1>1, Clock DEF LimiterTypeOK, Time
<1>3. PICK back : back = now + RetryAfter(entries[key]) * Second
  OBVIOUS
<1>4. /\ back \in Nat /\ back >= entries[key].start + Window
      /\ back - Second < entries[key].start + Window
  BY <1>0, <1>1, <1>2, <1>3, RetryFits
<1>5. PICK word : word = [start |-> entries[key].start, back |-> back]
  OBVIOUS
<1>6. told' = [told EXCEPT ![key] = word]
  BY <1>1, <1>3, <1>5
<1>7. word \in [start : Time \cup {-1}, back : Nat] /\ word.back >= word.start + Window
      /\ word.back - Second < word.start + Window
  BY <1>2, <1>4, <1>5
<1>8. told' \in [Key -> [start : Time \cup {-1}, back : Nat]]
  BY <1>0, <1>6, <1>7
<1>9. RetryAfterIsHonest'
  <2>1. \A k \in Key : told'[k] = IF k = key THEN word ELSE told[k]
    BY <1>0, <1>6
  <2>2. \A k \in Key : told'[k] # Never => /\ told'[k].back >= told'[k].start + Window
                                          /\ told'[k].back - Second < told'[k].start + Window
    BY <1>7, <2>1 DEF LimiterInv, RetryAfterIsHonest
  <2> QED
    BY <2>2 DEF RetryAfterIsHonest, Never
<1>10. \E W : Windows(key, W)'
  <2>1. PICK W : Windows(key, W)
    BY DEF LimiterInv
  <2>2. key \in DOMAIN entries' /\ entries'[key] = entries[key]
    BY <1>1
  <2>3. \A s : Span(s)' = Span(s)
    BY DEF Span, Time
  <2>4. Windows(key, W)'
    BY <1>1, <2>1, <2>2, <2>3 DEF Windows
  <2> QED
    BY <2>4
<1> QED
  BY <1>1, <1>8, <1>9, <1>10

(* tryConsume() of any client.                                               *)
LEMMA ConsumeKeeps ==
  ASSUME LimiterInv, NEW key \in Key, TryConsume(key), UNCHANGED now
  PROVE  LimiterInv'
<1>0. /\ now \in Time /\ DOMAIN entries \subseteq Key /\ granted \in [Key -> [Time -> Nat]]
      /\ told \in [Key -> [start : Time \cup {-1}, back : Nat]]
      /\ \A k \in DOMAIN entries : entries[k] \in [start : 0 .. now, count : 1 .. Limit]
  BY DEF LimiterInv, LimiterTypeOK
<1>1. /\ DOMAIN Swept(key) \subseteq DOMAIN entries
      /\ \A k \in DOMAIN Swept(key) : Swept(key)[k] = entries[k]
  BY SweptOpen
<1>2. \A k \in Key \ {key} : \E W : Windows(k, W)'
  BY OthersKeep
<1>3. CASE HasRoom(Swept(key), key)
  <2>1. /\ UNCHANGED told /\ entries' = Counted(Swept(key), key)
        /\ granted' = [granted EXCEPT ![key][now] = @ + 1]
    BY <1>3 DEF TryConsume
  <2>2. granted' \in [Key -> [Time -> Nat]]
    BY <1>0, <2>1
  <2>3. RetryAfterIsHonest'
    BY <2>1 DEF LimiterInv, RetryAfterIsHonest, Never
  <2>4. /\ \E W : Windows(key, W)' /\ DOMAIN entries' = DOMAIN Swept(key) \cup {key}
        /\ entries'[key] \in [start : 0 .. now, count : 1 .. Limit]
    <3>1. CASE key \in DOMAIN Swept(key)
      BY <1>3, <3>1, CountedInWindow
    <3>2. CASE key \notin DOMAIN Swept(key)
      <4>1. /\ \E W : Windows(key, W)' /\ DOMAIN entries' = DOMAIN Swept(key) \cup {key}
            /\ entries'[key] = [start |-> now, count |-> 1]
        BY <3>2, WindowBegins
      <4> QED
        BY <1>0, <4>1, Clock DEF Time
    <3> QED
      BY <3>1, <3>2
  <2>5. \A k \in DOMAIN entries' \ {key} : entries'[k] = entries[k] /\ k \in DOMAIN entries
    BY <1>1, <2>1, <2>4 DEF Counted
  <2>6. LimiterTypeOK'
    BY <1>0, <1>1, <2>1, <2>2, <2>4, <2>5 DEF LimiterTypeOK
  <2> QED
    BY <1>2, <2>3, <2>4, <2>6 DEF LimiterInv
<1>4. CASE ~HasRoom(Swept(key), key)
  <2>1. /\ \E W : Windows(key, W)' /\ entries' = Swept(key) /\ granted' = granted
        /\ told' \in [Key -> [start : Time \cup {-1}, back : Nat]] /\ RetryAfterIsHonest'
    BY <1>4, Refused
  <2>2. LimiterTypeOK'
    BY <1>0, <1>1, <2>1 DEF LimiterTypeOK
  <2> QED
    BY <1>2, <2>1, <2>2 DEF LimiterInv
<1> QED
  BY <1>3, <1>4

(* Every step of the limiter.                                                *)
LEMMA LimiterInvStep == LimiterInv /\ [LimiterNext]_limiterVars => LimiterInv'
<1> SUFFICES ASSUME LimiterInv, [LimiterNext]_limiterVars PROVE LimiterInv'
  OBVIOUS
<1>1. CASE UNCHANGED limiterVars
  <2>1. \A s : Span(s)' = Span(s)
    BY DEF Span, Time
  <2>2. UNCHANGED <<entries, now, granted, told>>
    BY <1>1 DEF limiterVars
  <2>3. \A k, W : Windows(k, W)' <=> Windows(k, W)
    BY <2>1, <2>2 DEF Windows
  <2>4. LimiterTypeOK' /\ RetryAfterIsHonest'
    BY <2>2 DEF LimiterInv, LimiterTypeOK, RetryAfterIsHonest, Time, Never
  <2> QED
    BY <2>3, <2>4 DEF LimiterInv
<1> QED
  BY <1>1, TickKeeps, ConsumeKeeps DEF LimiterNext

(* A tracked window began in the past and has between one request and the    *)
(* limit (tryConsume).                                                       *)
THEOREM LimiterTyped == LimiterSpec => []LimiterTypeOK
<1>1. LimiterInv => LimiterTypeOK
  BY DEF LimiterInv
<1> QED
  BY <1>1, LimiterInvInitially, LimiterInvStep, PTL DEF LimiterSpec

(* Bursts are bounded wherever the stretch begins, and Retry-After is        *)
(* neither too early nor a second too late, for all clients, limits and      *)
(* windows.                                                                  *)
THEOREM LimiterWord == LimiterSpec => []LimiterKeepsWord
<1>1. LimiterInv => LimiterKeepsWord
  BY BurstBound DEF LimiterInv, LimiterKeepsWord
<1> QED
  BY <1>1, LimiterInvInitially, LimiterInvStep, PTL DEF LimiterSpec

(* What MapStaysSmall says of one step.                                      *)
Recent == entries' # entries => \A k \in DOMAIN entries' :
            \E t \in Time : now - Window < t /\ t <= now /\ granted'[k][t] > 0

(* A key in the map after an access was granted something in the last        *)
(* window.                                                                   *)
LEMMA ConsumeSweeps == LimiterInv /\ [LimiterNext]_limiterVars => [Recent]_limiterVars
<1> SUFFICES ASSUME LimiterInv, LimiterNext, entries' # entries, NEW k \in DOMAIN entries'
             PROVE  \E t \in Time : now - Window < t /\ t <= now /\ granted'[k][t] > 0
  BY DEF limiterVars, Recent
<1>1. PICK key \in Key : TryConsume(key) /\ UNCHANGED now
  BY DEF LimiterNext, Tick
<1>2. /\ now \in Time /\ now \in Nat /\ granted \in [Key -> [Time -> Nat]]
      /\ DOMAIN entries \subseteq Key
  BY Clock DEF LimiterInv, LimiterTypeOK, Time
<1>3. CASE k \in DOMAIN Swept(key)
  <2>1. k \in Key /\ k \in DOMAIN entries /\ now < entries[k].start + Window
    BY <1>2, <1>3, SweptOpen
  <2>2. PICK W : Windows(k, W)
    BY <2>1 DEF LimiterInv
  <2> DEFINE st == entries[k].start
  <2>3. st \in 0 .. now /\ granted[k][st] > 0
    BY <2>1, <2>2 DEF Windows
  <2>4. st \in Time /\ granted[k][st] \in Nat
    BY <1>2, <2>1, <2>3, Clock DEF Time
  <2>5. granted'[k][st] >= granted[k][st]
    <3> HIDE DEF st
    <3> QED
      BY <1>1, <1>2, <2>1, <2>4 DEF TryConsume
  <2> HIDE DEF st
  <2>6. granted'[k][st] > 0
    <3>1. granted'[k][st] \in Nat
      BY <1>1, <1>2, <2>1, <2>4 DEF TryConsume
    <3> QED
      BY <2>3, <2>4, <2>5, <3>1
  <2> QED
    BY <1>2, <2>1, <2>3, <2>4, <2>6, Clock DEF st
<1>4. CASE k \notin DOMAIN Swept(key)
  <2>1. k = key
    BY <1>1, <1>4 DEF TryConsume, Counted
  <2>2. granted'[k][now] > 0
    BY <1>1, <1>4, <2>1, WindowBegins
  <2> QED
    BY <1>2, <2>2, Clock
<1> QED
  BY <1>3, <1>4

(* Every access sweeps every key that is over (sweep).                       *)
THEOREM MapIsSmall == LimiterSpec => MapStaysSmall
<1>1. LimiterInv /\ [LimiterNext]_limiterVars => [Recent]_limiterVars
  BY ConsumeSweeps
<1>2. LimiterSpec => [][Recent]_limiterVars
  BY <1>1, LimiterInvInitially, LimiterInvStep, PTL DEF LimiterSpec
<1> QED
  BY <1>2 DEF MapStaysSmall, Recent

-----------------------------------------------------------------------------
(* The history trim, for every history, all weights and all limits.          *)

(* The weight of turns is a sum.                                             *)
LEMMA TotalIsSum == \A w, S : Total(w, S) = SumOf(w, S)
BY SumIsFold DEF Total

(* The turns of the k oldest units.                                          *)
Oldest(k) == {t \in Nat : 2 <= t /\ t <= 2 * k + 1}

(* They are a stretch of the history.                                        *)
LEMMA OldestUnits ==
  ASSUME NEW k \in Nat
  PROVE  UNION {Unit(i) : i \in 1 .. k} = Oldest(k)
<1>1. ASSUME NEW t \in Oldest(k) PROVE t \in UNION {Unit(i) : i \in 1 .. k}
  <2> DEFINE i == t \div 2
  <2>1. i \in 1 .. k /\ (t = 2 * i \/ t = 2 * i + 1)
    BY DEF Oldest
  <2> QED
    BY <2>1 DEF Unit
<1>2. \A i \in 1 .. k : Unit(i) \subseteq Oldest(k)
  BY DEF Unit, Oldest
<1> QED
  BY <1>1, <1>2

(* What has become of a history: the pairs, and the weights of its turns.    *)
Weighed ==
  /\ pairs \in 0 .. MaxPairs
  /\ bytes \in [Turn \cup {NewTurn} -> Byte] /\ tokens \in [Turn \cup {NewTurn} -> Token]

(* One of the two weights.                                                   *)
Weight(w) == w = bytes \/ w = tokens

(* What is left without the k oldest units.                                  *)
LEMMA LeftIs ==
  ASSUME Weighed, NEW k \in Nat
  PROVE  /\ Left(k) = (History \ Oldest(k)) \cup {NewTurn}
         /\ IsFiniteSet(Left(k)) /\ Left(k) \subseteq Turn \cup {NewTurn}
<1>1. Left(k) = (History \ Oldest(k)) \cup {NewTurn}
  BY OldestUnits DEF Left
<1>2. pairs \in Nat /\ History \subseteq Turn /\ IsFiniteSet(History \cup {NewTurn})
  <2>1. pairs \in Nat /\ History \subseteq Turn
    BY TrimAssumption DEF Weighed, History, Turn
  <2>2. IsFiniteSet(History)
    BY <2>1, FS_Interval DEF History
  <2> QED
    BY <2>1, <2>2, FS_AddElement
<1>3. Left(k) \subseteq History \cup {NewTurn}
  BY <1>1
<1> QED
  BY <1>1, <1>2, <1>3, FS_Subset

(* The total of any turns is a natural number.                               *)
LEMMA TotalType ==
  ASSUME Weighed, NEW w, Weight(w), NEW S, S \subseteq Turn \cup {NewTurn}, IsFiniteSet(S)
  PROVE  NatOn(w, S) /\ Total(w, S) \in Nat
<1>1. NatOn(w, S)
  BY TrimAssumption DEF Weighed, Weight, NatOn
<1> QED
  BY <1>1, SumType, TotalIsSum

(* One more unit gone: what is left weighs less by that unit.                *)
LEMMA LeftShrinks ==
  ASSUME Weighed, NEW w, Weight(w), NEW k \in Nat, k + 1 \in Units
  PROVE  Total(w, Left(k)) = Total(w, Left(k + 1)) + Total(w, Unit(k + 1))
<1>1. pairs \in Nat /\ k + 1 <= pairs - 1 /\ pairs <= MaxPairs
  BY TrimAssumption DEF Weighed, Units
<1>2. Unit(k + 1) = {2 * k + 2, 2 * k + 3} /\ Unit(k + 1) \subseteq Turn
  BY <1>1, TrimAssumption DEF Unit, Turn
<1>3. IsFiniteSet(Unit(k + 1))
  BY PairFinite DEF Unit
<1>4. Left(k) = Left(k + 1) \cup Unit(k + 1) /\ Left(k + 1) \cap Unit(k + 1) = {}
  <2>1. /\ Left(k) = (History \ Oldest(k)) \cup {NewTurn}
        /\ Left(k + 1) = (History \ Oldest(k + 1)) \cup {NewTurn}
    BY LeftIs
  <2>2. Oldest(k + 1) = Oldest(k) \cup Unit(k + 1) /\ Oldest(k) \cap Unit(k + 1) = {}
    BY <1>2 DEF Oldest
  <2>3. Unit(k + 1) \subseteq History /\ NewTurn \notin Unit(k + 1)
    BY <1>1, <1>2 DEF History, NewTurn
  <2> QED
    BY <2>1, <2>2, <2>3
<1>5. IsFiniteSet(Left(k + 1)) /\ NatOn(w, Left(k + 1)) /\ NatOn(w, Unit(k + 1))
  <2>1. IsFiniteSet(Left(k + 1)) /\ Left(k + 1) \subseteq Turn \cup {NewTurn}
    BY LeftIs
  <2> QED
    BY <1>2, <1>3, <2>1, TotalType
<1>6. SumOf(w, Left(k + 1) \cup Unit(k + 1)) = SumOf(w, Left(k + 1)) + SumOf(w, Unit(k + 1))
  BY <1>3, <1>4, <1>5, SumSplits
<1> QED
  BY <1>4, <1>6, TotalIsSum

(* The more units are gone, the less is left.                                *)
LEMMA LeftFalls ==
  ASSUME Weighed, NEW w, Weight(w), NEW j \in Nat, NEW k \in Nat, j <= k
  PROVE  Total(w, Left(k)) \in Nat /\ Total(w, Left(j)) \in Nat
         /\ Total(w, Left(k)) <= Total(w, Left(j))
<1>1. /\ IsFiniteSet(Left(j)) /\ Left(j) \subseteq Turn \cup {NewTurn}
      /\ IsFiniteSet(Left(k)) /\ Left(k) \subseteq Turn \cup {NewTurn}
  BY LeftIs
<1>2. Left(k) \subseteq Left(j)
  <2>1. Oldest(j) \subseteq Oldest(k)
    BY DEF Oldest
  <2> QED
    BY <2>1, LeftIs
<1>3. NatOn(w, Left(j)) /\ NatOn(w, Left(k)) /\ Total(w, Left(k)) \in Nat /\ Total(w, Left(j)) \in Nat
  BY <1>1, TotalType
<1>4. SumOf(w, Left(k)) <= SumOf(w, Left(j))
  BY <1>1, <1>2, <1>3, SumBelow
<1> QED
  BY <1>3, <1>4, TotalIsSum

-----------------------------------------------------------------------------
(* The running total is the weight of what is left, and with fewer units     *)
(* gone the request was over a limit: the bytes in the first loop, one of    *)
(* both in the second, where the bytes stay below their limit.               *)
TrimInv ==
  /\ Weighed
  /\ phase \in {"size", "tokens", "ok", "refused"}
  /\ consumed \in Nat /\ consumed <= pairs /\ (consumed > 0 => consumed < pairs)
  /\ removed = Oldest(consumed)
  /\ phase = "size" => /\ remaining = Total(bytes, Left(consumed))
                       /\ \A k \in 0 .. consumed - 1 : Total(bytes, Left(k)) > SizeLimit
  /\ phase = "tokens" => /\ remaining = Total(tokens, Left(consumed))
                         /\ Total(bytes, Left(consumed)) <= SizeLimit
                         /\ \A k \in 0 .. consumed - 1 : ~Fits(k)
  /\ remaining \in Nat
  /\ LeastTrim

(* Every unit that could go is gone when a loop ends over its limit.         *)
LEMMA NoneLeft ==
  ASSUME TrimInv, consumed + 1 \notin Units, NEW k \in {0} \cup Units
  PROVE  k \in 0 .. consumed
BY TrimAssumption DEF TrimInv, Weighed, Units

(* Nothing is gone.                                                          *)
LEMMA TrimInvInitially == TrimInit => TrimInv
<1> SUFFICES ASSUME TrimInit PROVE TrimInv
  OBVIOUS
<1>1. Weighed
  BY DEF TrimInit, Weighed
<1>2. Oldest(0) = {}
  BY DEF Oldest
<1>3. Left(0) = History \cup {NewTurn}
  BY <1>1, <1>2, LeftIs
<1>4. Total(bytes, Left(0)) \in Nat
  BY <1>1, LeftFalls DEF Weight
<1>5. /\ phase = "size" /\ consumed = 0 /\ removed = {} /\ pairs \in Nat
      /\ remaining = Total(bytes, History \cup {NewTurn})
  BY TrimAssumption DEF TrimInit
<1>6. LeastTrim
  BY <1>5 DEF LeastTrim
<1> QED
  <2>1. consumed \in Nat /\ consumed <= pairs /\ ~(consumed > 0) /\ 0 .. consumed - 1 = {}
    BY <1>5
  <2>2. removed = Oldest(consumed) /\ remaining = Total(bytes, Left(consumed)) /\ remaining \in Nat
    BY <1>2, <1>3, <1>4, <1>5
  <2> QED
    BY <1>1, <1>5, <1>6, <2>1, <2>2 DEF TrimInv

(* A round of either loop takes the unit behind those that went, and the     *)
(* running total follows.                                                    *)
LEMMA CutKeeps ==
  ASSUME TrimInv, NEW w, Weight(w), remaining = Total(w, Left(consumed)), consumed + 1 \in Units,
         Cut(w)
  PROVE  /\ Weighed' /\ consumed' = consumed + 1 /\ consumed' \in Nat /\ consumed' < pairs'
         /\ removed' = Oldest(consumed') /\ phase' = phase
         /\ remaining' = Total(w, Left(consumed + 1)) /\ remaining' \in Nat
         /\ UNCHANGED <<pairs, bytes, tokens>>
<1>0. Weighed /\ consumed \in Nat /\ pairs \in Nat
  BY TrimAssumption DEF TrimInv, Weighed
<1>1. UNCHANGED <<pairs, bytes, tokens, phase>> /\ consumed' = consumed + 1
  BY DEF Cut, input
<1>2. Weighed'
  BY <1>0, <1>1 DEF Weighed, Turn
<1>3. Oldest(consumed + 1) = Oldest(consumed) \cup Unit(consumed + 1)
  BY <1>0 DEF Oldest, Unit
<1>4. Total(w, Left(consumed)) = Total(w, Left(consumed + 1)) + Total(w, Unit(consumed + 1))
  BY <1>0, LeftShrinks
<1>5. Total(w, Left(consumed + 1)) \in Nat /\ Total(w, Left(consumed)) \in Nat
  BY <1>0, LeftFalls
<1>6. Total(w, Unit(consumed + 1)) \in Nat
  <2>1. Unit(consumed + 1) \subseteq Turn
    BY <1>0, TrimAssumption DEF Unit, Units, Turn, Weighed
  <2>2. IsFiniteSet(Unit(consumed + 1))
    BY PairFinite DEF Unit
  <2> QED
    BY <1>0, <2>1, <2>2, TotalType
<1> QED
  BY <1>0, <1>1, <1>2, <1>3, <1>4, <1>5, <1>6 DEF Cut, TrimInv, Units

(* Every round, and the end of each loop.                                    *)
LEMMA TrimInvStep == TrimInv /\ [TrimNext]_trimVars => TrimInv'
<1> SUFFICES ASSUME TrimInv, [TrimNext]_trimVars PROVE TrimInv'
  OBVIOUS
<1>0. /\ Weighed /\ consumed \in Nat /\ pairs \in Nat /\ SizeLimit \in Nat /\ TokenLimit \in Nat
      /\ consumed <= pairs /\ (consumed > 0 => consumed < pairs)
  BY TrimAssumption DEF TrimInv, Weighed
<1>1. CASE SizeCut
  <2>1. /\ phase = "size" /\ remaining = Total(bytes, Left(consumed)) /\ remaining > SizeLimit
        /\ consumed + 1 \in Units /\ Cut(bytes)
        /\ \A k \in 0 .. consumed - 1 : Total(bytes, Left(k)) > SizeLimit
    BY <1>1 DEF TrimInv, SizeCut, Over
  <2>2. /\ Weighed' /\ consumed' = consumed + 1 /\ consumed' \in Nat /\ consumed' < pairs'
        /\ removed' = Oldest(consumed') /\ phase' = phase
        /\ remaining' = Total(bytes, Left(consumed + 1)) /\ remaining' \in Nat
        /\ UNCHANGED <<pairs, bytes, tokens>>
    BY <2>1, CutKeeps DEF Weight
  <2>3. \A k \in Nat : Left(k)' = Left(k)
    BY <2>2 DEF Left, History
  <2>4. \A k \in 0 .. consumed' - 1 : Total(bytes, Left(k)) > SizeLimit
    BY <1>0, <2>1, <2>2
  <2>5. (\A k \in 0 .. consumed - 1 : Total(bytes, Left(k)) > SizeLimit)'
    BY <1>0, <2>2, <2>3, <2>4
  <2> QED
    BY <1>0, <2>1, <2>2, <2>3, <2>5 DEF TrimInv, LeastTrim
<1>2. CASE TokenCut
  <2>1. /\ phase = "tokens" /\ remaining = Total(tokens, Left(consumed)) /\ remaining > TokenLimit
        /\ consumed + 1 \in Units /\ Cut(tokens) /\ Total(bytes, Left(consumed)) <= SizeLimit
        /\ \A k \in 0 .. consumed - 1 : ~Fits(k)
    BY <1>2 DEF TrimInv, TokenCut, Over
  <2>2. /\ Weighed' /\ consumed' = consumed + 1 /\ consumed' \in Nat /\ consumed' < pairs'
        /\ removed' = Oldest(consumed') /\ phase' = phase
        /\ remaining' = Total(tokens, Left(consumed + 1)) /\ remaining' \in Nat
        /\ UNCHANGED <<pairs, bytes, tokens>>
    BY <2>1, CutKeeps DEF Weight
  <2>3. \A k \in Nat : Left(k)' = Left(k) /\ Fits(k)' = Fits(k)
    BY <2>2 DEF Left, History, Fits
  <2>4. ~Fits(consumed)
    BY <1>0, <2>1, LeftFalls DEF Fits, Weight
  <2>5. (\A k \in 0 .. consumed - 1 : ~Fits(k))'
    BY <1>0, <2>1, <2>2, <2>3, <2>4
  <2>6. Total(bytes, Left(consumed + 1)) <= SizeLimit
    <3>1. Total(bytes, Left(consumed + 1)) <= Total(bytes, Left(consumed))
          /\ Total(bytes, Left(consumed + 1)) \in Nat /\ Total(bytes, Left(consumed)) \in Nat
      BY <1>0, LeftFalls DEF Weight
    <3> QED
      BY <1>0, <2>1, <3>1
  <2> QED
    BY <1>0, <2>1, <2>2, <2>3, <2>5, <2>6 DEF TrimInv, LeastTrim
<1>3. ASSUME UNCHANGED <<pairs, bytes, tokens, consumed, removed>> PROVE
      /\ Weighed' /\ \A k \in Nat : Left(k)' = Left(k) /\ Fits(k)' = Fits(k)
  BY <1>0, <1>3 DEF Weighed, Turn, Left, History, Fits
<1>4. CASE SizeDone
  <2>0. UNCHANGED <<pairs, bytes, tokens, consumed, removed>>
    BY <1>4 DEF SizeDone, input
  <2>1. /\ phase = "size" /\ remaining = Total(bytes, Left(consumed))
        /\ \A k \in 0 .. consumed - 1 : Total(bytes, Left(k)) > SizeLimit
    BY <1>4 DEF SizeDone, TrimInv
  <2>2. \A k \in 0 .. consumed - 1 : ~Fits(k)
    <3> SUFFICES ASSUME NEW k \in 0 .. consumed - 1 PROVE ~Fits(k)
      OBVIOUS
    <3>1. Total(bytes, Left(k)) \in Nat
      BY <1>0, LeftFalls DEF Weight
    <3> QED
      BY <1>0, <2>1, <3>1 DEF Fits
  <2>3. Weighed' /\ \A k \in Nat : Left(k)' = Left(k) /\ Fits(k)' = Fits(k)
    BY <2>0, <1>3
  <2>4. Total(bytes, Left(consumed)) \in Nat /\ Total(tokens, Left(consumed)) \in Nat
    BY <1>0, LeftFalls DEF Weight
  <2>5. CASE remaining > SizeLimit
    <3>1. phase' = "refused" /\ remaining' = remaining /\ consumed + 1 \notin Units
      BY <1>4, <2>5 DEF SizeDone, Over
    <3>2. ~Fits(consumed)
      BY <1>0, <2>1, <2>4, <2>5 DEF Fits
    <3>3. \A k \in {0} \cup Units : ~Fits(k)
      BY <1>0, <2>2, <3>1, <3>2, NoneLeft
    <3>4. LeastTrim'
      <4>1. Units' = Units /\ {0} \cup Units \subseteq Nat
        BY <1>0, <2>0 DEF Units
      <4> QED
        BY <2>3, <3>1, <3>3, <4>1 DEF LeastTrim
    <3> QED
      BY <1>0, <2>0, <2>1, <2>3, <2>4, <3>1, <3>4 DEF TrimInv
  <2>6. CASE ~(remaining > SizeLimit)
    <3>1. phase' = "tokens" /\ remaining' = Total(tokens, (History \ removed) \cup {NewTurn})
      BY <1>4, <2>6 DEF SizeDone
    <3>2. (History \ removed) \cup {NewTurn} = Left(consumed)
      BY <1>0, LeftIs DEF TrimInv
    <3>3. Total(bytes, Left(consumed)) <= SizeLimit
      BY <1>0, <2>1, <2>4, <2>6
    <3>4. (\A k \in 0 .. consumed - 1 : ~Fits(k))'
      BY <1>0, <2>0, <2>2, <2>3
    <3> QED
      BY <1>0, <2>0, <2>3, <2>4, <3>1, <3>2, <3>3, <3>4 DEF TrimInv, LeastTrim
  <2> QED
    BY <2>5, <2>6
<1>5. CASE TokensDone
  <2>0. UNCHANGED <<pairs, bytes, tokens, consumed, removed>> /\ remaining' = remaining
    BY <1>5 DEF TokensDone, input
  <2>1. /\ phase = "tokens" /\ remaining = Total(tokens, Left(consumed))
        /\ Total(bytes, Left(consumed)) <= SizeLimit /\ \A k \in 0 .. consumed - 1 : ~Fits(k)
    BY <1>5 DEF TokensDone, TrimInv
  <2>3. Weighed' /\ \A k \in Nat : Left(k)' = Left(k) /\ Fits(k)' = Fits(k)
    BY <2>0, <1>3
  <2>4. Total(bytes, Left(consumed)) \in Nat /\ Total(tokens, Left(consumed)) \in Nat
    BY <1>0, LeftFalls DEF Weight
  <2>5. CASE remaining > TokenLimit
    <3>1. phase' = "refused" /\ consumed + 1 \notin Units
      BY <1>5, <2>5 DEF TokensDone, Over
    <3>2. ~Fits(consumed)
      BY <1>0, <2>1, <2>4, <2>5 DEF Fits
    <3>3. \A k \in {0} \cup Units : ~Fits(k)
      BY <1>0, <2>1, <3>1, <3>2, NoneLeft
    <3>4. LeastTrim'
      <4>1. Units' = Units /\ {0} \cup Units \subseteq Nat
        BY <1>0, <2>0 DEF Units
      <4> QED
        BY <2>3, <3>1, <3>3, <4>1 DEF LeastTrim
    <3> QED
      BY <1>0, <2>0, <2>1, <2>3, <2>4, <3>1, <3>4 DEF TrimInv
  <2>6. CASE ~(remaining > TokenLimit)
    <3>1. phase' = "ok"
      BY <1>5, <2>6 DEF TokensDone
    <3>2. Fits(consumed)
      BY <1>0, <2>1, <2>4, <2>6 DEF Fits
    <3>3. removed = UNION {Unit(i) : i \in 1 .. consumed}
      BY <1>0, OldestUnits DEF TrimInv
    <3>4. (\A k \in 0 .. consumed - 1 : ~Fits(k))' /\ Fits(consumed)'
      BY <1>0, <2>0, <2>1, <2>3, <3>2
    <3>5. LeastTrim'
      BY <2>0, <3>1, <3>3, <3>4 DEF LeastTrim
    <3> QED
      BY <1>0, <2>0, <2>3, <2>4, <3>1, <3>5 DEF TrimInv
  <2> QED
    BY <2>5, <2>6
<1>6. CASE UNCHANGED trimVars
  <2>1. UNCHANGED <<pairs, bytes, tokens, consumed, removed, phase, remaining>>
    BY <1>6 DEF trimVars, input
  <2>2. Weighed' /\ \A k \in Nat : Left(k)' = Left(k) /\ Fits(k)' = Fits(k)
    BY <2>1, <1>3
  <2> QED
    BY <1>0, <2>1, <2>2 DEF TrimInv, LeastTrim, Units
<1> QED
  BY <1>1, <1>2, <1>4, <1>5, <1>6 DEF TrimNext

(* The oldest units hold neither the first user turn nor the final model     *)
(* turn, and always both halves of a unit.                                   *)
LEMMA OldestKeepsEnds == TrimInv => ProtectedKept /\ TrimTypeOK
<1> SUFFICES ASSUME TrimInv PROVE ProtectedKept /\ TrimTypeOK
  OBVIOUS
<1>1. /\ pairs \in Nat /\ consumed \in Nat /\ pairs <= MaxPairs /\ MaxPairs \in Nat
      /\ consumed <= pairs /\ (consumed > 0 => consumed < pairs)
      /\ removed = {t \in Nat : 2 <= t /\ t <= 2 * consumed + 1}
  BY TrimAssumption DEF TrimInv, Weighed, Oldest
<1>2. removed \subseteq History
  BY <1>1 DEF History
<1>3. pairs > 0 => 1 \notin removed /\ 2 * pairs \notin removed
  BY <1>1
<1>4. \A i \in Units : 2 * i \in removed <=> 2 * i + 1 \in removed
  BY <1>1 DEF Units
<1>5. TrimTypeOK
  <2>1. History \subseteq Turn
    BY <1>1 DEF History, Turn
  <2> QED
    BY <1>1, <1>2, <2>1 DEF TrimInv, Weighed, TrimTypeOK
<1> QED
  BY <1>2, <1>3, <1>4, <1>5 DEF ProtectedKept

(* removeWhileOver never takes the first user turn or the final model turn,  *)
(* nor half of a pair, for every history and every limit.                    *)
THEOREM EndsAreKept == TrimSpec => [](ProtectedKept /\ TrimTypeOK)
BY OldestKeepsEnds, TrimInvInitially, TrimInvStep, PTL DEF TrimSpec

(* For every history, all weights and limits: the trim removes the fewest    *)
(* of the oldest units that make the request fit both limits, and refuses    *)
(* only what no trim would make fit (trimHistory).                           *)
THEOREM HistoryIsTrimmedLeast == TrimSpec => []LeastTrim
<1>1. TrimInv => LeastTrim
  BY DEF TrimInv
<1> QED
  BY <1>1, TrimInvInitially, TrimInvStep, PTL DEF TrimSpec

-----------------------------------------------------------------------------
(* What one call of a text model may cost, for any number of posts and any   *)
(* budgets of which the one for policy errors is the wide one (the defaults  *)
(* of withRetry).                                                            *)

Request ==
  [at : {"none", "sent", "calling", "backoff", "result", "error", "gone"},
   model : {"primary", "alt"}, attempt : Nat, last : Failure \union {"none"}, calls : Nat, hung : Nat]

Fresh(r) == r.model = "primary" /\ r.attempt = 0 /\ r.calls = 0 /\ r.hung = 0

(* A request of the configured model: every attempt was one call, and only   *)
(* those before the small budget's end may have hung and gone on.            *)
Primary(r) ==
  /\ r.calls = r.attempt /\ r.attempt <= MaxPolicyRetries /\ r.hung <= MaxRetries
  /\ r.at = "calling" => r.attempt >= 1 /\ r.hung < r.attempt /\ r.hung < MaxRetries
  /\ r.at = "backoff" => r.hung <= r.attempt /\ r.hung < MaxRetries /\ r.attempt < MaxPolicyRetries

(* A request of the other model: a budget of the configured one was spent.   *)
Other(r) ==
  /\ r.attempt <= AltRetries /\ r.attempt <= r.calls
  /\ MaxRetries <= r.calls - r.attempt /\ r.calls - r.attempt <= MaxPolicyRetries
  /\ r.at = "backoff" => r.attempt < AltRetries

Sound(r) ==
  /\ r \in Request
  /\ r.at \in {"none", "sent"} => Fresh(r)
  /\ IF r.model = "primary" THEN Primary(r) ELSE Other(r)

CallInv ==
  /\ client \in {"waiting", "backoff", "answered", "failed"}
  /\ posts \in Post /\ (client = "backoff" => posts < ClientAttempts)
  /\ heard \subseteq {posts} /\ (client \in {"waiting", "backoff"} => heard = {})
  /\ DOMAIN req = Post /\ \A i \in Post : Sound(req[i]) /\ (i > posts => req[i].at = "none")

WideBudget == MaxRetries <= MaxPolicyRetries

LEMMA Budgets ==
  /\ ClientAttempts \in Nat \ {0} /\ MaxRetries \in Nat \ {0}
  /\ MaxPolicyRetries \in Nat \ {0} /\ AltRetries \in Nat \ {0}
BY CallAssumption

(* The next attempt after a backoff, or the first one.                       *)
LEMMA AskingSound ==
  ASSUME NEW r, Sound(r), r.at \in {"sent", "backoff"}
  PROVE  Sound(Asking(r)) /\ Asking(r).at = "calling"
<1> DEFINE s == Asking(r)
<1>1. r \in Request
  BY DEF Sound
<1>2. /\ s \in Request /\ s.at = "calling" /\ s.model = r.model /\ s.attempt = r.attempt + 1
      /\ s.calls = r.calls + 1 /\ s.hung = r.hung
  <2> DEFINE once == [r EXCEPT !.at = "calling"]
             twice == [once EXCEPT !.attempt = r.attempt + 1]
  <2>1. /\ once \in Request /\ once.at = "calling" /\ once.model = r.model
        /\ once.calls = r.calls /\ once.hung = r.hung /\ r.attempt + 1 \in Nat /\ r.calls + 1 \in Nat
    BY <1>1 DEF Request
  <2>2. /\ twice \in Request /\ twice.at = "calling" /\ twice.model = r.model
        /\ twice.attempt = r.attempt + 1 /\ twice.calls = r.calls /\ twice.hung = r.hung
    <3> HIDE DEF once
    <3> QED
      BY <2>1 DEF Request
  <2>3. s = [twice EXCEPT !.calls = r.calls + 1]
    BY DEF Asking
  <2> HIDE DEF twice
  <2> QED
    BY <2>1, <2>2, <2>3 DEF Request
<1>3. CASE r.model = "primary"
  BY <1>1, <1>2, <1>3, Budgets DEF Sound, Primary, Fresh, Request
<1>4. CASE r.model = "alt"
  <2>1. r.at = "backoff" /\ Other(r)
    BY <1>4 DEF Sound, Fresh
  <2>2. Other(s)
    BY <1>1, <1>2, <2>1, Budgets DEF Other, Request
  <2> QED
    BY <1>2, <1>4, <2>2 DEF Sound
<1> QED
  BY <1>1, <1>3, <1>4 DEF Request

(* A failed call goes on, falls back to the other model, or ends.            *)
LEMMA FailedSound ==
  ASSUME WideBudget, NEW r, Sound(r), r.at = "calling", NEW failure \in Failure
  PROVE  Sound(Failed(r, failure)) /\ Failed(r, failure).at # "none"
<1> DEFINE hung == IF failure = "transport" THEN r.hung + 1 ELSE r.hung
           noted == [r EXCEPT !.last = failure,
                              !.hung = IF failure = "transport" THEN @ + 1 ELSE @]
           s == Failed(r, failure)
<1>0. r \in Request /\ hung \in Nat /\ hung <= r.hung + 1 /\ hung >= r.hung
      /\ (failure # "transport" => hung = r.hung)
  BY DEF Sound, Request
<1>1. r \in Request /\ noted \in Request /\ hung \in Nat /\ hung <= r.hung + 1
      /\ (failure # "transport" => hung = r.hung)
      /\ noted.at = r.at /\ noted.model = r.model /\ noted.attempt = r.attempt
      /\ noted.calls = r.calls /\ noted.hung = hung
  <2> DEFINE once == [r EXCEPT !.last = failure]
  <2>1. once \in Request /\ once.at = r.at /\ once.model = r.model /\ once.attempt = r.attempt
        /\ once.calls = r.calls
    BY <1>0 DEF Request
  <2>2. noted = [once EXCEPT !.hung = hung]
    OBVIOUS
  <2> HIDE DEF once, noted, hung
  <2> QED
    BY <1>0, <2>1, <2>2 DEF Request
<1>2. noted.at = r.at /\ noted.model = r.model /\ noted.attempt = r.attempt
      /\ noted.calls = r.calls /\ noted.hung = hung
  BY <1>1
<1> HIDE DEF hung
<1>3. CASE GoesOn(r, failure)
  <2>1. s = [noted EXCEPT !.at = "backoff"]
    BY <1>3 DEF Failed
  <2>2. s \in Request /\ s.at = "backoff" /\ s.model = r.model /\ s.attempt = r.attempt
        /\ s.calls = r.calls /\ s.hung = hung
    BY <1>1, <1>2, <2>1 DEF Request
  <2>3. CASE r.model = "primary"
    <3>1. r.attempt < MaxPolicyRetries /\ (failure = "transport" => r.attempt < MaxRetries)
      BY <1>1, <1>3, <2>3, Budgets DEF GoesOn, Budget, WideBudget, Request
    <3>2. Primary(s)
      BY <1>1, <2>2, <2>3, <3>1, Budgets DEF Primary, Sound, Request
    <3> QED
      BY <2>2, <2>3, <3>2 DEF Sound
  <2>4. CASE r.model = "alt"
    <3>1. Other(s)
      BY <1>1, <1>3, <2>2, <2>4, Budgets DEF Other, Sound, GoesOn, Budget, Request
    <3> QED
      BY <2>2, <2>4, <3>1 DEF Sound
  <2> QED
    BY <1>1, <2>2, <2>3, <2>4 DEF Request
<1>4. CASE ~GoesOn(r, failure) /\ Falls(r, failure)
  <2>1. s = AskingOther(noted) /\ r.model = "primary" /\ failure \in {"policy", "incomplete"}
    BY <1>4 DEF Failed, Falls
  <2>2. s \in Request /\ s.at = "calling" /\ s.model = "alt" /\ s.attempt = 1
        /\ s.calls = r.calls + 1
    <3> DEFINE a == [noted EXCEPT !.at = "calling"]
               b == [a EXCEPT !.model = "alt"]
               c == [b EXCEPT !.attempt = 1]
    <3>1. a \in Request /\ a.at = "calling" /\ a.calls = r.calls /\ r.calls + 1 \in Nat
      <4> HIDE DEF noted
      <4> QED
        BY <1>1 DEF Request
    <3>2. b \in Request /\ b.at = "calling" /\ b.model = "alt" /\ b.calls = r.calls
      <4> HIDE DEF a
      <4> QED
        BY <3>1 DEF Request
    <3>3. c \in Request /\ c.at = "calling" /\ c.model = "alt" /\ c.attempt = 1
          /\ c.calls = r.calls
      <4> HIDE DEF b
      <4> QED
        BY <3>2 DEF Request
    <3>4. s = [c EXCEPT !.calls = r.calls + 1]
      BY <1>2, <2>1 DEF AskingOther
    <3> HIDE DEF c, s
    <3> QED
      BY <3>1, <3>3, <3>4 DEF Request
  <2>3. MaxRetries <= r.attempt
    BY <1>1, <1>4, <2>1, Budgets DEF GoesOn, Budget, WideBudget, Request
  <2>4. Primary(r)
    BY <2>1 DEF Sound
  <2>5. r.calls = r.attempt /\ r.attempt <= MaxPolicyRetries
    BY <2>4 DEF Primary
  <2>6. Other(s)
    BY <1>1, <2>2, <2>3, <2>5, Budgets DEF Other, Request
  <2> QED
    BY <2>2, <2>6 DEF Sound
<1>5. CASE ~GoesOn(r, failure) /\ ~Falls(r, failure)
  <2>1. s = [noted EXCEPT !.at = "error"]
    BY <1>5 DEF Failed
  <2>2. s \in Request /\ s.at = "error" /\ s.model = r.model /\ s.attempt = r.attempt
        /\ s.calls = r.calls /\ s.hung = hung
    BY <1>1, <1>2, <2>1 DEF Request
  <2>3. CASE r.model = "primary"
    <3>1. Primary(s)
      BY <1>1, <2>2, <2>3, Budgets DEF Primary, Sound, Request
    <3> QED
      BY <2>2, <2>3, <3>1 DEF Sound
  <2>4. CASE r.model = "alt"
    <3>1. Other(s)
      BY <1>1, <2>2, <2>4 DEF Other, Sound
    <3> QED
      BY <2>2, <2>4, <3>1 DEF Sound
  <2> QED
    BY <1>1, <2>2, <2>3, <2>4 DEF Request
<1> QED
  BY <1>3, <1>4, <1>5

(* A request that is over keeps what it cost.                                *)
LEMMA EndSound ==
  ASSUME NEW r, Sound(r), NEW at \in {"result", "error", "gone"}
  PROVE  Sound([r EXCEPT !.at = at]) /\ [r EXCEPT !.at = at].at = at
<1> DEFINE s == [r EXCEPT !.at = at]
<1>1. r \in Request
  BY DEF Sound
<1>2. s \in Request /\ s.at = at /\ s.model = r.model /\ s.attempt = r.attempt
      /\ s.calls = r.calls /\ s.hung = r.hung
  BY <1>1 DEF Request
<1> QED
  BY <1>2 DEF Sound, Primary, Other

(* A step of one request that was posted.                                    *)
LEMMA OneRequest ==
  ASSUME CallInv, NEW i \in Post, NEW s, Sound(s), req[i].at # "none",
         req' = [req EXCEPT ![i] = s], UNCHANGED <<client, posts, heard>>
  PROVE  CallInv'
<1>1. i <= posts
  BY Budgets DEF CallInv, Post
<1>2. DOMAIN req' = Post /\ \A j \in Post : req'[j] = IF j = i THEN s ELSE req[j]
  BY DEF CallInv
<1>3. \A j \in Post : Sound(req'[j]) /\ (j > posts => req'[j].at = "none")
  BY <1>1, <1>2, Budgets DEF CallInv, Post
<1> QED
  BY <1>2, <1>3 DEF CallInv

LEMMA CallInvInitially == WideBudget /\ CallInit => CallInv
<1> SUFFICES ASSUME WideBudget, CallInit PROVE CallInv
  OBVIOUS
<1>1. \A i \in Post : /\ req[i] \in Request /\ Fresh(req[i])
                      /\ req[i].at = IF i = 1 THEN "sent" ELSE "none"
  BY DEF CallInit, Idle, Request, Fresh
<1>2. \A i \in Post : Sound(req[i])
  BY <1>1, Budgets DEF Sound, Fresh, Primary
<1> QED
  BY <1>1, <1>2, Budgets DEF CallInit, CallInv, Post

LEMMA CallInvStep == WideBudget /\ CallInv /\ [CallNext]_callVars => CallInv'
<1> SUFFICES ASSUME WideBudget, CallInv, [CallNext]_callVars PROVE CallInv'
  OBVIOUS
<1>1. ASSUME NEW i \in Post, Serves(i) PROVE CallInv'
  <2>0. Sound(req[i])
    BY DEF CallInv
  <2>1. CASE Arrives(i) \/ BackoffEnds(i)
    <3>1. req[i].at \in {"sent", "backoff"} /\ req' = [req EXCEPT ![i] = Asking(req[i])]
      BY <2>1 DEF Arrives, BackoffEnds
    <3>2. Sound(Asking(req[i]))
      BY <2>0, <3>1, AskingSound
    <3> QED
      BY <2>1, <3>1, <3>2, OneRequest DEF Arrives, BackoffEnds
  <2>2. CASE Rejected(i) \/ ProviderAnswers(i)
    <3>1. PICK at \in {"result", "error"} : req' = [req EXCEPT ![i].at = at]
      BY <2>2 DEF Rejected, ProviderAnswers
    <3>2. req' = [req EXCEPT ![i] = [req[i] EXCEPT !.at = at]]
      BY <3>1
    <3>3. Sound([req[i] EXCEPT !.at = at])
      BY <2>0, EndSound
    <3> QED
      BY <2>2, <3>2, <3>3, OneRequest DEF Rejected, ProviderAnswers
  <2>3. CASE ProviderFails(i)
    <3>1. PICK failure \in Failure : req' = [req EXCEPT ![i] = Failed(req[i], failure)]
      BY <2>3 DEF ProviderFails
    <3>2. Sound(Failed(req[i], failure))
      BY <2>0, <2>3, FailedSound DEF ProviderFails
    <3> QED
      BY <2>3, <3>1, <3>2, OneRequest DEF ProviderFails
  <2> QED
    BY <1>1, <2>1, <2>2, <2>3 DEF Serves
<1>2. CASE Replied
  BY <1>2 DEF Replied, CallInv
<1>3. CASE ConnectionDrops
  <2>1. posts \in Post /\ client' \in {"backoff", "failed"} /\ posts' = posts /\ heard' = heard /\ heard = {}
        /\ (client' = "backoff" => posts' < ClientAttempts)
    BY <1>3 DEF ConnectionDrops, Unheard, CallInv
  <2>2. Sound([req[posts] EXCEPT !.at = "gone"])
    <3>1. Sound(req[posts])
      BY <2>1 DEF CallInv
    <3> QED
      BY <3>1, EndSound
  <2>3. DOMAIN req' = Post
    BY <1>3 DEF ConnectionDrops, CallInv
  <2>4. \A i \in Post : Sound(req'[i]) /\ (i > posts => req'[i].at = "none")
    <3>1. CASE req' = req
      BY <3>1 DEF CallInv
    <3>2. CASE req' = [req EXCEPT ![posts].at = "gone"]
      <4>1. \A i \in Post : req'[i] = IF i = posts THEN [req[posts] EXCEPT !.at = "gone"] ELSE req[i]
        BY <2>1, <3>2 DEF CallInv
      <4> QED
        BY <2>1, <2>2, <4>1, Budgets DEF CallInv, Post
    <3> QED
      BY <1>3, <3>1, <3>2 DEF ConnectionDrops
  <2> QED
    BY <2>1, <2>3, <2>4 DEF CallInv
<1>4. CASE ServerRestarts
  <2>1. DOMAIN req' = Post /\ \A i \in Post : req'[i] = IF req[i].at = "none" THEN req[i]
                                                       ELSE [req[i] EXCEPT !.at = "gone"]
    BY <1>4 DEF ServerRestarts
  <2>2. ASSUME NEW i \in Post
        PROVE  Sound(req'[i]) /\ (i > posts => req'[i].at = "none")
    <3>1. Sound(req[i]) /\ (i > posts => req[i].at = "none")
      BY DEF CallInv
    <3>2. Sound([req[i] EXCEPT !.at = "gone"])
      BY <3>1, EndSound
    <3> QED
      BY <2>1, <3>1, <3>2
  <2> QED
    BY <1>4, <2>1, <2>2 DEF ServerRestarts, Unheard, CallInv
<1>5. CASE PostsAgain
  <2>1. posts \in Nat /\ posts' = posts + 1 /\ posts' \in Post /\ heard' = {} /\ client' = "waiting"
        /\ req' = [req EXCEPT ![posts'].at = "sent"]
    BY <1>5, Budgets DEF PostsAgain, CallInv, Post
  <2>2. DOMAIN req' = Post /\ \A i \in Post : req'[i] = IF i = posts' THEN [req[i] EXCEPT !.at = "sent"]
                                                       ELSE req[i]
    BY <2>1 DEF CallInv
  <2>3. req[posts'].at = "none" /\ Sound(req[posts']) /\ Fresh(req[posts'])
    BY <2>1 DEF CallInv, Sound
  <2>4. Sound([req[posts'] EXCEPT !.at = "sent"])
    <3> DEFINE r == req[posts']
               s == [r EXCEPT !.at = "sent"]
    <3>1. r \in Request
      BY <2>3 DEF Sound
    <3>2. s \in Request /\ s.at = "sent" /\ s.model = r.model /\ s.attempt = r.attempt
          /\ s.calls = r.calls /\ s.hung = r.hung
      BY <3>1 DEF Request
    <3> QED
      BY <2>3, <3>2 DEF Sound, Fresh, Primary
  <2>5. \A i \in Post : Sound(req'[i]) /\ (i > posts' => req'[i].at = "none")
    BY <2>1, <2>2, <2>4 DEF CallInv, Post
  <2> QED
    BY <2>1, <2>2, <2>5 DEF CallInv
<1>6. CASE UNCHANGED callVars
  BY <1>6 DEF callVars, CallInv
<1> QED
  BY <1>1, <1>2, <1>3, <1>4, <1>5, <1>6 DEF CallNext

LEMMA CallInvBounds == CallInv => CostIsBounded
<1> SUFFICES ASSUME CallInv PROVE CostIsBounded
  OBVIOUS
<1>1. \A i \in heard : i = posts /\ client \in {"answered", "failed"}
  BY DEF CallInv
<1>2. \A i \in 1..posts : i \in Post /\ Sound(req[i]) /\ req[i] \in Request
  BY Budgets DEF CallInv, Post, Sound
<1>3. ASSUME NEW i \in 1..posts
      PROVE  LET first == IF req[i].model = "alt" THEN req[i].calls - req[i].attempt ELSE req[i].calls
             IN  /\ first <= MaxPolicyRetries
                 /\ req[i].model = "alt" => MaxRetries <= first /\ req[i].attempt <= AltRetries
                 /\ req[i].model = "primary" => req[i].hung <= MaxRetries
  <2>1. CASE req[i].model = "primary"
    BY <1>2, <2>1 DEF Sound, Primary
  <2>2. CASE req[i].model = "alt"
    BY <1>2, <2>2 DEF Sound, Other
  <2> QED
    BY <1>2, <2>1, <2>2 DEF Request
<1> QED
  BY <1>1, <1>3 DEF CostIsBounded

(* Whatever the order of failures, drops and restarts: a post that was       *)
(* answered is the last one, each post asks the configured model within the  *)
(* wide budget, and the other one only after a budget was spent.             *)
THEOREM CostStaysBounded == WideBudget => (CallSpec => []CostIsBounded)
<1> SUFFICES ASSUME WideBudget PROVE CallSpec => []CostIsBounded
  OBVIOUS
<1>1. CallInit => CallInv
  BY CallInvInitially
<1>2. CallInv /\ [CallNext]_callVars => CallInv'
  BY CallInvStep
<1>3. CallInv => CostIsBounded
  BY CallInvBounds
<1> QED
  BY <1>1, <1>2, <1>3, PTL DEF CallSpec
=============================================================================
