----------------------------- MODULE StreamsProofs -----------------------------
(***************************************************************************)
(* Proofs about pipes (pipe.c) and console input (console.c), for any      *)
(* number of processes and any sizes of the buffers and of a uint that     *)
(* divide: each ring implements its abstract queue over every wrap-around, *)
(* and nobody sleeps without reason.  With module FileTableProofs they     *)
(* give the properties of all that read() and write() work on.             *)
(***************************************************************************)
EXTENDS MCStreams, SequenceTheorems, WellFoundedInduction, TLAPS

-----------------------------------------------------------------------------
(* Arithmetic modulo u.                                                    *)
LEMMA ModLow == ASSUME NEW u \in Nat \ {0}, NEW a \in 0 .. u - 1 PROVE a % u = a
  BY SMT

(* One turn too far.                                                       *)
LEMMA ModUp == ASSUME NEW u \in Nat \ {0}, NEW a \in u .. u + u - 1 PROVE a % u = a - u
  BY SMT

(* One turn too short.                                                     *)
LEMMA ModNeg == ASSUME NEW u \in Nat \ {0}, NEW a \in -u .. -1 PROVE a % u = a + u
  BY SMT

(* A remainder is less than u.                                             *)
LEMMA ModType == ASSUME NEW u \in Nat \ {0}, NEW a \in Int PROVE a % u \in 0 .. u - 1
  BY SMT

(* Quotient and remainder.                                                 *)
LEMMA ModDiv ==
  ASSUME NEW u \in Nat \ {0}, NEW a \in Nat
  PROVE  \E q \in Nat : a = q * u + (a % u)
<1>1. a = u * (a \div u) + (a % u)
  BY SMT
<1>2. a \div u \in Nat
  BY SMT
<1> DEFINE q == a \div u
<1>3. a = q * u + (a % u)
  BY <1>1, <1>2
<1> QED
  BY <1>2, <1>3, Zenon

(* They are unique.                                                        *)
LEMMA ModUnique ==
  ASSUME NEW u \in Nat \ {0}, NEW q \in Nat, NEW s \in 0 .. u - 1
  PROVE  (q * u + s) % u = s
  BY SMT

(* Adding less than u wraps around at most once.                           *)
LEMMA ModAdd ==
  ASSUME NEW u \in Nat \ {0}, NEW a \in Nat, NEW i \in 0 .. u
  PROVE  (a + i) % u = IF (a % u) + i < u THEN (a % u) + i ELSE (a % u) + i - u
<1>1. PICK q \in Nat : a = q * u + (a % u)
  BY ModDiv, Zenon
<1> DEFINE m == a % u
<1>2. m \in 0 .. u - 1
  BY ModType
<1> HIDE DEF m
<1>3. CASE m + i < u
  <2>1. m + i \in 0 .. u - 1
    BY <1>2, <1>3
  <2>2. (q * u + (m + i)) % u = m + i
    BY <2>1, ModUnique
  <2>3. a + i = q * u + (m + i)
    BY <1>1, <1>2 DEF m
  <2> QED
    BY <1>3, <2>2, <2>3 DEF m
<1>4. CASE ~(m + i < u)
  <2> DEFINE s == m + i - u
             t == q + 1
  <2>1. s \in 0 .. u - 1 /\ t \in Nat
    BY <1>2, <1>4
  <2>2. a + i = t * u + s
    <3>1. t * u = q * u + u
      OBVIOUS
    <3>2. a \in Int /\ i \in Int /\ u \in Int /\ m \in Int /\ q * u \in Int
      BY <1>2
    <3> QED
      BY <1>1, <3>1, <3>2 DEF m
  <2>3. (t * u + s) % u = s
    <3> HIDE DEF s, t
    <3> QED
      BY <2>1, ModUnique
  <2> QED
    BY <1>4, <2>2, <2>3 DEF m
<1> QED
  BY <1>3, <1>4

(* A multiple of u more or less does not matter.                           *)
LEMMA ModShift ==
  ASSUME NEW u \in Nat \ {0}, NEW v \in Nat, v % u = 0, NEW a \in Nat
  PROVE  (a + v) % u = a % u
<1>1. PICK q \in Nat : a = q * u + (a % u)
  BY ModDiv, Zenon
<1>2. PICK c \in Nat : v = c * u + (v % u)
  BY ModDiv, Zenon
<1> DEFINE m == a % u
<1>3. m \in 0 .. u - 1
  BY ModType
<1> HIDE DEF m
<1>4. a + v = (q + c) * u + m
  BY <1>1, <1>2, <1>3 DEF m
<1>5. q + c \in Nat
  OBVIOUS
<1>6. ((q + c) * u + m) % u = m
  BY <1>3, <1>5, ModUnique
<1> QED
  BY <1>4, <1>6 DEF m
-----------------------------------------------------------------------------
(* Counters that wrap at u, and a ring of s places that they count round   *)
(* (u is a multiple of s).                                                 *)
RingSizes(u, s) == u \in Nat \ {0} /\ s \in Nat \ {0} /\ s < u /\ u % s = 0

(* n + k for counters.                                                     *)
Add(u, n, k) == IF n + k < u THEN n + k ELSE n + k - u

(* The place of the ring that is i after that of counter n.                *)
Spot(u, s, n, i) == ((n + i) % u) % s

(* The addition of the code wraps around once at most.                     *)
LEMMA AddMod ==
  ASSUME NEW u \in Nat \ {0}, NEW n \in 0 .. u - 1, NEW k \in 0 .. u
  PROVE  (n + k) % u = Add(u, n, k) /\ Add(u, n, k) \in 0 .. u - 1
<1> DEFINE x == n + k
<1>1. x \in Nat /\ (x < u => x \in 0 .. u - 1) /\ (~(x < u) => x \in u .. u + u - 1)
  OBVIOUS
<1>2. x % u = IF x < u THEN x ELSE x - u
  <2> HIDE DEF x
  <2>1. CASE x < u
    BY <1>1, <2>1, ModLow
  <2>2. CASE ~(x < u)
    BY <1>1, <2>2, ModUp, Zenon
  <2> QED
    BY <2>1, <2>2
<1>3. Add(u, n, k) \in 0 .. u - 1
  BY DEF Add
<1> QED
  BY <1>2, <1>3 DEF Add

(* The difference of two counters wraps around once at most.               *)
LEMMA GapIs ==
  ASSUME NEW u \in Nat \ {0}, NEW m \in 0 .. u - 1, NEW n \in 0 .. u - 1
  PROVE  (n - m) % u = IF m <= n THEN n - m ELSE n - m + u
<1> DEFINE x == n - m
<1>1. x \in Int /\ (m <= n => x \in 0 .. u - 1) /\ (~(m <= n) => x \in -u .. -1)
  OBVIOUS
<1>2. x % u = IF m <= n THEN x ELSE x + u
  <2> HIDE DEF x
  <2>1. CASE m <= n
    BY <1>1, <2>1, ModLow
  <2>2. CASE ~(m <= n)
    BY <1>1, <2>2, ModNeg
  <2> QED
    BY <2>1, <2>2
<1> QED
  BY <1>2

(* Places go round the ring, over the wrap-around of the counter too.      *)
LEMMA SpotIs ==
  ASSUME NEW u, NEW s, RingSizes(u, s), NEW n \in 0 .. u - 1, NEW i \in 0 .. s
  PROVE  Spot(u, s, n, i) = Add(s, n % s, i) /\ n % s \in 0 .. s - 1
<1>0. u \in Nat \ {0} /\ s \in Nat \ {0} /\ s < u /\ u % s = 0 /\ n \in Nat
  BY DEF RingSizes
<1>1. (n + i) % s = Add(s, n % s, i)
  BY <1>0, ModAdd, Zenon DEF Add
<1>2. i \in 0 .. u
  BY <1>0
<1>3. (n + i) % u = Add(u, n, i) /\ Add(u, n, i) \in 0 .. u - 1
  BY <1>0, <1>2, AddMod, Zenon
<1>4. Add(u, n, i) % s = (n + i) % s
  <2>1. CASE n + i < u
    BY <2>1 DEF Add
  <2>2. CASE ~(n + i < u)
    <3> DEFINE y == Add(u, n, i)
    <3>1. y \in Nat /\ y + u = n + i
      BY <1>0, <1>3, <2>2 DEF Add
    <3>2. (y + u) % s = y % s
      <4> HIDE DEF y
      <4> QED
        BY <1>0, <3>1, ModShift, Zenon
    <3> QED
      BY <3>1, <3>2
  <2> QED
    BY <2>1, <2>2
<1>5. n % s \in 0 .. s - 1
  BY <1>0, SMT
<1> QED
  BY <1>1, <1>3, <1>4, <1>5 DEF Spot

(* The ring from a counter on, k places later.                             *)
LEMMA SpotsFrom ==
  ASSUME NEW u, NEW s, RingSizes(u, s),
         NEW n \in 0 .. u - 1, NEW k \in 0 .. s, NEW i \in 0 .. s, k + i <= s
  PROVE  /\ Add(u, n, k) \in 0 .. u - 1
         /\ Spot(u, s, Add(u, n, k), i) = Spot(u, s, n, k + i)
<1>0. u \in Nat \ {0} /\ s \in Nat \ {0} /\ s < u
  BY DEF RingSizes
<1> DEFINE m == n % s
<1>1. k \in 0 .. u /\ k + i \in 0 .. s
  BY <1>0
<1>2. (n + k) % u = Add(u, n, k) /\ Add(u, n, k) \in 0 .. u - 1
  BY <1>0, <1>1, AddMod, Zenon
<1>3. Add(u, n, k) % s = Add(s, m, k) /\ m \in 0 .. s - 1
  BY <1>2, SpotIs DEF Spot
<1>4. Spot(u, s, Add(u, n, k), i) = Add(s, Add(s, m, k), i)
  BY <1>2, <1>3, SpotIs
<1>5. Spot(u, s, n, k + i) = Add(s, m, k + i)
  BY <1>1, SpotIs
<1> HIDE DEF m
<1>6. Add(s, Add(s, m, k), i) = Add(s, m, k + i)
  BY <1>0, <1>1, <1>3 DEF Add
<1> QED
  BY <1>2, <1>4, <1>5, <1>6

(* A place is an index of the ring, and none comes twice in one round.     *)
LEMMA SpotsDiffer ==
  ASSUME NEW u, NEW s, RingSizes(u, s),
         NEW n \in 0 .. u - 1, NEW i \in 0 .. s - 1, NEW j \in 0 .. s - 1
  PROVE  /\ Spot(u, s, n, i) \in 0 .. s - 1
         /\ Spot(u, s, n, i) = Spot(u, s, n, j) => i = j
<1>0. s \in Nat \ {0} /\ i \in 0 .. s /\ j \in 0 .. s
  BY DEF RingSizes
<1> DEFINE m == n % s
<1>1. /\ Spot(u, s, n, i) = Add(s, m, i) /\ Spot(u, s, n, j) = Add(s, m, j)
      /\ m \in 0 .. s - 1
  BY <1>0, SpotIs
<1> HIDE DEF m
<1> QED
  BY <1>0, <1>1 DEF Add

(* Of counters m and n with g entries of the ring between them, either may *)
(* go on.                                                                  *)
GapFacts(u, s, m, n, g) ==
  /\ g \in 0 .. s /\ n = Add(u, m, g)
  /\ n = (m + s) % u <=> g = s
  /\ m = n <=> g = 0
  /\ \A k \in 0 .. s - g : (Add(u, n, k) - m) % u = g + k /\ Add(u, n, k) \in 0 .. u - 1
  /\ \A k \in 0 .. g : (n - Add(u, m, k)) % u = g - k /\ Add(u, m, k) \in 0 .. u - 1

(* They hold when there is room for the entries.                           *)
LEMMA Gaps ==
  ASSUME NEW u, NEW s, RingSizes(u, s),
         NEW m \in 0 .. u - 1, NEW n \in 0 .. u - 1, NEW g, g = (n - m) % u, g <= s
  PROVE  GapFacts(u, s, m, n, g)
<1>0. u \in Nat \ {0} /\ s \in Nat \ {0} /\ s < u
  BY DEF RingSizes
<1>1. g = IF m <= n THEN n - m ELSE n - m + u
  BY <1>0, GapIs
<1>2. s \in 0 .. u
  BY <1>0
<1>3. (m + s) % u = Add(u, m, s)
  BY <1>0, <1>2, AddMod
<1>4. /\ g \in 0 .. s /\ n = Add(u, m, g)
      /\ n = Add(u, m, s) <=> g = s
      /\ m = n <=> g = 0
  BY <1>0, <1>1 DEF Add
<1>5. ASSUME NEW k \in 0 .. s - g
      PROVE  (Add(u, n, k) - m) % u = g + k /\ Add(u, n, k) \in 0 .. u - 1
  <2> DEFINE n2 == Add(u, n, k)
  <2>1. n2 \in 0 .. u - 1 /\ g + k = IF m <= n2 THEN n2 - m ELSE n2 - m + u
    BY <1>0, <1>1, <1>4 DEF Add
  <2> HIDE DEF n2
  <2>2. (n2 - m) % u = g + k
    BY <1>0, <2>1, GapIs
  <2> QED
    BY <2>1, <2>2 DEF n2
<1>6. ASSUME NEW k \in 0 .. g
      PROVE  (n - Add(u, m, k)) % u = g - k /\ Add(u, m, k) \in 0 .. u - 1
  <2> DEFINE m2 == Add(u, m, k)
  <2>1. m2 \in 0 .. u - 1 /\ g - k = IF m2 <= n THEN n - m2 ELSE n - m2 + u
    BY <1>0, <1>1, <1>4 DEF Add
  <2> HIDE DEF m2
  <2>2. (n - m2) % u = g - k
    BY <1>0, <2>1, GapIs
  <2> QED
    BY <2>1, <2>2 DEF m2
<1> QED
  BY <1>3, <1>4, <1>5, <1>6 DEF GapFacts
-----------------------------------------------------------------------------
(* The counters nread and nwrite of a pipe, and the places of its ring.    *)
Counter == 0 .. UINT - 1

Plus(n, k) == IF n + k < UINT THEN n + k ELSE n + k - UINT

(* They are such counters.                                                 *)
LEMMA PipeRing ==
  /\ RingSizes(UINT, PIPESIZE) /\ UINT \in Nat \ {0}
  /\ \A n, k : Plus(n, k) = Add(UINT, n, k)
  /\ \A n, i : Place(n, i) = Spot(UINT, PIPESIZE, n, i)
  BY PipeConstants DEF RingSizes, Plus, Add, Place, Spot

(* The addition of pipewrite() and piperead().                             *)
LEMMA PlusMod ==
  ASSUME NEW n \in Counter, NEW k \in 0 .. UINT
  PROVE  (n + k) % UINT = Plus(n, k) /\ Plus(n, k) \in Counter
  BY PipeRing, AddMod DEF Counter

(* The ring from nread on, u bytes of which are used.                      *)
LEMMA PlacesFrom ==
  ASSUME NEW n \in Counter, NEW u \in 0 .. PIPESIZE, NEW i \in 0 .. PIPESIZE, u + i <= PIPESIZE
  PROVE  Plus(n, u) \in Counter /\ Place(Plus(n, u), i) = Place(n, u + i)
  BY PipeRing, SpotsFrom DEF Counter

(* A place is an index of data.                                            *)
LEMMA PlaceIn == ASSUME NEW n \in Counter, NEW i \in 0 .. PIPESIZE - 1 PROVE Place(n, i) \in Index
  BY PipeRing, SpotsDiffer DEF Counter, Index

(* No place twice in one round.                                            *)
LEMMA PlacesDiffer ==
  ASSUME NEW n \in Counter, NEW i \in 0 .. PIPESIZE - 1, NEW j \in 0 .. PIPESIZE - 1,
         Place(n, i) = Place(n, j)
  PROVE  i = j
  BY PipeRing, SpotsDiffer DEF Counter

(* The bytes in the pipe and the two ends of the ring.                     *)
LEMMA Counts ==
  ASSUME NEW m \in Counter, NEW n \in Counter, NEW u, u = (n - m) % UINT, u <= PIPESIZE
  PROVE  /\ u \in 0 .. PIPESIZE /\ n = Plus(m, u)
         /\ n = (m + PIPESIZE) % UINT <=> u = PIPESIZE
         /\ m = n <=> u = 0
         /\ \A k \in 0 .. PIPESIZE - u : (Plus(n, k) - m) % UINT = u + k /\ Plus(n, k) \in Counter
         /\ \A k \in 0 .. u : (n - Plus(m, k)) % UINT = u - k /\ Plus(m, k) \in Counter
<1>0. RingSizes(UINT, PIPESIZE) /\ m \in 0 .. UINT - 1 /\ n \in 0 .. UINT - 1
  BY PipeRing DEF Counter
<1>1. GapFacts(UINT, PIPESIZE, m, n, u)
  BY <1>0, Gaps
<1>2. ASSUME NEW k \in 0 .. PIPESIZE - u
      PROVE  (Plus(n, k) - m) % UINT = u + k /\ Plus(n, k) \in Counter
  BY <1>1, PipeRing, Zenon DEF Counter, GapFacts
<1>3. ASSUME NEW k \in 0 .. u
      PROVE  (n - Plus(m, k)) % UINT = u - k /\ Plus(m, k) \in Counter
  BY <1>1, PipeRing, Zenon DEF Counter, GapFacts
<1> QED
  BY <1>1, <1>2, <1>3, PipeRing, Zenon DEF GapFacts

(* The same of the counters of the pipe.                                   *)
LEMMA UsedCounts ==
  ASSUME TypeOK
  PROVE  /\ Used \in 0 .. PIPESIZE /\ nwrite = Plus(nread, Used)
         /\ Full <=> Used = PIPESIZE
         /\ Empty <=> Used = 0
  BY Counts DEF TypeOK, Used, Full, Empty, Counter

(* A sequence is a function.                                               *)
LEMMA SeqIsFunction == ASSUME NEW S, NEW c \in Seq(S) PROVE c = [i \in 1 .. Len(c) |-> c[i]]
  OBVIOUS

(* The strings that read() and write() transfer, as sequences.             *)
LEMMA StringsAre == \A s : s \in Strings <=> s \in Seq(Byte) /\ Len(s) <= MaxLen
<1>1. ASSUME NEW s \in Strings PROVE s \in Seq(Byte) /\ Len(s) <= MaxLen
  <2>1. PICK n \in 0 .. MaxLen : s \in [1 .. n -> Byte]
    BY DEF Strings
  <2> QED
    BY <2>1, PipeConstants
<1>2. ASSUME NEW s \in Seq(Byte), Len(s) <= MaxLen PROVE s \in Strings
  <2>1. s \in [1 .. Len(s) -> Byte] /\ Len(s) \in 0 .. MaxLen
    BY <1>2, PipeConstants
  <2> QED
    BY <2>1 DEF Strings
<1> QED
  BY <1>1, <1>2

(* The empty string is one of them.                                        *)
LEMMA EmptyString == << >> \in Strings
<1>1. << >> \in Seq(Byte) /\ Len(<< >>) = 0 /\ 0 <= MaxLen
  BY PipeConstants, EmptySeq
<1>2. Len(<< >>) <= MaxLen
  BY <1>1
<1> QED
  BY <1>1, <1>2, StringsAre, Zenon

(* What Store() writes, and that it leaves the bytes in the pipe alone.    *)
LEMMA StoredIs ==
  ASSUME TypeOK, NEW s \in Seq(Byte), NEW k \in 0 .. PIPESIZE - Used, k <= Len(s)
  PROVE  /\ Stored(s, k) \in [Index -> Byte]
         /\ \A i \in 0 .. k - 1 : Stored(s, k)[Place(nread, Used + i)] = s[i + 1]
         /\ \A i \in 0 .. Used - 1 : Stored(s, k)[Place(nread, i)] = data[Place(nread, i)]
<1> DEFINE u == Used
           Pick(j) == CHOOSE i \in 0 .. k - 1 : Place(nwrite, i) = j
<1>0. /\ PIPESIZE \in Nat \ {0} /\ nread \in Counter /\ u \in 0 .. PIPESIZE
      /\ nwrite = Plus(nread, u) /\ data \in [Index -> Byte]
  BY PipeConstants, UsedCounts DEF TypeOK, Counter
<1>1. k \in 0 .. PIPESIZE - u
  OBVIOUS
<1> HIDE DEF u
<1>2. ASSUME NEW i \in 0 .. k - 1
      PROVE  /\ Place(nwrite, i) = Place(nread, u + i) /\ Place(nread, u + i) \in Index
             /\ u + i \in 0 .. PIPESIZE - 1
  <2>1. i \in 0 .. PIPESIZE /\ u + i <= PIPESIZE /\ u + i \in 0 .. PIPESIZE - 1
    BY <1>0, <1>1
  <2>2. Place(Plus(nread, u), i) = Place(nread, u + i)
    BY <1>0, <2>1, PlacesFrom
  <2> QED
    BY <1>0, <2>1, <2>2, PlaceIn
<1>3. ASSUME NEW j, \E i \in 0 .. k - 1 : Place(nwrite, i) = j
      PROVE  Pick(j) \in 0 .. k - 1 /\ Place(nwrite, Pick(j)) = j
  BY <1>3
<1>4. Stored(s, k) = [j \in Index |-> IF \E i \in 0 .. k - 1 : Place(nwrite, i) = j
                                     THEN s[1 + Pick(j)] ELSE data[j]]
  BY DEF Stored
<1> HIDE DEF Pick
<1>5. Stored(s, k) \in [Index -> Byte]
  <2> SUFFICES ASSUME NEW j \in Index, \E i \in 0 .. k - 1 : Place(nwrite, i) = j
               PROVE  s[1 + Pick(j)] \in Byte
    BY <1>0, <1>4
  <2>1. Pick(j) \in 0 .. k - 1
    BY <1>3
  <2>2. 1 + Pick(j) \in 1 .. Len(s)
    BY <2>1, <1>0, <1>1
  <2> QED
    BY <2>2
<1>6. ASSUME NEW i \in 0 .. k - 1 PROVE Stored(s, k)[Place(nread, u + i)] = s[i + 1]
  <2> DEFINE j == Place(nread, u + i)
  <2>1. Pick(j) \in 0 .. k - 1 /\ Place(nwrite, Pick(j)) = j /\ j \in Index
    BY <1>2, <1>3
  <2>2. u + Pick(j) = u + i
    BY <1>0, <1>2, <2>1, PlacesDiffer
  <2>3. Pick(j) = i
    BY <1>0, <2>1, <2>2
  <2>4. \E l \in 0 .. k - 1 : Place(nwrite, l) = j
    BY <1>2
  <2>5. Stored(s, k)[j] = s[1 + Pick(j)]
    BY <1>4, <2>1, <2>4
  <2> QED
    BY <2>3, <2>5
<1>7. ASSUME NEW i \in 0 .. u - 1 PROVE Stored(s, k)[Place(nread, i)] = data[Place(nread, i)]
  <2>1. i \in 0 .. PIPESIZE - 1
    BY <1>0
  <2>2. Place(nread, i) \in Index
    BY <1>0, <2>1, PlaceIn
  <2>3. ASSUME NEW l \in 0 .. k - 1, Place(nwrite, l) = Place(nread, i) PROVE FALSE
    <3>1. u + l = i
      BY <1>0, <1>2, <2>1, <2>3, PlacesDiffer
    <3> QED
      BY <1>0, <3>1
  <2> QED
    BY <1>4, <2>2, <2>3
<1> QED
  BY <1>5, <1>6, <1>7 DEF u
-----------------------------------------------------------------------------
(* One run of pipewrite(): the bytes that fit are appended.                *)
LEMMA Wrote ==
  ASSUME TypeOK, NEW p \in Proc, Store(p)
  PROVE  /\ Fits(p) \in 0 .. MaxLen /\ Fits(p) <= Len(todo[p]) /\ Used + Fits(p) <= PIPESIZE
         /\ Fits(p) < Len(todo[p]) => Used' = PIPESIZE
         /\ data' \in [Index -> Byte] /\ nwrite' \in Counter /\ nread' \in Counter
         /\ Used' = Used + Fits(p)
         /\ Loaded(Used)' = Loaded(Used) \o SubSeq(todo[p], 1, Fits(p))
<1> DEFINE u == Used
           k == Fits(p)
           s == todo[p]
<1>1. s \in Seq(Byte) /\ Len(s) <= MaxLen /\ Len(s) \in Nat
  BY StringsAre DEF TypeOK
<1>2. /\ PIPESIZE \in Nat \ {0} /\ MaxLen \in Nat /\ nread \in Counter /\ nwrite \in Counter
      /\ u \in 0 .. PIPESIZE /\ nwrite = Plus(nread, u) /\ data \in [Index -> Byte]
  BY PipeConstants, UsedCounts DEF TypeOK, Counter
<1>3. /\ data' = Stored(s, k) /\ nwrite' = (nwrite + k) % UINT /\ nread' = nread
      /\ k = Least(Len(s), PIPESIZE - u)
  BY DEF Store, Fits
<1>u. u = (nwrite - nread) % UINT /\ Used' = (nwrite' - nread') % UINT
  BY DEF Used
<1>s. /\ k \in 0 .. PIPESIZE - Used /\ k <= Len(s) =>
           /\ data' \in [Index -> Byte]
           /\ \A i \in 0 .. k - 1 : data'[Place(nread, Used + i)] = s[i + 1]
           /\ \A i \in 0 .. Used - 1 : data'[Place(nread, i)] = data[Place(nread, i)]
  BY <1>1, <1>3, StoredIs
<1> HIDE DEF k, s
<1>l. Loaded(Used)' = [i \in 1 .. Used' |-> data'[Place(nread', i - 1)]]
      /\ Loaded(Used) = [i \in 1 .. u |-> data[Place(nread, i - 1)]]
  BY DEF Loaded
<1>t. u = Used
  OBVIOUS
<1> HIDE DEF u
<1>4. /\ k \in 0 .. MaxLen /\ k <= Len(s) /\ k \in 0 .. PIPESIZE - u /\ u + k <= PIPESIZE
      /\ k < Len(s) => u + k = PIPESIZE
  BY <1>1, <1>2, <1>3 DEF Least
<1>5. k \in 0 .. UINT
  BY <1>2, <1>4, PipeConstants
<1>6. nwrite' = Plus(nwrite, k)
  BY <1>2, <1>3, <1>5, PlusMod
<1>7. Used' = u + k /\ nwrite' \in Counter
  <2>1. \A j \in 0 .. PIPESIZE - u :
          (Plus(nwrite, j) - nread) % UINT = u + j /\ Plus(nwrite, j) \in Counter
    <3>1. u <= PIPESIZE
      BY <1>2
    <3> QED
      BY <1>2, <1>u, <3>1, Counts
  <2> QED
    BY <1>3, <1>4, <1>6, <1>u, <2>1
<1>8. /\ \A i \in 0 .. k - 1 : data'[Place(nread, u + i)] = s[i + 1]
      /\ \A i \in 0 .. u - 1 : data'[Place(nread, i)] = data[Place(nread, i)]
  BY <1>4, <1>s, <1>t
<1>9. Loaded(Used)' = Loaded(Used) \o SubSeq(s, 1, k)
  <2> DEFINE new == [i \in 1 .. u + k |-> data'[Place(nread, i - 1)]]
             old == [i \in 1 .. u |-> data[Place(nread, i - 1)]]
             add == [i \in 1 .. k |-> s[i]]
  <2>1. Loaded(Used)' = new /\ Loaded(Used) = old
    BY <1>3, <1>7, <1>l
  <2>2. SubSeq(s, 1, k) = add
    BY <1>1, <1>4
  <2>3. old \in Seq(Byte) /\ Len(old) = u
    <3>1. ASSUME NEW i \in 1 .. u PROVE data[Place(nread, i - 1)] \in Byte
      <4>1. i - 1 \in 0 .. PIPESIZE - 1
        BY <1>2
      <4>2. Place(nread, i - 1) \in Index
        BY <1>2, <4>1, PlaceIn
      <4> QED
        BY <1>2, <4>2
    <3> QED
      BY <1>2, <3>1
  <2>4. add \in Seq(Byte) /\ Len(add) = k
    <3>1. ASSUME NEW i \in 1 .. k PROVE s[i] \in Byte
      BY <1>1, <1>4
    <3> QED
      BY <1>4, <3>1
  <2>5. old \o add = [i \in 1 .. u + k |-> IF i <= u THEN old[i] ELSE add[i - u]]
    <3> HIDE DEF old, add
    <3>1. /\ old \o add \in Seq(Byte) /\ Len(old \o add) = u + k
          /\ \A i \in 1 .. u + k : (old \o add)[i] = IF i <= u THEN old[i] ELSE add[i - u]
      BY <2>3, <2>4, ConcatProperties, Zenon
    <3>2. old \o add = [i \in 1 .. u + k |-> (old \o add)[i]]
      BY <3>1, SeqIsFunction, Zenon
    <3> QED
      BY <3>1, <3>2, Zenon
  <2>6. ASSUME NEW i \in 1 .. u + k
        PROVE  data'[Place(nread, i - 1)] = IF i <= u THEN old[i] ELSE add[i - u]
    <3>1. CASE i <= u
      <4>1. i - 1 \in 0 .. u - 1 /\ i \in 1 .. u
        BY <1>2, <3>1
      <4> QED
        BY <1>8, <3>1, <4>1
    <3>2. CASE ~(i <= u)
      <4> DEFINE l == i - 1 - u
      <4>1. l \in 0 .. k - 1 /\ u + l = i - 1 /\ l + 1 = i - u /\ i - u \in 1 .. k
        BY <1>2, <1>4, <3>2
      <4>2. data'[Place(nread, u + l)] = s[l + 1]
        BY <1>8, <4>1
      <4> QED
        BY <3>2, <4>1, <4>2
    <3> QED
      BY <3>1, <3>2
  <2>7. new = old \o add
    BY <2>5, <2>6, Zenon
  <2> QED
    BY <2>1, <2>2, <2>7, Zenon
<1> QED
  BY <1>2, <1>3, <1>4, <1>7, <1>9, <1>s, <1>t, Zenon DEF k, s

(* piperead() takes the oldest bytes.                                      *)
LEMMA Took ==
  ASSUME TypeOK, NEW p \in Proc, ReadDone(p), NEW k, k = Least(want[p], Used)
  PROVE  /\ k \in 0 .. MaxLen /\ k \in 0 .. Used
         /\ nread' \in Counter
         /\ Used' = Used - k
         /\ result' \in Strings
         /\ result' = SubSeq(Loaded(Used), 1, k)
         /\ Len(Loaded(Used)) = Used
         /\ Loaded(Used)' = SubSeq(Loaded(Used), k + 1, Len(Loaded(Used)))
<1> DEFINE u == Used
<1>1. /\ PIPESIZE \in Nat \ {0} /\ MaxLen \in Nat /\ nread \in Counter /\ nwrite \in Counter
      /\ u \in 0 .. PIPESIZE /\ nwrite = Plus(nread, u) /\ data \in [Index -> Byte]
      /\ want[p] \in 0 .. MaxLen
  BY PipeConstants, UsedCounts DEF TypeOK, Counter
<1>2. /\ nread' = (nread + k) % UINT /\ nwrite' = nwrite /\ data' = data
      /\ result' = [i \in 1 .. k |-> data[Place(nread, i - 1)]]
  BY DEF ReadDone, Loaded
<1>u. u = (nwrite - nread) % UINT /\ Used' = (nwrite' - nread') % UINT
  BY DEF Used
<1>l. Loaded(Used)' = [i \in 1 .. Used' |-> data'[Place(nread', i - 1)]]
      /\ Loaded(Used) = [i \in 1 .. u |-> data[Place(nread, i - 1)]]
  BY DEF Loaded
<1>t. u = Used
  OBVIOUS
<1> HIDE DEF u
<1>3. k \in 0 .. MaxLen /\ k \in 0 .. u
  BY <1>1, <1>t DEF Least
<1>4. k \in 0 .. UINT /\ k \in 0 .. PIPESIZE
  BY <1>1, <1>3, PipeConstants
<1>5. nread' = Plus(nread, k)
  BY <1>1, <1>2, <1>4, PlusMod
<1>6. Used' = u - k /\ nread' \in Counter
  <2>1. \A j \in 0 .. u : (nwrite - Plus(nread, j)) % UINT = u - j /\ Plus(nread, j) \in Counter
    <3>1. u <= PIPESIZE
      BY <1>1
    <3> QED
      BY <1>1, <1>u, <3>1, Counts
  <2> QED
    BY <1>2, <1>3, <1>5, <1>u, <2>1
<1> DEFINE old == [i \in 1 .. u |-> data[Place(nread, i - 1)]]
<1>7. ASSUME NEW i \in 1 .. u PROVE data[Place(nread, i - 1)] \in Byte
  <2>1. i - 1 \in 0 .. PIPESIZE - 1
    BY <1>1
  <2>2. Place(nread, i - 1) \in Index
    BY <1>1, <2>1, PlaceIn
  <2> QED
    BY <1>1, <2>2
<1>8. old \in Seq(Byte) /\ Len(old) = u
  BY <1>1, <1>7
<1>9. result' = SubSeq(old, 1, k) /\ result' \in Strings
  <2>1. SubSeq(old, 1, k) = [i \in 1 .. k |-> old[i]]
    <3> HIDE DEF old
    <3> QED
      BY <1>3, <1>8
  <2>2. \A i \in 1 .. k : old[i] = data[Place(nread, i - 1)] /\ old[i] \in Byte
    BY <1>1, <1>3, <1>7
  <2>3. result' = [i \in 1 .. k |-> old[i]]
    BY <1>2, <2>2
  <2>4. result' \in [1 .. k -> Byte]
    BY <2>2, <2>3
  <2> QED
    BY <1>3, <2>1, <2>3, <2>4, Zenon DEF Strings
<1>10. Loaded(Used)' = SubSeq(old, k + 1, u)
  <2>1. SubSeq(old, k + 1, u) = [i \in 1 .. u - k |-> old[i + k]]
    <3> HIDE DEF old
    <3> QED
      BY <1>1, <1>3, <1>8
  <2>2. ASSUME NEW i \in 1 .. u - k PROVE data[Place(nread', i - 1)] = old[i + k]
    <3> DEFINE j == i - 1
    <3>1. j \in 0 .. PIPESIZE /\ k + j <= PIPESIZE /\ k + j = i + k - 1 /\ i + k \in 1 .. u
      BY <1>1, <1>3
    <3>2. Place(Plus(nread, k), j) = Place(nread, k + j)
      <4> HIDE DEF j
      <4> QED
        BY <1>1, <1>4, <3>1, PlacesFrom
    <3>3. old[i + k] = data[Place(nread, i + k - 1)]
      <4>1. \A l \in 1 .. u : old[l] = data[Place(nread, l - 1)]
        OBVIOUS
      <4> HIDE DEF old
      <4> QED
        BY <1>1, <1>3, <3>1, <4>1
    <3> QED
      BY <1>5, <3>1, <3>2, <3>3
  <2>3. Loaded(Used)' = [i \in 1 .. u - k |-> data[Place(nread', i - 1)]]
    BY <1>2, <1>6, <1>l
  <2> HIDE DEF old
  <2> QED
    BY <2>1, <2>2, <2>3
<1> QED
  BY <1>3, <1>6, <1>8, <1>9, <1>10, <1>l, <1>t, Zenon
-----------------------------------------------------------------------------
(* The ends: an end is open as long as a descriptor refers to it or the    *)
(* last one is being closed, which one process does; a process in a call   *)
(* has its descriptor.                                                     *)
EndsOK ==
  /\ readopen <=> readEnd # {} \/ Asleep("closeR")
  /\ writeopen <=> writeEnd # {} \/ Asleep("closeW")
  /\ alive <=> readopen \/ writeopen
  /\ \A p \in Proc :
       /\ pc[p] \in {"write", "wsleep"} => p \in writeEnd
       /\ pc[p] \in {"read", "rsleep"} => p \in readEnd
       /\ pc[p] = "closeR" => readEnd = {} /\ \A q \in Proc : pc[q] = "closeR" => q = p
       /\ pc[p] = "closeW" => writeEnd = {} /\ \A q \in Proc : pc[q] = "closeW" => q = p

(* Only a process in pipewrite() has bytes to write.                       *)
NothingLeft == \A p \in Proc : pc[p] \notin {"write", "wsleep"} => todo[p] = << >>

PipeInv == TypeOK /\ EndsOK /\ NothingLeft /\ SleepJustified /\ NoStandoff
-----------------------------------------------------------------------------
(* pipealloc() establishes the invariant.                                  *)
LEMMA Start == ASSUME Init PROVE PipeInv
<1>0. PIPESIZE \in Nat \ {0} /\ UINT \in Nat \ {0} /\ MaxLen \in Nat
  BY PipeConstants
<1>1. << >> \in Strings
  BY EmptyString
<1>2. (nwrite - nread) % UINT = 0
  <2>1. nread \in Counter /\ nwrite \in Counter /\ nwrite = nread
    BY DEF Init, Counter
  <2>2. (nwrite - nread) % UINT = IF nread <= nwrite THEN nwrite - nread ELSE nwrite - nread + UINT
    BY <2>1, PipeRing, GapIs DEF Counter
  <2> QED
    BY <1>0, <2>1, <2>2 DEF Counter
<1>3. TypeOK
  <2>1. data \in [Index -> Byte]
    BY DEF Init
  <2>2. pc \in [Proc -> Location] /\ todo \in [Proc -> Strings] /\ result \in Strings
    BY <1>1 DEF Init, Location
  <2>3. want \in [Proc -> 0 .. MaxLen] /\ nwrite \in 0 .. (UINT - 1) /\ 0 <= PIPESIZE
    BY <1>0 DEF Init
  <2> QED
    BY <1>2, <2>1, <2>2, <2>3, PipeConstants, Zenon DEF Init, TypeOK
<1>4. EndsOK
  BY PipeConstants DEF Init, EndsOK, Asleep
<1> QED
  BY <1>3, <1>4 DEF Init, PipeInv, NothingLeft, SleepJustified, NoStandoff, Asleep

(* What wakes and moves processes yields locations.                        *)
LEMMA Locations ==
  ASSUME NEW f \in [Proc -> Location], NEW p \in Proc, NEW loc \in Location
  PROVE  /\ WakeReaders(f) \in [Proc -> Location] /\ WakeWriters(f) \in [Proc -> Location]
         /\ [f EXCEPT ![p] = loc] \in [Proc -> Location]
  BY DEF WakeReaders, WakeWriters, Location

(* Every step keeps the types; no transfer overfills the ring.             *)
LEMMA TypeStep == ASSUME TypeOK, [Next]_vars PROVE TypeOK'
<1>0. /\ PIPESIZE \in Nat \ {0} /\ UINT \in Nat \ {0} /\ MaxLen \in Nat
      /\ << >> \in Strings /\ Used \in 0 .. PIPESIZE
  BY PipeConstants, EmptyString, UsedCounts
<1>L. ASSUME NEW p \in Proc, NEW loc \in Location
      PROVE  /\ Goto(p, loc) \in [Proc -> Location]
             /\ WakeReaders(Goto(p, loc)) \in [Proc -> Location]
             /\ WakeWriters(Goto(p, loc)) \in [Proc -> Location]
  BY Locations, Zenon DEF TypeOK, Goto
<1>C. {"user", "write", "wsleep", "read", "rsleep", "closeR", "closeW"} = Location
  BY DEF Location
<1>1. ASSUME NEW p \in Proc, NEW s \in Strings, StartWrite(p, s) PROVE TypeOK'
  BY <1>1, <1>L, <1>C, Zenon DEF TypeOK, StartWrite, pipeVars
<1>2. ASSUME NEW p \in Proc, NEW n \in 0 .. MaxLen, StartRead(p, n) PROVE TypeOK'
  BY <1>2, <1>L, <1>C, Zenon DEF TypeOK, StartRead, pipeVars
<1>3. ASSUME NEW p \in Proc, Store(p), todo' \in [Proc -> Strings],
             pc' \in [Proc -> Location], owed' \in BOOLEAN
      PROVE  TypeOK'
  <2>1. /\ data' \in [Index -> Byte] /\ nwrite' \in 0 .. (UINT - 1) /\ nread' \in 0 .. (UINT - 1)
        /\ Used' = Used + Fits(p) /\ Used + Fits(p) <= PIPESIZE
    BY <1>3, Wrote DEF Counter
  <2>2. (nwrite' - nread') % UINT <= PIPESIZE
    BY <2>1 DEF Used
  <2> QED
    BY <1>3, <2>1, <2>2 DEF TypeOK, Store
<1>4. ASSUME NEW p \in Proc, WriteDone(p) \/ WriteFail(p) PROVE TypeOK'
  <2>1. todo' \in [Proc -> Strings]
    BY <1>0, <1>4 DEF TypeOK, WriteDone, WriteFail
  <2>2. pc' \in [Proc -> Location] /\ owed' \in BOOLEAN /\ Store(p)
    BY <1>4, <1>L, <1>C, ZenonT(30) DEF WriteDone, WriteFail
  <2> QED
    BY <1>3, <2>1, <2>2
<1>5. ASSUME NEW p \in Proc, WriteSleep(p) PROVE TypeOK'
  <2>1. SubSeq(todo[p], Fits(p) + 1, Len(todo[p])) \in Strings
    <3>1. todo[p] \in Seq(Byte) /\ Len(todo[p]) <= MaxLen
      BY StringsAre DEF TypeOK
    <3>2. Fits(p) \in Nat /\ Fits(p) <= Len(todo[p])
      BY <1>5, <1>0, Wrote DEF WriteSleep
    <3>3. SubSeq(todo[p], Fits(p) + 1, Len(todo[p])) \in Seq(Byte)
      BY <3>1, <3>2
    <3>4. Len(SubSeq(todo[p], Fits(p) + 1, Len(todo[p]))) <= MaxLen
      BY <1>0, <3>1, <3>2
    <3> QED
      BY <3>3, <3>4, StringsAre, Zenon
  <2>2. todo' \in [Proc -> Strings]
    BY <1>5, <2>1 DEF TypeOK, WriteSleep
  <2>3. pc' \in [Proc -> Location] /\ owed' \in BOOLEAN /\ Store(p)
    BY <1>5, <1>L, <1>C, Zenon DEF WriteSleep
  <2> QED
    BY <1>3, <2>2, <2>3
<1>6. ASSUME NEW p \in Proc, ReadSleep(p) PROVE TypeOK'
  BY <1>6, <1>L, <1>C, Zenon DEF TypeOK, ReadSleep, pipeVars
<1>7. ASSUME NEW p \in Proc, ReadDone(p) PROVE TypeOK'
  <2> DEFINE k == Least(want[p], Used)
  <2>1. /\ k \in 0 .. Used /\ nread' \in 0 .. (UINT - 1)
        /\ Used' = Used - k /\ result' \in Strings
    BY <1>7, Took DEF Counter
  <2>2. (nwrite' - nread') % UINT <= PIPESIZE
    BY <1>0, <2>1 DEF Used
  <2>3. pc' \in [Proc -> Location]
    BY <1>7, <1>L, <1>C DEF ReadDone
  <2>4. want' \in [Proc -> 0 .. MaxLen]
    BY <1>0, <1>7 DEF ReadDone, TypeOK
  <2> QED
    BY <1>7, <2>1, <2>2, <2>3, <2>4 DEF TypeOK, ReadDone
<1>8. ASSUME NEW p \in Proc, PipeCloseRead(p) \/ PipeCloseWrite(p) PROVE TypeOK'
  BY <1>8, <1>L, <1>C, ZenonT(30) DEF TypeOK, PipeCloseRead, PipeCloseWrite
<1>9. ASSUME NEW p \in Proc, CloseRead(p) \/ CloseWrite(p) PROVE TypeOK'
  <2>1. pc' = pc \/ pc' = Goto(p, "closeR") \/ pc' = Goto(p, "closeW")
    BY <1>9 DEF CloseRead, CloseWrite
  <2>2. pc' \in [Proc -> Location]
    BY <1>L, <1>C, <2>1, ZenonT(30) DEF TypeOK
  <2>3. readEnd' \subseteq Proc /\ writeEnd' \subseteq Proc
    BY <1>9 DEF CloseRead, CloseWrite, TypeOK
  <2>4. UNCHANGED <<pipeVars, killed, todo, want, result, owed>>
    BY <1>9 DEF CloseRead, CloseWrite
  <2> QED
    BY <2>2, <2>3, <2>4 DEF TypeOK, pipeVars
<1>10. ASSUME NEW p \in Proc, Kill(p) PROVE TypeOK'
  BY <1>10 DEF TypeOK, Kill, pipeVars, Location
<1>11. CASE UNCHANGED vars
  BY <1>11, SMTT(30) DEF TypeOK, vars, pipeVars
<1> QED
  BY <1>1, <1>2, <1>4, <1>5, <1>6, <1>7, <1>8, <1>9, <1>10, <1>11 DEF Next, Kernel

(* Every step keeps the ends and the processes that use them in agreement. *)
LEMMA EndsStep == ASSUME TypeOK, EndsOK, [Next]_vars PROVE EndsOK'
<1> USE DEF TypeOK, EndsOK, Asleep, Goto
<1>1. ASSUME NEW p \in Proc, NEW s \in Strings, StartWrite(p, s) PROVE EndsOK'
  BY <1>1 DEF StartWrite, pipeVars
<1>2. ASSUME NEW p \in Proc, NEW n \in 0 .. MaxLen, StartRead(p, n) PROVE EndsOK'
  BY <1>2 DEF StartRead, pipeVars
<1>3. ASSUME NEW p \in Proc, WriteDone(p) PROVE EndsOK'
  BY <1>3 DEF WriteDone, Store, WakeReaders
<1>4. ASSUME NEW p \in Proc, WriteFail(p) PROVE EndsOK'
  BY <1>4, SMTT(30) DEF WriteFail, Store
<1>5. ASSUME NEW p \in Proc, WriteSleep(p) PROVE EndsOK'
  BY <1>5 DEF WriteSleep, Store, WakeReaders
<1>6. ASSUME NEW p \in Proc, ReadSleep(p) PROVE EndsOK'
  BY <1>6 DEF ReadSleep, pipeVars
<1>7. ASSUME NEW p \in Proc, ReadDone(p) PROVE EndsOK'
  BY <1>7 DEF ReadDone, WakeWriters
<1>8. ASSUME NEW p \in Proc, PipeCloseRead(p) PROVE EndsOK'
  BY <1>8 DEF PipeCloseRead, WakeWriters
<1>9. ASSUME NEW p \in Proc, PipeCloseWrite(p) PROVE EndsOK'
  BY <1>9 DEF PipeCloseWrite, WakeReaders
<1>10. ASSUME NEW p \in Proc, CloseRead(p) PROVE EndsOK'
  BY <1>10 DEF CloseRead, pipeVars
<1>11. ASSUME NEW p \in Proc, CloseWrite(p) PROVE EndsOK'
  BY <1>11 DEF CloseWrite, pipeVars
<1>12. ASSUME NEW p \in Proc, Kill(p) PROVE EndsOK'
  BY <1>12 DEF Kill, pipeVars
<1>13. CASE UNCHANGED vars
  BY <1>13, SMTT(30) DEF vars, pipeVars
<1> QED
  BY <1>1, <1>2, <1>3, <1>4, <1>5, <1>6, <1>7, <1>8, <1>9, <1>10, <1>11, <1>12, <1>13, ZenonT(30)
  DEF Next, Kernel

(* A process leaves pipewrite() with nothing left to write.                *)
LEMMA LeftStep == ASSUME TypeOK, NothingLeft, [Next]_vars PROVE NothingLeft'
<1> USE DEF TypeOK, NothingLeft, Goto
<1>1. ASSUME NEW p \in Proc, NEW s \in Strings, StartWrite(p, s) PROVE NothingLeft'
  BY <1>1 DEF StartWrite, pipeVars
<1>2. ASSUME NEW p \in Proc, NEW n \in 0 .. MaxLen, StartRead(p, n) PROVE NothingLeft'
  BY <1>2 DEF StartRead, pipeVars
<1>3. ASSUME NEW p \in Proc, WriteDone(p) \/ WriteFail(p) PROVE NothingLeft'
  BY <1>3 DEF WriteDone, WriteFail, Store, WakeReaders
<1>5. ASSUME NEW p \in Proc, WriteSleep(p) PROVE NothingLeft'
  BY <1>5 DEF WriteSleep, Store, WakeReaders
<1>6. ASSUME NEW p \in Proc, ReadSleep(p) \/ ReadDone(p) PROVE NothingLeft'
  BY <1>6 DEF ReadSleep, ReadDone, WakeWriters, pipeVars
<1>8. ASSUME NEW p \in Proc, PipeCloseRead(p) \/ PipeCloseWrite(p) PROVE NothingLeft'
  BY <1>8 DEF PipeCloseRead, PipeCloseWrite, WakeWriters, WakeReaders
<1>10. ASSUME NEW p \in Proc, CloseRead(p) \/ CloseWrite(p) \/ Kill(p) PROVE NothingLeft'
  BY <1>10 DEF CloseRead, CloseWrite, Kill, pipeVars
<1>13. CASE UNCHANGED vars
  BY <1>13, SMTT(30) DEF vars, pipeVars
<1> QED
  BY <1>1, <1>2, <1>3, <1>5, <1>6, <1>8, <1>10, <1>13, Zenon DEF Next, Kernel

(* pipewrite() wakes the readers before it sleeps and piperead() the       *)
(* writers before it returns, and neither sleeps while it could go on.     *)
LEMMA SleepStep ==
  ASSUME TypeOK, SleepJustified, NoStandoff, [Next]_vars
  PROVE  SleepJustified' /\ NoStandoff'
<1> DEFINE Sleeps == SleepJustified /\ NoStandoff
<1>0. /\ PIPESIZE \in Nat \ {0} /\ Used \in 0 .. PIPESIZE
      /\ Full <=> Used = PIPESIZE
      /\ Empty <=> Used = 0
  BY PipeConstants, UsedCounts
<1>T. TypeOK'
  BY TypeStep
<1>P. (Full <=> Used = PIPESIZE)' /\ (Empty <=> Used = 0)' /\ Used' \in 0 .. PIPESIZE
  BY <1>T, Counts DEF TypeOK, Used, Full, Empty, Counter
<1> USE DEF SleepJustified, NoStandoff, Asleep, Goto
<1>A. ASSUME UNCHANGED <<pipeVars, owed, killed>>,
             \A q \in Proc : pc'[q] \in {"wsleep", "rsleep"} => pc'[q] = pc[q]
      PROVE  Sleeps'
  BY <1>A DEF pipeVars, Full, Empty
<1>1. ASSUME NEW p \in Proc, NEW s \in Strings, StartWrite(p, s) PROVE Sleeps'
  BY <1>1, <1>A, SMTT(30) DEF StartWrite, TypeOK
<1>2. ASSUME NEW p \in Proc, NEW n \in 0 .. MaxLen, StartRead(p, n) PROVE Sleeps'
  BY <1>2, <1>A, SMTT(30) DEF StartRead, TypeOK
<1>3. ASSUME NEW p \in Proc, WriteDone(p) PROVE Sleeps'
  <2>1. Store(p) /\ killed' = killed /\ readopen' = readopen
    BY <1>3 DEF WriteDone, Store
  <2>2. \A q \in Proc : pc'[q] # "rsleep" /\ (pc'[q] = "wsleep" => pc[q] = "wsleep")
    BY <1>3, SMTT(30) DEF WriteDone, WakeReaders, TypeOK
  <2>3. Full => Full'
    <3>1. Used' = Used + Fits(p) /\ Used + Fits(p) <= PIPESIZE /\ Fits(p) \in 0 .. MaxLen
      BY <2>1, Wrote
    <3> QED
      BY <1>0, <1>P, <3>1, PipeConstants, SMTT(30)
  <2> QED
    BY <2>1, <2>2, <2>3, SMTT(30)
<1>4. ASSUME NEW p \in Proc, WriteFail(p) PROVE Sleeps'
  <2>1. /\ Store(p) /\ killed' = killed /\ readopen' = readopen /\ writeopen' = writeopen
        /\ owed' = (owed \/ Fits(p) > 0)
    BY <1>4 DEF WriteFail, Store
  <2>2. \A q \in Proc : pc'[q] \in {"wsleep", "rsleep"} => pc'[q] = pc[q]
    BY <1>4 DEF WriteFail, TypeOK
  <2>3. Used' = Used + Fits(p) /\ Used + Fits(p) <= PIPESIZE /\ Fits(p) \in 0 .. MaxLen
    BY <2>1, Wrote
  <2>4. (Full => Full') /\ (Empty => Empty' \/ Fits(p) > 0)
    BY <1>0, <1>P, <2>3, PipeConstants, SMTT(30)
  <2> QED
    BY <2>1, <2>2, <2>4, Zenon
<1>5. ASSUME NEW p \in Proc, WriteSleep(p) PROVE Sleeps'
  <2>1. /\ Store(p) /\ killed' = killed /\ ~killed[p] /\ readopen' = readopen /\ readopen
        /\ Fits(p) < Len(todo[p])
    BY <1>5 DEF WriteSleep, Store
  <2>2. \A q \in Proc : pc'[q] # "rsleep" /\ (pc'[q] = "wsleep" => q = p \/ pc[q] = "wsleep")
    BY <1>5 DEF WriteSleep, WakeReaders, TypeOK
  <2>3. Full'
    BY <1>P, <2>1, Wrote, SMTT(30)
  <2> QED
    BY <2>1, <2>2, <2>3, SMTT(30)
<1>6. ASSUME NEW p \in Proc, ReadSleep(p) PROVE Sleeps'
  <2>1. /\ UNCHANGED <<pipeVars, owed, killed>> /\ Empty /\ writeopen
        /\ \A q \in Proc : /\ pc'[q] = "wsleep" => pc[q] = "wsleep"
                           /\ pc'[q] = "rsleep" => pc[q] = "rsleep" \/ (q = p /\ ~killed[p])
    BY <1>6, SMTT(30) DEF ReadSleep, TypeOK
  <2>2. Full' = Full /\ Empty' /\ writeopen' = writeopen /\ readopen' = readopen
    BY <2>1, SMTT(30) DEF pipeVars, Full, Empty
  <2>3. ~Full
    BY <1>0, <2>1, SMTT(30)
  <2> QED
    BY <2>1, <2>2, <2>3
<1>7. ASSUME NEW p \in Proc, ReadDone(p) PROVE Sleeps'
  <2>1. killed' = killed /\ writeopen' = writeopen /\ owed' = owed
    BY <1>7 DEF ReadDone
  <2>2. \A q \in Proc : pc'[q] # "wsleep" /\ (pc'[q] = "rsleep" => pc[q] = "rsleep")
    BY <1>7 DEF ReadDone, WakeWriters, TypeOK
  <2>3. Empty => Empty'
    <3> DEFINE k == Least(want[p], Used)
    <3>1. k \in 0 .. Used /\ Used' = Used - k
      BY <1>7, Took, SMTT(30)
    <3> QED
      BY <1>0, <1>P, <3>1, SMTT(30)
  <2> QED
    BY <2>1, <2>2, <2>3, SMTT(30)
<1>8. ASSUME NEW p \in Proc, PipeCloseRead(p) PROVE Sleeps'
  <2>1. /\ \A q \in Proc : pc'[q] # "wsleep" /\ (pc'[q] = "rsleep" => pc[q] = "rsleep")
        /\ UNCHANGED <<nread, nwrite, writeopen, owed, killed>>
    BY <1>8, SMTT(30) DEF PipeCloseRead, WakeWriters, TypeOK
  <2> QED
    BY <2>1 DEF Empty
<1>9. ASSUME NEW p \in Proc, PipeCloseWrite(p) PROVE Sleeps'
  <2>1. /\ \A q \in Proc : pc'[q] # "rsleep" /\ (pc'[q] = "wsleep" => pc[q] = "wsleep")
        /\ UNCHANGED <<nread, nwrite, readopen, killed>>
    BY <1>9, SMTT(30) DEF PipeCloseWrite, WakeReaders, TypeOK
  <2> QED
    BY <2>1 DEF Full
<1>10. ASSUME NEW p \in Proc, CloseRead(p) \/ CloseWrite(p) PROVE Sleeps'
  BY <1>10, <1>A DEF CloseRead, CloseWrite, TypeOK
<1>12. ASSUME NEW p \in Proc, Kill(p) PROVE Sleeps'
  <2>1. /\ UNCHANGED <<pipeVars, owed>>
        /\ \A q \in Proc : pc'[q] \in {"wsleep", "rsleep"} =>
                            pc'[q] = pc[q] /\ killed'[q] = killed[q]
    BY <1>12, Zenon DEF Kill, TypeOK
  <2> QED
    BY <2>1 DEF pipeVars, Full, Empty
<1>13. CASE UNCHANGED vars
  BY <1>13, <1>A DEF vars
<1> QED
  BY <1>1, <1>2, <1>3, <1>4, <1>5, <1>6, <1>7, <1>8, <1>9, <1>10, <1>12, <1>13, Zenon
  DEF Next, Kernel

(* The invariant holds for ever.                                           *)
LEMMA PipeStays == Spec => []PipeInv
<1>1. Init => PipeInv
  BY Start
<1>2. PipeInv /\ [Next]_vars => PipeInv'
  BY TypeStep, EndsStep, LeftStep, SleepStep DEF PipeInv
<1> QED
  BY <1>1, <1>2, PTL DEF Spec

(* pipewrite(), piperead(): nobody sleeps who could go on, the exception   *)
(* being a reader that a killed writer left asleep, and readers and        *)
(* writers never wait for each other.                                      *)
THEOREM PipeSleepsJustified == Spec => [](SleepJustified /\ NoStandoff)
<1>1. PipeInv => SleepJustified /\ NoStandoff
  BY DEF PipeInv
<1> QED
  BY <1>1, PipeStays, PTL

(* pipeclose(), fileclose(): the pipe is freed exactly when nobody uses it *)
(* or can use it any more.                                                 *)
THEOREM PipeFreedLast == Spec => []FreedLast
<1>1. PipeInv => FreedLast
  BY DEF PipeInv, TypeOK, EndsOK, FreedLast, Asleep, Location
<1> QED
  BY <1>1, PipeStays, PTL
-----------------------------------------------------------------------------
(* Every step of a pipe is a step of the bounded queue or leaves it alone. *)
LEMMA FifoStep == ASSUME TypeOK, NothingLeft, [Next]_vars PROVE [Queue!Next]_Queue!vars
<1> DEFINE Same == UNCHANGED <<Loaded(Used), todo, result>>
<1>S. Same => [Queue!Next]_Queue!vars
  BY DEF Queue!vars
<1>U. UNCHANGED <<data, nread, nwrite>> => Loaded(Used)' = Loaded(Used)
  BY SMTT(30) DEF Loaded, Used
<1>N. \/ \E p \in Proc : \E s \in Strings : Queue!Ask(p, s)
      \/ \E p \in Proc : \E k \in 0 .. MaxLen : Queue!Put(p, k)
      \/ \E k \in 0 .. MaxLen : Queue!Get(k)
      => [Queue!Next]_Queue!vars
  BY DEF Queue!Next, Queue!Strings, Strings
<1>1. ASSUME NEW p \in Proc, NEW s \in Strings, StartWrite(p, s) PROVE Queue!Ask(p, s)
  <2>1. todo[p] = << >> /\ todo' = [todo EXCEPT ![p] = s] /\ result' = result
    BY <1>1, SMTT(30) DEF NothingLeft, StartWrite
  <2>2. Loaded(Used)' = Loaded(Used)
    BY <1>1, <1>U DEF StartWrite, pipeVars
  <2> QED
    BY <2>1, <2>2 DEF Queue!Ask
<1>2. ASSUME NEW p \in Proc, Store(p),
             \/ todo' = [todo EXCEPT ![p] = SubSeq(@, Fits(p) + 1, Len(@))]
             \/ todo' = [todo EXCEPT ![p] = << >>]
      PROVE  \E k \in 0 .. MaxLen : Queue!Put(p, k)
  <2>1. /\ Fits(p) \in 0 .. MaxLen /\ Fits(p) <= Len(todo[p]) /\ Used + Fits(p) <= PIPESIZE
        /\ Loaded(Used)' = Loaded(Used) \o SubSeq(todo[p], 1, Fits(p))
    BY <1>2, Wrote
  <2>2. Len(Loaded(Used)) = Used
    BY UsedCounts, PipeConstants DEF Loaded
  <2>3. result' = result
    BY <1>2 DEF Store
  <2>4. Queue!Put(p, Fits(p))
    BY <1>2, <2>1, <2>2, <2>3 DEF Queue!Put
  <2> QED
    BY <2>1, <2>4
<1>3. ASSUME NEW p \in Proc, ReadDone(p) PROVE \E k \in 0 .. MaxLen : Queue!Get(k)
  <2> DEFINE k == Least(want[p], Used)
  <2>1. /\ k \in 0 .. MaxLen /\ k \in 0 .. Used
        /\ result' = SubSeq(Loaded(Used), 1, k)
        /\ Len(Loaded(Used)) = Used
        /\ Loaded(Used)' = SubSeq(Loaded(Used), k + 1, Len(Loaded(Used)))
    BY <1>3, Took
  <2>2. todo' = todo
    BY <1>3 DEF ReadDone
  <2> HIDE DEF k
  <2>3. k <= Len(Loaded(Used))
    BY <2>1, UsedCounts, PipeConstants
  <2>4. Queue!Get(k)
    BY <2>1, <2>2, <2>3 DEF Queue!Get
  <2> QED
    BY <2>1, <2>4
<1>4. ASSUME NEW p \in Proc, WriteDone(p) \/ WriteFail(p) \/ WriteSleep(p)
      PROVE  \E k \in 0 .. MaxLen : Queue!Put(p, k)
  <2>1. Store(p)
    BY <1>4 DEF WriteDone, WriteFail, WriteSleep
  <2>2. \/ todo' = [todo EXCEPT ![p] = SubSeq(@, Fits(p) + 1, Len(@))]
        \/ todo' = [todo EXCEPT ![p] = << >>]
    BY <1>4, Zenon DEF WriteDone, WriteFail, WriteSleep
  <2> QED
    BY <1>2, <2>1, <2>2
<1> DEFINE Step == [Queue!Next]_Queue!vars
           Idle(p) == \/ \E n \in 0 .. MaxLen : StartRead(p, n)
                      \/ ReadSleep(p) \/ PipeCloseRead(p) \/ PipeCloseWrite(p)
                      \/ CloseRead(p) \/ CloseWrite(p) \/ Kill(p)
<1>5. ASSUME NEW p \in Proc, Idle(p) PROVE Step
  <2>1. UNCHANGED <<data, nread, nwrite, todo, result>>
    BY <1>5 DEF StartRead, ReadSleep, PipeCloseRead, PipeCloseWrite, CloseRead, CloseWrite,
                Kill, pipeVars
  <2> QED
    BY <2>1, <1>U, <1>S, SMTT(30)
<1>6. CASE UNCHANGED vars
  BY <1>6, <1>U, <1>S DEF vars, pipeVars
<1>7. ASSUME NEW p \in Proc, NEW s \in Strings, StartWrite(p, s) PROVE Step
  BY <1>1, <1>7, <1>N
<1>8. ASSUME NEW p \in Proc, WriteDone(p) \/ WriteFail(p) \/ WriteSleep(p) PROVE Step
  BY <1>4, <1>8, <1>N
<1>9. ASSUME NEW p \in Proc, ReadDone(p) PROVE Step
  BY <1>3, <1>9, <1>N
<1>10. UNCHANGED vars => Step
  BY <1>6
<1>11. Next => \E p \in Proc : \/ \E s \in Strings : StartWrite(p, s)
                             \/ WriteDone(p) \/ WriteFail(p) \/ WriteSleep(p)
                             \/ ReadDone(p) \/ Idle(p)
  BY DEF Next, Kernel
<1> HIDE DEF Step, Idle
<1>12. Step
  BY <1>5, <1>7, <1>8, <1>9, <1>10, <1>11
<1> QED
  BY <1>12 DEF Step

(* The ring of a pipe implements the bounded queue: no byte is lost,       *)
(* duplicated or reordered, over every wrap-around of nread, nwrite and    *)
(* the index.                                                              *)
THEOREM ImplementsFifo == Spec => AsFifo
<1>1. Init => Queue!Init
  <2> SUFFICES ASSUME Init PROVE Queue!Init
    OBVIOUS
  <2>1. Used = 0
    BY Start, UsedCounts, Zenon DEF PipeInv, Init, Empty
  <2>2. Loaded(0) = << >>
    BY DEF Loaded
  <2> QED
    BY <2>1, <2>2 DEF Init, Queue!Init
<1>2. PipeInv /\ [Next]_vars => [Queue!Next]_Queue!vars
  BY FifoStep DEF PipeInv
<1> QED
  BY <1>1, <1>2, PipeStays, PTL DEF Spec, AsFifo, Queue!Spec
-----------------------------------------------------------------------------
(* A function from 1 .. m is a sequence.                                   *)
LEMMA SeqOf ==
  ASSUME NEW S, NEW m \in Nat, NEW f \in [1 .. m -> S]
  PROVE  f \in Seq(S) /\ Len(f) = m
  OBVIOUS

(* What Append, concatenation and SubSeq are as functions.                 *)
LEMMA AppendIs ==
  ASSUME NEW S, NEW m \in Nat, NEW f \in [1 .. m -> S], NEW x \in S, NEW g \in [1 .. m + 1 -> S],
         \A i \in 1 .. m : g[i] = f[i], g[m + 1] = x
  PROVE  g = Append(f, x)
<1>1. f \in Seq(S) /\ Len(f) = m /\ g \in Seq(S) /\ Len(g) = m + 1
  BY SeqOf
<1>2. Append(f, x) \in Seq(S) /\ Len(Append(f, x)) = m + 1
  BY <1>1
<1>3. \A i \in 1 .. m + 1 : Append(f, x)[i] = g[i]
  BY <1>1
<1> QED
  BY <1>1, <1>2, <1>3, SeqEqual

(* h is f with g behind it, all of them as functions.                      *)
Joins(S, f, m, g, k, h) ==
  /\ m \in Nat /\ k \in Nat
  /\ f \in [1 .. m -> S] /\ g \in [1 .. k -> S] /\ h \in [1 .. m + k -> S]
  /\ \A i \in 1 .. m : h[i] = f[i]
  /\ \A i \in 1 .. k : h[m + i] = g[i]

(* The same for concatenation.                                             *)
LEMMA JoinIs ==
  ASSUME NEW S, NEW f, NEW m, NEW g, NEW k, NEW h, Joins(S, f, m, g, k, h)
  PROVE  h = f \o g
<1> USE DEF Joins
<1>1. f \in Seq(S) /\ Len(f) = m /\ g \in Seq(S) /\ Len(g) = k /\ h \in Seq(S) /\ Len(h) = m + k
  BY SeqOf
<1>2. /\ f \o g \in Seq(S) /\ Len(f \o g) = m + k
      /\ \A i \in 1 .. m + k : (f \o g)[i] = IF i <= m THEN f[i] ELSE g[i - m]
  BY <1>1, ConcatProperties, Zenon
<1>3. ASSUME NEW i \in 1 .. m + k PROVE (f \o g)[i] = h[i]
  <2>1. CASE i <= m
    BY <1>2, <2>1
  <2>2. CASE i > m
    <3>1. i - m \in 1 .. k /\ m + (i - m) = i
      BY <2>2
    <3> QED
      BY <1>2, <2>2, <3>1
  <2> QED
    BY <2>1, <2>2
<1> QED
  BY <1>1, <1>2, <1>3, SeqEqual, Zenon

(* The same for the sequence without k elements at its front.              *)
LEMMA RestIs ==
  ASSUME NEW S, NEW m \in Nat, NEW k \in 0 .. m, NEW f \in [1 .. m -> S],
         NEW g \in [1 .. m - k -> S], \A i \in 1 .. m - k : g[i] = f[k + i]
  PROVE  g = SubSeq(f, k + 1, m)
  BY SeqOf

(* The same for its first k elements.                                      *)
LEMMA FrontIs ==
  ASSUME NEW S, NEW m \in Nat, NEW k \in 0 .. m, NEW f \in [1 .. m -> S],
         NEW g \in [1 .. k -> S], \A i \in 1 .. k : g[i] = f[i]
  PROVE  g = SubSeq(f, 1, k)
  BY SeqOf

(* Every set of naturals has a least element.                              *)
LEMMA LeastNat ==
  ASSUME NEW S, S \subseteq Nat, S # {}
  PROVE  \E x \in S : \A y \in S : x <= y
<1>1. PICK x \in S : \A y \in S : ~(<<y, x>> \in OpToRel(<, Nat))
  BY WFMin, NatLessThanWellFounded, Zenon
<1>2. \A y \in S : <<y, x>> \in OpToRel(<, Nat) <=> y < x
  BY DEF OpToRel
<1>3. \A y \in S : x \in Nat /\ y \in Nat /\ ~(y < x)
  BY <1>1, <1>2, Zenon
<1>4. \A y \in S : x <= y
  BY <1>3
<1> QED
  BY <1>4
-----------------------------------------------------------------------------
(* The indices of the console's ring and what lies between two of them.    *)
Wide == MaxUint + 1
Cell(n, i) == Spot(Wide, INPUT_BUF, n, i)
RingOf(b, from, to) == [i \in 1 .. (to - from) % Wide |-> b[Cell(from, i - 1)]]

(* They are counters round a ring.                                         *)
LEMMA ConsRing ==
  /\ RingSizes(Wide, INPUT_BUF) /\ Wide \in Nat \ {0} /\ INPUT_BUF \in Nat \ {0}
  /\ INPUT_BUF < Wide /\ MaxUint = Wide - 1
  BY StreamConstants DEF Wide, RingSizes

(* The cells from a later index on.                                        *)
LEMMA CellsFrom ==
  ASSUME NEW n \in 0 .. Wide - 1, NEW k \in 0 .. INPUT_BUF, NEW i \in 0 .. INPUT_BUF,
         k + i <= INPUT_BUF
  PROVE  Cell(Add(Wide, n, k), i) = Cell(n, k + i)
<1>1. RingSizes(Wide, INPUT_BUF)
  BY ConsRing
<1> QED
  BY <1>1, SpotsFrom DEF Cell

(* The two parts of the ring: len finished characters from x to y, and ed  *)
(* edited ones from y to z, which follow them.                             *)
LEMMA TwoParts ==
  ASSUME NEW x \in 0 .. Wide - 1, NEW y \in 0 .. Wide - 1, NEW z \in 0 .. Wide - 1,
         NEW len, len = (y - x) % Wide, NEW ed, ed = (z - y) % Wide, len + ed <= INPUT_BUF
  PROVE  /\ GapFacts(Wide, INPUT_BUF, x, y, len) /\ GapFacts(Wide, INPUT_BUF, y, z, ed)
         /\ len \in 0 .. INPUT_BUF /\ ed \in 0 .. INPUT_BUF
         /\ (z - x) % Wide = len + ed
         /\ GapFacts(Wide, INPUT_BUF, x, z, len + ed)
<1>a. y - x \in Int /\ z - y \in Int /\ Wide \in Nat \ {0}
  BY ConsRing
<1>0. len \in 0 .. Wide - 1 /\ ed \in 0 .. Wide - 1
  BY <1>a, ModType, Zenon
<1>1. len <= INPUT_BUF /\ ed <= INPUT_BUF /\ len \in Nat /\ ed \in Nat
  BY <1>0, ConsRing
<1>2. GapFacts(Wide, INPUT_BUF, x, y, len) /\ GapFacts(Wide, INPUT_BUF, y, z, ed)
  BY <1>1, ConsRing, Gaps, Zenon
<1>3. ed \in 0 .. INPUT_BUF - len
  BY <1>1, ConsRing
<1>4. z = Add(Wide, y, ed)
  BY <1>2 DEF GapFacts
<1>5. (Add(Wide, y, ed) - x) % Wide = len + ed
  BY <1>2, <1>3, Zenon DEF GapFacts
<1>6. GapFacts(Wide, INPUT_BUF, x, z, len + ed)
  BY <1>4, <1>5, ConsRing, Gaps
<1> QED
  BY <1>1, <1>2, <1>4, <1>5, <1>6, ConsRing

(* The characters of both, counted from x on.                              *)
PartFacts(x, y, len, ed, b, S) ==
  /\ \A i \in 1 .. len : b[Cell(x, i - 1)] \in S
  /\ \A i \in 1 .. ed : /\ Cell(y, i - 1) = Cell(x, len + (i - 1))
                        /\ b[Cell(x, len + (i - 1))] \in S

(* They are where the indices say.                                         *)
LEMMA PartsAt ==
  ASSUME NEW x \in 0 .. Wide - 1, NEW len \in 0 .. INPUT_BUF, NEW ed \in 0 .. INPUT_BUF,
         len + ed <= INPUT_BUF, NEW y, y = Add(Wide, x, len),
         NEW S, NEW b \in [0 .. INPUT_BUF - 1 -> S]
  PROVE  PartFacts(x, y, len, ed, b, S)
<1>2. ASSUME NEW i \in 1 .. len PROVE b[Cell(x, i - 1)] \in S
  <2>1. i - 1 \in 0 .. INPUT_BUF - 1
    BY ConsRing
  <2> QED
    BY <2>1, ConsRing, SpotsDiffer, Zenon DEF Cell
<1>3. ASSUME NEW i \in 1 .. ed
      PROVE  Cell(y, i - 1) = Cell(x, len + (i - 1)) /\ b[Cell(x, len + (i - 1))] \in S
  <2> DEFINE j == i - 1
  <2>1. j \in 0 .. INPUT_BUF /\ len + j <= INPUT_BUF /\ len + j \in 0 .. INPUT_BUF - 1
    BY ConsRing
  <2> HIDE DEF j
  <2>2. Cell(y, j) = Cell(x, len + j)
    BY <2>1, CellsFrom
  <2>3. Cell(x, len + j) \in 0 .. INPUT_BUF - 1
    BY <2>1, ConsRing, SpotsDiffer, Zenon DEF Cell
  <2> QED
    BY <2>2, <2>3 DEF j
<1> QED
  BY <1>2, <1>3 DEF PartFacts
-----------------------------------------------------------------------------
(* The indices and the ring of the console are sound: the finished and the *)
(* edited characters fit.                                                  *)
Waiting == (w - r) % Wide
Editing == (e - w) % Wide
Cells == Char \cup {"nul"}

IndicesOK ==
  /\ buf \in [0 .. INPUT_BUF - 1 -> Cells]
  /\ r \in 0 .. Wide - 1 /\ w \in 0 .. Wide - 1 /\ e \in 0 .. Wide - 1
  /\ Waiting + Editing <= INPUT_BUF

(* The names that the module Console has for this.                         *)
LEMMA ConsNames ==
  ASSUME NEW b, NEW x \in 0 .. Wide - 1, NEW y \in 0 .. Wide - 1
  PROVE  /\ \A i : Cons!uint(i) = i % Wide
         /\ [i \in 1 .. Cons!uint(y - x) |-> b[Cons!uint(x + i - 1) % INPUT_BUF]] = RingOf(b, x, y)
<1>1. \A i : Cons!uint(i) = i % Wide
  BY DEF Cons!uint, Wide
<1>2. ASSUME NEW i \in Int PROVE x + i - 1 = x + (i - 1)
  OBVIOUS
<1> QED
  BY <1>1, <1>2 DEF RingOf, Cell, Spot

(* The refinement mapping, now and after a step.                           *)
LEMMA Mapped ==
  /\ IndicesOK => Cons!Ring(r, w) = RingOf(buf, r, w) /\ Cons!Ring(w, e) = RingOf(buf, w, e)
  /\ IndicesOK' => /\ Cons!Ring(r, w)' = RingOf(buf', r', w')
                   /\ Cons!Ring(w, e)' = RingOf(buf', w', e')
  BY ConsNames, Zenon DEF IndicesOK, Cons!Ring

(* What the indices are worth, and the finished and the edited characters  *)
(* as functions.                                                           *)
IndexFacts ==
  /\ Waiting \in 0 .. INPUT_BUF /\ Editing \in 0 .. INPUT_BUF /\ (e - r) % Wide = Waiting + Editing
  /\ GapFacts(Wide, INPUT_BUF, r, w, Waiting) /\ GapFacts(Wide, INPUT_BUF, w, e, Editing)
  /\ GapFacts(Wide, INPUT_BUF, r, e, Waiting + Editing)
  /\ RingOf(buf, r, w) \in [1 .. Waiting -> Cells]
  /\ \A i \in 1 .. Waiting : RingOf(buf, r, w)[i] = buf[Cell(r, i - 1)]
  /\ RingOf(buf, w, e) \in [1 .. Editing -> Cells]
  /\ \A i \in 1 .. Editing : RingOf(buf, w, e)[i] = buf[Cell(r, Waiting + (i - 1))]

(* They follow from the invariant.                                         *)
LEMMA Indices == ASSUME IndicesOK PROVE IndexFacts
<1>1. /\ Waiting \in 0 .. INPUT_BUF /\ Editing \in 0 .. INPUT_BUF
      /\ (e - r) % Wide = Waiting + Editing
      /\ GapFacts(Wide, INPUT_BUF, r, w, Waiting) /\ GapFacts(Wide, INPUT_BUF, w, e, Editing)
      /\ GapFacts(Wide, INPUT_BUF, r, e, Waiting + Editing)
  BY TwoParts DEF IndicesOK, Waiting, Editing
<1>2. w = Add(Wide, r, Waiting)
  BY <1>1 DEF GapFacts
<1> DEFINE l == Waiting
           m == Editing
<1>a. /\ buf \in [0 .. INPUT_BUF - 1 -> Cells] /\ r \in 0 .. Wide - 1
      /\ Waiting + Editing <= INPUT_BUF
  BY DEF IndicesOK
<1>3. /\ \A i \in 1 .. Waiting : buf[Cell(r, i - 1)] \in Cells
      /\ \A i \in 1 .. Editing : /\ Cell(w, i - 1) = Cell(r, Waiting + (i - 1))
                                 /\ buf[Cell(r, Waiting + (i - 1))] \in Cells
  <2>1. l \in 0 .. INPUT_BUF /\ m \in 0 .. INPUT_BUF /\ l + m <= INPUT_BUF /\ w = Add(Wide, r, l)
    BY <1>1, <1>2, <1>a
  <2> HIDE DEF l, m
  <2>2. PartFacts(r, w, l, m, buf, Cells)
    BY <1>a, <2>1, PartsAt, Zenon
  <2> QED
    BY <2>2, Zenon DEF l, m, PartFacts
<1>4. /\ RingOf(buf, r, w) = [i \in 1 .. Waiting |-> buf[Cell(r, i - 1)]]
      /\ RingOf(buf, w, e) = [i \in 1 .. Editing |-> buf[Cell(w, i - 1)]]
  BY DEF RingOf, Waiting, Editing
<1> QED
  BY <1>1, <1>3, <1>4, Zenon DEF IndexFacts
-----------------------------------------------------------------------------
(* consoleintr() stores a character: it is the last of the edited line,    *)
(* or the line is finished with it, when it ends one or takes the last     *)
(* place.                                                                  *)
LEMMA Typed ==
  ASSUME IndicesOK, NEW c \in Char, Cons!Type(c)
  PROVE  IndicesOK' /\ Input!Type(c) /\ ((e' - r') % Wide = INPUT_BUF => w' = e')
<1> DEFINE l == Waiting
           m == Editing
           t == l + m
           line == RingOf(buf, w, e)
           input == RingOf(buf, r, w)
<1>0. /\ buf \in [0 .. INPUT_BUF - 1 -> Cells]
      /\ r \in 0 .. Wide - 1 /\ w \in 0 .. Wide - 1 /\ e \in 0 .. Wide - 1
      /\ l + m <= INPUT_BUF
  BY DEF IndicesOK
<1>1. IndexFacts
  BY Indices
<1>2. /\ l \in 0 .. INPUT_BUF /\ m \in 0 .. INPUT_BUF /\ (e - r) % Wide = t
      /\ input \in [1 .. l -> Cells] /\ line \in [1 .. m -> Cells]
      /\ \A i \in 1 .. l : input[i] = buf[Cell(r, i - 1)]
      /\ \A i \in 1 .. m : line[i] = buf[Cell(r, l + (i - 1))]
  BY <1>1, Zenon DEF IndexFacts
<1>3. /\ GapFacts(Wide, INPUT_BUF, w, e, m) /\ GapFacts(Wide, INPUT_BUF, r, e, t)
      /\ l = (w - r) % Wide
  BY <1>1 DEF IndexFacts, Waiting
<1>4. /\ (e - r) % Wide < INPUT_BUF /\ buf' = [buf EXCEPT ![e % INPUT_BUF] = c]
      /\ e' = (e + 1) % Wide /\ r' = r
      /\ IF c \in {"newline", "eof"} \/ (e + 1) % Wide = (r + INPUT_BUF) % Wide
         THEN w' = e' ELSE w' = w
  BY DEF Cons!Type, Cons!Room, Cons!Commits, Cons!EndsLine, Cons!uint, Wide
<1>M. /\ Cons!Ring(r, w) = input /\ Cons!Ring(w, e) = line
      /\ IndicesOK' => /\ Cons!Ring(r, w)' = RingOf(buf', r', w')
                       /\ Cons!Ring(w, e)' = RingOf(buf', w', e')
  BY Mapped
<1>I. IndicesOK' <=>
        /\ buf' \in [0 .. INPUT_BUF - 1 -> Cells]
        /\ r' \in 0 .. Wide - 1 /\ w' \in 0 .. Wide - 1 /\ e' \in 0 .. Wide - 1
        /\ ((w' - r') % Wide) + ((e' - w') % Wide) <= INPUT_BUF
  BY DEF IndicesOK, Waiting, Editing
<1>c. c \in Cells
  BY DEF Cells
<1> HIDE DEF l, m, line, input
<1>5. /\ INPUT_BUF \in Nat \ {0} /\ Wide \in Nat \ {0} /\ INPUT_BUF < Wide
      /\ t \in 0 .. INPUT_BUF - 1 /\ 1 \in 0 .. INPUT_BUF - t /\ 1 \in 0 .. INPUT_BUF - m
      /\ t + 1 <= INPUT_BUF
  BY <1>0, <1>2, <1>4, ConsRing
<1>6. e' = Add(Wide, e, 1) /\ e' \in 0 .. Wide - 1
  <2>1. 1 \in 0 .. Wide
    BY <1>5
  <2> QED
    BY <1>0, <1>4, <1>5, <2>1, AddMod, Zenon
<1>7. (e' - r) % Wide = t + 1 /\ (e' - w) % Wide = m + 1
  BY <1>3, <1>5, <1>6, Zenon DEF GapFacts
<1>8. e' = (r + INPUT_BUF) % Wide <=> t + 1 = INPUT_BUF
  <2>1. GapFacts(Wide, INPUT_BUF, r, e', t + 1)
    BY <1>0, <1>5, <1>6, <1>7, ConsRing, Gaps, Zenon
  <2> QED
    BY <2>1 DEF GapFacts
<1> DEFINE at == e % INPUT_BUF
<1>9. at = Cell(r, t) /\ at \in 0 .. INPUT_BUF - 1
  <2>1. e = Add(Wide, r, t) /\ e % Wide = e
    <3>1. e = Add(Wide, r, t)
      BY <1>3 DEF GapFacts
    <3> QED
      BY <1>0, <1>5, <3>1, ModLow
  <2>2. Cell(e, 0) = Cell(r, t + 0)
    <3>1. t \in 0 .. INPUT_BUF /\ 0 \in 0 .. INPUT_BUF /\ t + 0 <= INPUT_BUF
      BY <1>5
    <3> HIDE DEF t
    <3> QED
      BY <1>0, <2>1, <3>1, CellsFrom, Zenon
  <2>3. Cell(e, 0) = at
    BY <1>0, <2>1 DEF Cell, Spot
  <2>4. at = Cell(r, t)
    BY <1>5, <2>2, <2>3
  <2> QED
    BY <1>0, <1>5, <2>4, ConsRing, SpotsDiffer DEF Cell
<1>10. /\ buf' \in [0 .. INPUT_BUF - 1 -> Cells] /\ buf'[Cell(r, t)] = c
       /\ \A i \in 0 .. t - 1 : buf'[Cell(r, i)] = buf[Cell(r, i)]
  <2> HIDE DEF at
  <2>0. buf' = [buf EXCEPT ![at] = c]
    BY <1>4 DEF at
  <2>1. ASSUME NEW i \in 0 .. t - 1 PROVE buf'[Cell(r, i)] = buf[Cell(r, i)]
    <3>1. i \in 0 .. INPUT_BUF - 1 /\ t \in 0 .. INPUT_BUF - 1 /\ i # t
      BY <1>5
    <3>2. Cell(r, i) \in 0 .. INPUT_BUF - 1 /\ Cell(r, i) # Cell(r, t)
      BY <1>0, <3>1, ConsRing, SpotsDiffer, Zenon DEF Cell
    <3> QED
      BY <1>0, <1>9, <2>0, <3>2
  <2> QED
    BY <1>0, <1>9, <2>0, <2>1, <1>c
<1> HIDE DEF at
(* The line with the new character.                                        *)
<1> DEFINE longer == [i \in 1 .. m + 1 |-> buf'[Cell(r, l + (i - 1))]]
<1>l. \A i \in 1 .. m + 1 : longer[i] = buf'[Cell(r, l + (i - 1))]
  OBVIOUS
<1>11. longer \in [1 .. m + 1 -> Cells] /\ longer = Append(line, c)
  <2>1. ASSUME NEW i \in 1 .. m PROVE longer[i] = line[i]
    <3>1. i \in 1 .. m + 1 /\ l + (i - 1) \in 0 .. t - 1
      BY <1>2
    <3> QED
      BY <1>2, <1>10, <3>1, Zenon
  <2>2. longer[m + 1] = c
    <3>1. m + 1 \in 1 .. m + 1 /\ l + ((m + 1) - 1) = t
      BY <1>2
    <3>2. longer[m + 1] = buf'[Cell(r, l + ((m + 1) - 1))]
      <4> DEFINE j == m + 1
      <4>1. j \in 1 .. m + 1
        BY <3>1
      <4> HIDE DEF j, longer
      <4>2. longer[j] = buf'[Cell(r, l + (j - 1))]
        BY <1>l, <4>1, Zenon
      <4> QED
        BY <4>2, Zenon DEF j
    <3> QED
      BY <1>10, <3>1, <3>2
  <2>3. \A i \in 1 .. m : line[i] \in Cells
    BY <1>2
  <2>4. ASSUME NEW i \in 1 .. m + 1 PROVE buf'[Cell(r, l + (i - 1))] \in Cells
    <3>1. i \in 1 .. m \/ i = m + 1
      BY <1>2
    <3> QED
      BY <1>c, <2>1, <2>2, <2>3, <3>1
  <2>5. longer \in [1 .. m + 1 -> Cells]
    BY <2>4, Zenon
  <2>6. m \in Nat
    BY <1>2
  <2> HIDE DEF longer
  <2> QED
    BY <1>2, <1>c, <2>1, <2>2, <2>5, <2>6, AppendIs
<1>12. Len(line) = m /\ Len(input) = l
  BY <1>2, SeqOf
<1> DEFINE ends == c \in {"newline", "eof"} \/ t + 1 = INPUT_BUF
<1>13. Input!Type(c) <=>
         /\ m + l < INPUT_BUF
         /\ IF c \in {"newline", "eof"} \/ m + l + 1 = INPUT_BUF
            THEN Cons!Ring(w, e)' = <<>> /\ Cons!Ring(r, w)' = input \o longer
            ELSE Cons!Ring(w, e)' = longer /\ Cons!Ring(r, w)' = input
  BY <1>11, <1>12, <1>M, Zenon DEF Input!Type, Input!EndsLine
<1>14. m + l < INPUT_BUF /\ (m + l + 1 = INPUT_BUF <=> t + 1 = INPUT_BUF)
  BY <1>2, <1>5
<1>15. IF ends THEN w' = e' ELSE w' = w
  BY <1>4, <1>8
<1>16. CASE ends
  <2>1. w' = e' /\ r' = r
    BY <1>4, <1>15, <1>16
  <2>2. (e' - w') % Wide = 0
    BY <1>5, <1>6, <2>1, ModLow
  <2>3. IndicesOK'
    <3>1. t + 1 + 0 <= INPUT_BUF
      BY <1>5
    <3>2. ((w' - r') % Wide) + ((e' - w') % Wide) <= INPUT_BUF
      BY <1>7, <2>1, <2>2, <3>1, Zenon
    <3> QED
      BY <1>0, <1>6, <1>10, <2>1, <3>2, <1>I, Zenon
  <2>4. Cons!Ring(w, e)' = <<>>
    BY <1>M, <2>2, <2>3 DEF RingOf
  <2> DEFINE all == [i \in 1 .. t + 1 |-> buf'[Cell(r, i - 1)]]
  <2>a. \A i \in 1 .. t + 1 : all[i] = buf'[Cell(r, i - 1)]
    OBVIOUS
  <2>5. Cons!Ring(r, w)' = all
    BY <1>7, <1>M, <2>1, <2>3 DEF RingOf
  <2>6. ASSUME NEW i \in 1 .. l PROVE all[i] = input[i]
    <3>1. i \in 1 .. t + 1 /\ i - 1 \in 0 .. t - 1
      BY <1>2
    <3> QED
      BY <1>2, <1>10, <3>1, Zenon
  <2>7. ASSUME NEW i \in 1 .. m + 1 PROVE all[l + i] = longer[i]
    <3>1. l + i \in 1 .. t + 1 /\ (l + i) - 1 = l + (i - 1)
      BY <1>2
    <3>2. all[l + i] = buf'[Cell(r, (l + i) - 1)]
      <4> DEFINE j == l + i
      <4>1. j \in 1 .. t + 1
        BY <3>1
      <4> HIDE DEF j, all
      <4>2. all[j] = buf'[Cell(r, j - 1)]
        BY <2>a, <4>1, Zenon
      <4> QED
        BY <4>2, Zenon DEF j
    <3>3. longer[i] = buf'[Cell(r, l + (i - 1))]
      OBVIOUS
    <3> QED
      BY <3>1, <3>2, <3>3, Zenon
  <2>8. t + 1 = l + (m + 1) /\ l \in Nat /\ m + 1 \in Nat
    BY <1>2
  <2>9. ASSUME NEW i \in 1 .. t + 1 PROVE all[i] \in Cells
    <3>1. i \in 1 .. l \/ (i - l \in 1 .. m + 1 /\ l + (i - l) = i)
      BY <1>2
    <3>2. CASE i \in 1 .. l
      BY <1>2, <2>6, <3>2, Zenon
    <3>3. CASE i - l \in 1 .. m + 1 /\ l + (i - l) = i
      <4> HIDE DEF all, longer
      <4> QED
        BY <1>11, <2>7, <3>3, Zenon
    <3> QED
      BY <3>1, <3>2, <3>3
  <2>10. all \in [1 .. l + (m + 1) -> Cells]
    BY <2>8, <2>9
  <2>11. all = input \o longer
    <3> DEFINE k == m + 1
    <3>1. /\ longer \in [1 .. k -> Cells] /\ all \in [1 .. l + k -> Cells] /\ k \in Nat
          /\ \A i \in 1 .. k : all[l + i] = longer[i]
      BY <1>11, <2>7, <2>8, <2>10, Zenon
    <3> HIDE DEF all, longer, k
    <3>2. Joins(Cells, input, l, longer, k, all)
      BY <1>2, <2>6, <2>8, <3>1, Zenon DEF Joins
    <3> QED
      BY <3>2, JoinIs, Zenon
  <2> HIDE DEF all, longer
  <2> QED
    BY <1>13, <1>14, <1>16, <2>1, <2>3, <2>4, <2>5, <2>11, Zenon
<1>17. CASE ~ends
  <2>1. w' = w /\ r' = r
    BY <1>4, <1>15, <1>17
  <2>2. ((w' - r') % Wide) + ((e' - w') % Wide) <= INPUT_BUF
    <3>1. l + (m + 1) <= INPUT_BUF
      BY <1>2, <1>5
    <3> QED
      BY <1>3, <1>7, <2>1, <3>1, Zenon
  <2>3. IndicesOK'
    BY <1>0, <1>6, <1>10, <2>1, <2>2, <1>I, Zenon
  <2>4. /\ Cons!Ring(w, e)' = [i \in 1 .. m + 1 |-> buf'[Cell(w, i - 1)]]
        /\ Cons!Ring(r, w)' = [i \in 1 .. l |-> buf'[Cell(r, i - 1)]]
    BY <1>3, <1>7, <1>M, <2>1, <2>3 DEF RingOf
  <2>5. \A i \in 1 .. m + 1 : Cell(w, i - 1) = Cell(r, l + (i - 1))
    <3>1. w = Add(Wide, r, l)
      BY <1>1, Zenon DEF IndexFacts, GapFacts, l
    <3>2. m + 1 \in 0 .. INPUT_BUF /\ l + (m + 1) <= INPUT_BUF
      BY <1>2, <1>5
    <3>3. PartFacts(r, w, l, m + 1, buf', Cells)
      BY <1>0, <1>2, <1>10, <3>1, <3>2, PartsAt, Zenon
    <3> QED
      BY <3>3, Zenon DEF PartFacts
  <2>6. ASSUME NEW i \in 1 .. l PROVE buf'[Cell(r, i - 1)] = input[i]
    <3>1. i - 1 \in 0 .. t - 1
      BY <1>2
    <3> QED
      BY <1>2, <1>10, <3>1, Zenon
  <2>7. Cons!Ring(w, e)' = longer
    BY <2>4, <2>5, Zenon
  <2>8. Cons!Ring(r, w)' = input
    <3>1. input = [i \in 1 .. l |-> input[i]]
      BY <1>2
    <3> QED
      BY <2>4, <2>6, <3>1, Zenon
  <2>9. (e' - r') % Wide # INPUT_BUF
    BY <1>7, <1>17, <2>1
  <2> HIDE DEF longer
  <2> QED
    BY <1>13, <1>14, <1>17, <2>3, <2>7, <2>8, <2>9
<1> QED
  BY <1>16, <1>17
-----------------------------------------------------------------------------
(* Backspace and control-U keep the first k characters of the edited line. *)
LEMMA Erased ==
  ASSUME IndicesOK, NEW k \in 0 .. Editing, e' = (w + k) % Wide, UNCHANGED <<buf, r, w>>
  PROVE  IndicesOK' /\ Input!Erase /\ (e' - r') % Wide = Waiting + k /\ (w = e => w' = e')
<1> DEFINE l == Waiting
           m == Editing
           line == RingOf(buf, w, e)
<1>0. /\ buf \in [0 .. INPUT_BUF - 1 -> Cells]
      /\ r \in 0 .. Wide - 1 /\ w \in 0 .. Wide - 1 /\ e \in 0 .. Wide - 1
      /\ l + m <= INPUT_BUF
  BY DEF IndicesOK
<1>1. /\ l \in 0 .. INPUT_BUF /\ m \in 0 .. INPUT_BUF /\ l = (w - r) % Wide
      /\ GapFacts(Wide, INPUT_BUF, w, e, m) /\ GapFacts(Wide, INPUT_BUF, r, w, l)
      /\ line \in [1 .. m -> Cells]
  BY Indices DEF IndexFacts, Waiting
<1>M. /\ Cons!Ring(r, w) = RingOf(buf, r, w) /\ Cons!Ring(w, e) = line
      /\ IndicesOK' => /\ Cons!Ring(r, w)' = RingOf(buf', r', w')
                       /\ Cons!Ring(w, e)' = RingOf(buf', w', e')
  BY Mapped
<1>I. IndicesOK' <=>
        /\ buf' \in [0 .. INPUT_BUF - 1 -> Cells]
        /\ r' \in 0 .. Wide - 1 /\ w' \in 0 .. Wide - 1 /\ e' \in 0 .. Wide - 1
        /\ ((w' - r') % Wide) + ((e' - w') % Wide) <= INPUT_BUF
  BY DEF IndicesOK, Waiting, Editing
<1>l. line = [i \in 1 .. m |-> buf[Cell(w, i - 1)]]
  BY DEF RingOf, Editing
<1>2. k \in 0 .. m
  OBVIOUS
<1> HIDE DEF l, m, line
<1>3. /\ k \in 0 .. INPUT_BUF /\ k \in 0 .. Wide /\ k \in 0 .. INPUT_BUF - l /\ l + k <= INPUT_BUF
      /\ Wide \in Nat \ {0} /\ INPUT_BUF \in Nat \ {0}
  BY <1>0, <1>1, <1>2, ConsRing
<1>4. e' = Add(Wide, w, k) /\ e' \in 0 .. Wide - 1
  BY <1>0, <1>3, AddMod, Zenon
<1>5. (e' - r) % Wide = l + k
  BY <1>1, <1>3, <1>4, Zenon DEF GapFacts
<1>6. (e' - w) % Wide = k
  <2>1. 0 = (w - w) % Wide /\ 0 <= INPUT_BUF
    BY <1>0, <1>3, ModLow
  <2>2. GapFacts(Wide, INPUT_BUF, w, w, 0)
    BY <1>0, <2>1, ConsRing, Gaps, Zenon
  <2>3. k \in 0 .. INPUT_BUF - 0 /\ 0 + k = k
    BY <1>3
  <2> QED
    BY <1>4, <2>2, <2>3, Zenon DEF GapFacts
<1>7. IndicesOK'
  <2>1. ((w' - r') % Wide) + ((e' - w') % Wide) <= INPUT_BUF
    BY <1>1, <1>3, <1>6, Zenon
  <2> QED
    BY <1>0, <1>4, <1>I, <2>1, Zenon
<1>8. Cons!Ring(r, w)' = Cons!Ring(r, w)
  BY <1>7, <1>M
<1> DEFINE short == [i \in 1 .. k |-> buf[Cell(w, i - 1)]]
<1>9. Cons!Ring(w, e)' = short
  BY <1>6, <1>7, <1>M, Zenon DEF RingOf
<1>10. short = SubSeq(line, 1, k)
  <2>1. ASSUME NEW i \in 1 .. k PROVE short[i] = line[i] /\ short[i] \in Cells
    <3>1. i \in 1 .. m
      BY <1>1, <1>2
    <3> QED
      BY <1>1, <1>l, <3>1
  <2>2. short \in [1 .. k -> Cells]
    BY <2>1
  <2>3. m \in Nat
    BY <1>1
  <2> HIDE DEF short
  <2> QED
    BY <1>1, <1>2, <2>1, <2>2, <2>3, FrontIs
<1>11. Len(line) = m
  BY <1>1, SeqOf
<1>12. Input!Erase
  <2> HIDE DEF short
  <2> QED
    BY <1>2, <1>8, <1>9, <1>10, <1>11, <1>M, Zenon DEF Input!Erase
<1>13. w = e => w' = e'
  <2>1. w = e => m = 0
    BY <1>1 DEF GapFacts
  <2>2. w = e => k = 0
    BY <1>2, <2>1
  <2>3. (w + 0) % Wide = w
    BY <1>0, <1>3, ModLow
  <2> QED
    BY <2>2, <2>3
<1> QED
  BY <1>5, <1>7, <1>12, <1>13, Zenon DEF l

(* Backspace is the case of one character less.                            *)
LEMMA BackspaceErases ==
  ASSUME IndicesOK, Cons!Backspace
  PROVE  \E k \in 0 .. Editing : e' = (w + k) % Wide
<1> DEFINE m == Editing
           k == m - 1
<1>0. w \in 0 .. Wide - 1 /\ e \in 0 .. Wide - 1 /\ Wide \in Nat \ {0} /\ INPUT_BUF \in Nat \ {0}
      /\ INPUT_BUF < Wide
  BY ConsRing DEF IndicesOK
<1>1. m \in 0 .. INPUT_BUF /\ GapFacts(Wide, INPUT_BUF, w, e, m)
  BY Indices DEF IndexFacts
<1>2. e # w /\ e' = (e - 1) % Wide
  BY DEF Cons!Backspace, Cons!uint, Wide
<1> HIDE DEF m
<1>3. e = Add(Wide, w, m) /\ m # 0
  BY <1>1, <1>2 DEF GapFacts
<1>4. k \in 0 .. m /\ k \in 0 .. Wide /\ 1 \in 0 .. Wide - 1
  BY <1>0, <1>1, <1>3
<1>5. (e - 1) % Wide = IF 1 <= e THEN e - 1 ELSE e - 1 + Wide
  BY <1>0, <1>4, GapIs, Zenon
<1>6. (w + k) % Wide = Add(Wide, w, k)
  BY <1>0, <1>4, AddMod, Zenon
<1>7. Add(Wide, w, k) = IF 1 <= e THEN e - 1 ELSE e - 1 + Wide
  BY <1>0, <1>1, <1>3 DEF Add
<1>8. e' = (w + k) % Wide
  BY <1>2, <1>5, <1>6, <1>7
<1> HIDE DEF k
<1> QED
  BY <1>4, <1>8, Zenon DEF m

(* Control-U too.                                                          *)
LEMMA KillErases ==
  ASSUME IndicesOK, Cons!KillLine
  PROVE  \E k \in 0 .. Editing : e' = (w + k) % Wide
  BY DEF Cons!KillLine, Cons!uint, Wide, Editing
-----------------------------------------------------------------------------
(* consoleread(): the loop stops behind the first end of a line, or when   *)
(* it has enough or nothing is left.                                       *)
TakesFacts(p, k, most) ==
  /\ most \in Nat /\ most <= left[p] /\ most <= Waiting /\ (most = left[p] \/ most = Waiting)
  /\ k \in 0 .. most
  /\ \A i \in 1 .. k - 1 : ~Cons!EndsLine(Cons!At(i))
  /\ k = most \/ (k > 0 /\ Cons!EndsLine(Cons!At(k)))

(* There is such a number.                                                 *)
LEMMA TakesIs ==
  ASSUME IndicesOK, NEW p \in Proc, left[p] \in Nat
  PROVE  TakesFacts(p, Cons!Takes(p), Cons!Smaller(left[p], Cons!Available))
<1> DEFINE most == Cons!Smaller(left[p], Cons!Available)
           Stops(k) == /\ \A i \in 1 .. k - 1 : ~Cons!EndsLine(Cons!At(i))
                       /\ k = most \/ (k > 0 /\ Cons!EndsLine(Cons!At(k)))
           Ends == {i \in 1 .. most : Cons!EndsLine(Cons!At(i))}
<1>1. /\ most \in Nat /\ most <= left[p] /\ most <= Waiting
      /\ most = left[p] \/ most = Waiting
  <2>1. Cons!Available = Waiting /\ Waiting \in 0 .. INPUT_BUF
    BY Indices DEF Cons!Available, Cons!uint, Waiting, Wide, IndexFacts
  <2> QED
    BY <2>1, ConsRing DEF Cons!Smaller
<1> HIDE DEF most
<1>2. \E k \in 0 .. most : Stops(k)
  <2>1. CASE Ends = {}
    <3>1. Stops(most) /\ most \in 0 .. most
      BY <1>1, <2>1
    <3> QED
      BY <3>1
  <2>2. CASE Ends # {}
    <3>1. Ends \subseteq Nat
      OBVIOUS
    <3>2. PICK k \in Ends : \A i \in Ends : k <= i
      BY <2>2, <3>1, LeastNat, Zenon
    <3>3. k \in 1 .. most /\ Cons!EndsLine(Cons!At(k))
      BY <3>2
    <3>4. \A i \in 1 .. k - 1 : ~Cons!EndsLine(Cons!At(i))
      BY <1>1, <3>2, <3>3
    <3> QED
      BY <1>1, <3>3, <3>4
  <2> QED
    BY <2>1, <2>2
<1>3. Cons!Takes(p) = CHOOSE k \in 0 .. most : Stops(k)
  BY DEF Cons!Takes, most
<1> DEFINE k == CHOOSE j \in 0 .. most : Stops(j)
<1>4. k \in 0 .. most /\ Stops(k)
  BY <1>2, Zenon
<1>5. Cons!Takes(p) \in 0 .. most /\ Stops(Cons!Takes(p))
  BY <1>3, <1>4, Zenon
<1> QED
  BY <1>1, <1>5, Zenon DEF TakesFacts, most

(* consoleread() takes characters from the front of the finished input,    *)
(* up to the end of a line, and goes to sleep when none are left only.     *)
LEMMA WasRead ==
  ASSUME IndicesOK, NEW p \in Proc, left[p] \in Nat, Cons!Read(p)
  PROVE  /\ IndicesOK' /\ (Input!Read \/ UNCHANGED Input!vars)
         /\ r = w => r' = r
         /\ (e' - r') % Wide = INPUT_BUF => r' = r
         /\ ~Cons!Returns(p) => r' = w
         /\ Cons!Takes(p) \in 0 .. left[p]
<1> DEFINE l == Waiting
           m == Editing
           k == Cons!Takes(p)
           most == Cons!Smaller(left[p], Cons!Available)
           q == IF Cons!KeepsEof(p) THEN k - 1 ELSE k
           input == RingOf(buf, r, w)
<1>0. /\ buf \in [0 .. INPUT_BUF - 1 -> Cells]
      /\ r \in 0 .. Wide - 1 /\ w \in 0 .. Wide - 1 /\ e \in 0 .. Wide - 1
      /\ l + m <= INPUT_BUF
  BY DEF IndicesOK
<1>1. /\ l \in 0 .. INPUT_BUF /\ m \in 0 .. INPUT_BUF /\ m = (e - w) % Wide
      /\ GapFacts(Wide, INPUT_BUF, r, w, l) /\ GapFacts(Wide, INPUT_BUF, r, e, l + m)
      /\ input \in [1 .. l -> Cells]
  BY Indices DEF IndexFacts, Editing
<1>t. TakesFacts(p, k, most)
  BY TakesIs
<1>2. /\ most \in Nat /\ most <= left[p] /\ most <= l /\ (most = left[p] \/ most = l)
      /\ k \in 0 .. most
      /\ \A i \in 1 .. k - 1 : ~Cons!EndsLine(Cons!At(i))
      /\ k = most \/ (k > 0 /\ Cons!EndsLine(Cons!At(k)))
  BY <1>t, Zenon DEF TakesFacts
<1>3. /\ Cons!KeepsEof(p) => k > 0 /\ Cons!Returns(p)
      /\ ~Cons!Returns(p) => k # left[p] /\ ~(k > 0 /\ Cons!EndsLine(Cons!At(k)))
  BY DEF Cons!KeepsEof, Cons!Returns, Cons!EndsLine
<1>4. r' = (IF Cons!KeepsEof(p) THEN (r + k - 1) % Wide ELSE (r + k) % Wide)
      /\ buf' = buf /\ w' = w /\ e' = e
  BY DEF Cons!Read, Cons!uint, Wide
<1>M. /\ Cons!Ring(r, w) = input /\ Cons!Ring(w, e) = RingOf(buf, w, e)
      /\ IndicesOK' => /\ Cons!Ring(r, w)' = RingOf(buf', r', w')
                       /\ Cons!Ring(w, e)' = RingOf(buf', w', e')
  BY Mapped
<1>I. IndicesOK' <=>
        /\ buf' \in [0 .. INPUT_BUF - 1 -> Cells]
        /\ r' \in 0 .. Wide - 1 /\ w' \in 0 .. Wide - 1 /\ e' \in 0 .. Wide - 1
        /\ ((w' - r') % Wide) + ((e' - w') % Wide) <= INPUT_BUF
  BY DEF IndicesOK, Waiting, Editing
<1>l. input = [i \in 1 .. l |-> buf[Cell(r, i - 1)]]
  BY DEF RingOf, Waiting
<1>A. \A i : Cons!At(i) = buf[Cell(r, i - 1)]
  BY DEF Cons!At, Cons!uint, Cell, Spot, Wide
<1> HIDE DEF l, m, k, most, input
<1>5. /\ q \in 0 .. l /\ q \in 0 .. Wide /\ q \in 0 .. l + m /\ q <= k
      /\ r' = (r + q) % Wide
      /\ Wide \in Nat \ {0} /\ INPUT_BUF \in Nat \ {0}
      /\ ~Cons!Returns(p) => q = l
      /\ k \in 0 .. left[p]
  <2>1. q \in 0 .. l /\ q <= k /\ k \in 0 .. left[p] /\ (~Cons!Returns(p) => q = l)
    BY <1>1, <1>2, <1>3
  <2>2. r + k - 1 = r + (k - 1)
    OBVIOUS
  <2>3. r' = (r + q) % Wide
    BY <1>4, <2>2
  <2> HIDE DEF q
  <2> QED
    BY <1>1, <2>1, <2>3, ConsRing
<1> HIDE DEF q
<1>6. r' = Add(Wide, r, q) /\ r' \in 0 .. Wide - 1
  BY <1>0, <1>5, AddMod, Zenon
<1>7. (w - r') % Wide = l - q /\ (e - r') % Wide = (l + m) - q
  BY <1>1, <1>5, <1>6, Zenon DEF GapFacts
<1>8. IndicesOK'
  <2>1. (l - q) + m <= INPUT_BUF
    BY <1>0, <1>1, <1>5
  <2>2. ((w' - r') % Wide) + ((e' - w') % Wide) <= INPUT_BUF
    BY <1>1, <1>4, <1>7, <2>1, Zenon
  <2> QED
    BY <1>0, <1>4, <1>6, <1>I, <2>2, Zenon
<1>9. Cons!Ring(w, e)' = Cons!Ring(w, e)
  BY <1>4, <1>8, <1>M
<1> DEFINE rest == [i \in 1 .. l - q |-> buf[Cell(r', i - 1)]]
<1>10. Cons!Ring(r, w)' = rest
  BY <1>4, <1>7, <1>8, <1>M, Zenon DEF RingOf
<1>11. rest = SubSeq(input, q + 1, l)
  <2>1. ASSUME NEW i \in 1 .. l - q PROVE rest[i] = input[q + i] /\ rest[i] \in Cells
    <3> DEFINE j == i - 1
    <3>1. /\ j \in 0 .. INPUT_BUF /\ q \in 0 .. INPUT_BUF /\ q + j <= INPUT_BUF
          /\ q + i \in 1 .. l /\ q + j = (q + i) - 1
      BY <1>1, <1>5
    <3>2. Cell(r', j) = Cell(r, q + j)
      <4> HIDE DEF j
      <4> QED
        BY <1>0, <1>6, <3>1, CellsFrom
    <3>3. rest[i] = buf[Cell(r', j)]
      OBVIOUS
    <3>4. input[q + i] = buf[Cell(r, (q + i) - 1)] /\ input[q + i] \in Cells
      <4> DEFINE n == q + i
      <4>1. n \in 1 .. l
        BY <3>1
      <4> HIDE DEF n
      <4>2. input[n] = buf[Cell(r, n - 1)] /\ input[n] \in Cells
        BY <1>1, <1>l, <4>1
      <4> QED
        BY <4>2 DEF n
    <3> HIDE DEF j, rest
    <3> QED
      BY <3>1, <3>2, <3>3, <3>4
  <2>2. rest \in [1 .. l - q -> Cells]
    BY <2>1
  <2>3. l \in Nat
    BY <1>1
  <2> HIDE DEF rest
  <2> QED
    BY <1>1, <1>5, <2>1, <2>2, <2>3, RestIs
<1>12. Len(input) = l
  BY <1>1, SeqOf
<1>13. ASSUME q = 0 PROVE UNCHANGED Input!vars
  <2>1. (r + 0) % Wide = r
    BY <1>0, <1>5, ModLow
  <2>2. r' = r
    BY <1>5, <1>13, <2>1
  <2>3. Cons!Ring(r, w)' = Cons!Ring(r, w)
    BY <1>4, <1>8, <1>M, <2>2 DEF input
  <2> QED
    BY <1>9, <2>3 DEF Input!vars
<1>14. ASSUME q # 0 PROVE Input!Read
  <2>1. q \in 1 .. l
    BY <1>1, <1>5, <1>14
  <2>2. ASSUME NEW i \in 1 .. q - 1 PROVE ~Cons!EndsLine(input[i])
    <3>1. i \in 1 .. k - 1 /\ i \in 1 .. l
      BY <1>1, <1>2, <1>5
    <3>2. input[i] = buf[Cell(r, i - 1)]
      BY <1>l, <3>1, Zenon
    <3> QED
      BY <1>2, <1>A, <3>1, <3>2
  <2>3. Input!Read
    <3> HIDE DEF rest
    <3> QED
      BY <1>9, <1>10, <1>11, <1>12, <1>M, <2>1, <2>2 DEF Input!Read, Input!EndsLine, Cons!EndsLine
  <2> QED
    BY <2>3
<1>15. (r = w => r' = r) /\ ((e' - r') % Wide = INPUT_BUF => r' = r)
  <2>1. r = w => l = 0
    BY <1>1 DEF GapFacts
  <2>2. r = w => q = 0
    BY <1>5, <2>1
  <2>3. (e' - r') % Wide = INPUT_BUF => q = 0
    <3>1. (l + m) - q = INPUT_BUF => q = 0
      BY <1>0, <1>1, <1>5
    <3> QED
      BY <1>4, <1>7, <3>1
  <2>4. (r + 0) % Wide = r
    BY <1>0, <1>5, ModLow
  <2> QED
    BY <1>5, <2>2, <2>3, <2>4
<1>16. ~Cons!Returns(p) => r' = w
  <2>1. w = Add(Wide, r, l)
    BY <1>1 DEF GapFacts
  <2> QED
    BY <1>5, <1>6, <2>1
<1> QED
  BY <1>5, <1>8, <1>13, <1>14, <1>15, <1>16, Zenon DEF k
-----------------------------------------------------------------------------
(* The inductive invariant of the console.                                 *)
ConsInv ==
  /\ IndicesOK
  /\ cpc \in [Proc -> {"out", "read", "asleep", "gone"}]
  /\ left \in [Proc -> 0 .. MaxRead] /\ ckilled \in [Proc -> BOOLEAN]
  /\ \A p \in Proc : cpc[p] = "asleep" => r = w /\ ~ckilled[p]
  /\ (e - r) % Wide = INPUT_BUF => w = e

(* consoleinit() establishes it.                                           *)
LEMMA ConsStart == ASSUME Cons!Init PROVE ConsInv /\ Input!Init
<1>1. r = 0 /\ w = 0 /\ e = 0 /\ Wide \in Nat \ {0} /\ INPUT_BUF \in Nat \ {0} /\ MaxRead \in Nat
  BY ConsRing, StreamConstants DEF Cons!Init
<1>2. 0 - 0 \in 0 .. Wide - 1 /\ (0 - 0) % Wide = 0 - 0 /\ 0 - 0 = 0
  BY <1>1, ModLow
<1>3. IndicesOK
  <2>1. buf \in [0 .. INPUT_BUF - 1 -> Cells]
    BY DEF Cons!Init, Cells
  <2>2. Waiting = 0 /\ Editing = 0 /\ 0 + 0 <= INPUT_BUF /\ 0 \in 0 .. Wide - 1
    BY <1>1, <1>2 DEF Waiting, Editing
  <2> QED
    BY <1>1, <2>1, <2>2, Zenon DEF IndicesOK
<1>4. Input!Init
  <2>1. RingOf(buf, r, w) = << >> /\ RingOf(buf, w, e) = << >>
    BY <1>1, <1>2 DEF RingOf
  <2> QED
    BY <1>3, <2>1, Mapped, Zenon DEF Input!Init
<1> QED
  BY <1>1, <1>3, <1>4 DEF ConsInv, Cons!Init

(* Every step keeps it, and is a step of the line input or leaves that     *)
(* alone.                                                                  *)
LEMMA ConsStep ==
  ASSUME ConsInv, [Cons!Next]_consVars
  PROVE  ConsInv' /\ [Input!Next]_Input!vars
<1>0. /\ IndicesOK /\ INPUT_BUF \in Nat \ {0} /\ MaxRead \in Nat /\ left \in [Proc -> 0 .. MaxRead]
      /\ cpc \in [Proc -> {"out", "read", "asleep", "gone"}] /\ ckilled \in [Proc -> BOOLEAN]
      /\ \A p \in Proc : cpc[p] = "asleep" => r = w /\ ~ckilled[p]
      /\ (e - r) % Wide = INPUT_BUF => w = e
  BY ConsRing, StreamConstants, Zenon DEF ConsInv
<1>S. ASSUME UNCHANGED <<buf, r, w, e>>
      PROVE  IndicesOK' /\ UNCHANGED Input!vars /\ ((e' - r') % Wide = INPUT_BUF => w' = e')
  <2>1. IndicesOK'
    BY <1>0, <1>S DEF IndicesOK, Waiting, Editing
  <2>2. UNCHANGED Input!vars
    BY <1>0, <1>S, <2>1, Mapped DEF Input!vars
  <2> QED
    BY <1>0, <1>S, <2>1, <2>2
<1>C. ASSUME UNCHANGED <<buf, r, w, e>>, cpc' \in [Proc -> {"out", "read", "asleep", "gone"}],
             left' \in [Proc -> 0 .. MaxRead], ckilled' \in [Proc -> BOOLEAN],
             \A p \in Proc : cpc'[p] = "asleep" => cpc[p] = "asleep" /\ ckilled'[p] = ckilled[p]
      PROVE  ConsInv' /\ [Input!Next]_Input!vars
  <2>1. IndicesOK' /\ UNCHANGED Input!vars /\ ((e' - r') % Wide = INPUT_BUF => w' = e')
    BY <1>C, <1>S
  <2>2. \A p \in Proc : cpc'[p] = "asleep" => r' = w' /\ ~ckilled'[p]
    BY <1>0, <1>C
  <2> QED
    BY <1>C, <2>1, <2>2 DEF ConsInv
<1>1. ASSUME NEW c \in Char, Cons!Type(c) PROVE ConsInv' /\ [Input!Next]_Input!vars
  <2>1. IndicesOK' /\ Input!Type(c) /\ ((e' - r') % Wide = INPUT_BUF => w' = e')
    BY <1>0, <1>1, Typed
  <2>2. /\ left' = left /\ ckilled' = ckilled /\ r' = r
        /\ \/ cpc' = [p \in Proc |-> IF cpc[p] = "asleep" THEN "read" ELSE cpc[p]]
           \/ cpc' = cpc /\ w' = w
    BY <1>1 DEF Cons!Type, Cons!WakeReaders
  <2>3. /\ cpc' \in [Proc -> {"out", "read", "asleep", "gone"}]
        /\ \A p \in Proc : cpc'[p] = "asleep" => r' = w' /\ ~ckilled'[p]
    BY <1>0, <2>2
  <2>4. Input!Next
    BY <2>1 DEF Input!Next
  <2> QED
    BY <1>0, <2>1, <2>2, <2>3, <2>4, Zenon DEF ConsInv
<1>2. ASSUME Cons!Backspace \/ Cons!KillLine PROVE ConsInv' /\ [Input!Next]_Input!vars
  <2>1. UNCHANGED <<buf, r, w, cpc, left, ckilled>>
    BY <1>2 DEF Cons!Backspace, Cons!KillLine
  <2>2. PICK k \in 0 .. Editing : e' = (w + k) % Wide
    BY <1>0, <1>2, BackspaceErases, KillErases
  <2>3. IndicesOK' /\ Input!Erase /\ (e' - r') % Wide = Waiting + k /\ (w = e => w' = e')
    BY <1>0, <2>1, <2>2, Erased
  <2>4. (e' - r') % Wide = INPUT_BUF => w' = e'
    <3>1. /\ Waiting \in 0 .. INPUT_BUF /\ Editing \in 0 .. INPUT_BUF
          /\ (e - r) % Wide = Waiting + Editing /\ Waiting + Editing <= INPUT_BUF
      BY <1>0, Indices DEF IndexFacts, IndicesOK
    <3>2. Waiting + k = INPUT_BUF => Waiting + Editing = INPUT_BUF
      BY <1>0, <3>1
    <3> QED
      BY <1>0, <2>3, <3>1, <3>2
  <2>5. Input!Next
    BY <2>3 DEF Input!Next
  <2> QED
    BY <1>0, <2>1, <2>3, <2>4, <2>5, Zenon DEF ConsInv
<1>3. ASSUME NEW p \in Proc, Cons!Read(p) PROVE ConsInv' /\ [Input!Next]_Input!vars
  <2>0. left[p] \in Nat /\ left[p] \in 0 .. MaxRead
    BY <1>0
  <2>1. /\ IndicesOK' /\ (Input!Read \/ UNCHANGED Input!vars)
        /\ r = w => r' = r
        /\ (e' - r') % Wide = INPUT_BUF => r' = r
        /\ ~Cons!Returns(p) => r' = w
        /\ Cons!Takes(p) \in 0 .. left[p]
    BY <1>0, <1>3, <2>0, WasRead
  <2>2. /\ UNCHANGED <<buf, w, e, ckilled>>
        /\ left' = [left EXCEPT ![p] = IF Cons!Returns(p) THEN 0 ELSE @ - Cons!Takes(p)]
        /\ cpc' = [cpc EXCEPT ![p] = IF Cons!Returns(p) THEN "out"
                                     ELSE IF ckilled[p] THEN "gone" ELSE "asleep"]
    BY <1>3 DEF Cons!Read
  <2>3. left' \in [Proc -> 0 .. MaxRead]
    <3>1. left[p] - Cons!Takes(p) \in 0 .. MaxRead /\ 0 \in 0 .. MaxRead
      BY <1>0, <2>0, <2>1
    <3> QED
      BY <1>0, <2>2, <3>1
  <2>4. cpc' \in [Proc -> {"out", "read", "asleep", "gone"}]
    BY <1>0, <2>2
  <2>5. \A s \in Proc : cpc'[s] = "asleep" => r' = w' /\ ~ckilled'[s]
    BY <1>0, <2>1, <2>2
  <2>6. (e' - r') % Wide = INPUT_BUF => w' = e'
    BY <1>0, <2>1, <2>2
  <2>7. [Input!Next]_Input!vars
    BY <2>1 DEF Input!Next
  <2> QED
    BY <1>0, <2>1, <2>2, <2>3, <2>4, <2>5, <2>6, <2>7, Zenon DEF ConsInv
<1>4. ASSUME NEW p \in Proc, Cons!Kill(p) PROVE ConsInv' /\ [Input!Next]_Input!vars
  <2>1. UNCHANGED <<buf, r, w, e>> /\ left' \in [Proc -> 0 .. MaxRead]
    BY <1>0, <1>4 DEF Cons!Kill, Cons!inputVars
  <2>2. /\ cpc' \in [Proc -> {"out", "read", "asleep", "gone"}] /\ ckilled' \in [Proc -> BOOLEAN]
        /\ \A s \in Proc : cpc'[s] = "asleep" => cpc[s] = "asleep" /\ ckilled'[s] = ckilled[s]
    BY <1>0, <1>4, Zenon DEF Cons!Kill
  <2> QED
    BY <1>C, <2>1, <2>2
<1>5. ASSUME NEW p \in Proc, NEW size \in 1 .. MaxRead, Cons!Enter(p, size)
      PROVE  ConsInv' /\ [Input!Next]_Input!vars
  <2>1. /\ UNCHANGED <<buf, r, w, e, ckilled>>
        /\ cpc' \in [Proc -> {"out", "read", "asleep", "gone"}]
        /\ \A s \in Proc : cpc'[s] = "asleep" => cpc[s] = "asleep"
    BY <1>0, <1>5 DEF Cons!Enter
  <2>2. left' \in [Proc -> 0 .. MaxRead]
    BY <1>0, <1>5 DEF Cons!Enter
  <2> QED
    BY <1>0, <1>C, <2>1, <2>2
<1>6. ASSUME UNCHANGED consVars PROVE ConsInv' /\ [Input!Next]_Input!vars
  <2>1. UNCHANGED <<buf, r, w, e>> /\ UNCHANGED <<cpc, left, ckilled>>
    BY <1>6 DEF consVars
  <2> QED
    BY <1>0, <1>C, <2>1
<1> QED
  BY <1>1, <1>2, <1>3, <1>4, <1>5, <1>6, Zenon DEF Cons!Next

(* The invariant holds for ever.                                           *)
LEMMA ConsStays == Cons!Spec => []ConsInv /\ Input!Spec
<1>1. Cons!Init => ConsInv /\ Input!Init
  BY ConsStart
<1>2. ConsInv /\ [Cons!Next]_Cons!vars => ConsInv' /\ [Input!Next]_Input!vars
  BY ConsStep DEF Cons!vars, consVars
<1> QED
  BY <1>1, <1>2, PTL DEF Cons!Spec, Input!Spec

(* consoleintr(), consoleread(): nobody sleeps who could read, and a full  *)
(* ring holds finished input only.                                         *)
THEOREM ConsoleSleepsJustified == Cons!Spec => []Cons!SleepJustified
<1>1. ConsInv => Cons!SleepJustified
  <2> SUFFICES ASSUME ConsInv PROVE Cons!SleepJustified
    OBVIOUS
  <2>1. /\ IndicesOK
        /\ (e - r) % Wide = INPUT_BUF => w = e
        /\ \A p \in Proc : cpc[p] = "asleep" => r = w /\ ~ckilled[p]
    BY DEF ConsInv
  <2>2. /\ (e - r) % Wide = Waiting + Editing /\ Waiting + Editing <= INPUT_BUF
        /\ Waiting \in 0 .. INPUT_BUF /\ Editing \in 0 .. INPUT_BUF
    BY <2>1, Indices DEF IndexFacts, IndicesOK
  <2>3. ~(Waiting + Editing < INPUT_BUF) => Waiting + Editing = INPUT_BUF
    BY <2>2, ConsRing
  <2>4. Cons!Room <=> (e - r) % Wide < INPUT_BUF
    BY DEF Cons!Room, Cons!uint, Wide
  <2> QED
    BY <2>1, <2>2, <2>3, <2>4 DEF Cons!SleepJustified
<1> QED
  BY <1>1, ConsStays, PTL
-----------------------------------------------------------------------------
(* The open files, as MCStreams instantiates them and as they are proved.  *)
Open == INSTANCE FileTableProofs

(* Both are the same specification.                                        *)
LEMMA SameFiles ==
  /\ Files!Init <=> Open!Init
  /\ Files!Next <=> Open!Next
  /\ Files!vars = Open!vars
<1>1. Files!Init <=> Open!Init
  BY Zenon DEF Open!File, Files!File, Open!Fd, Files!Fd, Open!Nowhere, Files!Nowhere,
               Open!User, Files!User, Open!Closed, Files!Closed, Open!Init, Files!Init
<1>2. Files!Next <=> Open!Next
  BY Zenon DEF Open!File, Files!File, Open!Fd, Files!Fd, Open!Nowhere, Files!Nowhere,
               Open!User, Files!User, Open!Closed, Files!Closed, Open!At, Files!At,
               Open!Become, Files!Become, Open!FreeFile, Files!FreeFile, Open!filealloc,
               Files!filealloc, Open!FreeFd, Files!FreeFd, Open!Closing, Files!Closing,
               Open!fileclose, Files!fileclose, Open!End, Files!End, Open!filecloseObject,
               Files!filecloseObject, Open!filecloseDone, Files!filecloseDone, Open!sys_open,
               Files!sys_open, Open!openAlloc, Files!openAlloc, Open!openFd, Files!openFd,
               Open!openFail, Files!openFail, Open!openFill, Files!openFill, Open!pipealloc0,
               Files!pipealloc0, Open!pipeallocFails, Files!pipeallocFails, Open!pipealloc1,
               Files!pipealloc1, Open!sys_pipe, Files!sys_pipe, Open!sys_dup, Files!sys_dup,
               Open!filedup, Files!filedup, Open!dupRef, Files!dupRef, Open!sys_close,
               Files!sys_close, Open!fileread, Files!fileread, Open!filereadDone,
               Files!filereadDone, Open!fork, Files!fork, Open!forkFile, Files!forkFile,
               Open!forkDone, Files!forkDone, Open!exit, Files!exit, Open!exitFile,
               Files!exitFile, Open!exitDone, Files!exitDone, Open!Next, Files!Next, Open!Min,
               Files!Min, Open!Cardinality, Files!Cardinality, Open!IsFiniteSet,
               Files!IsFiniteSet
<1>3. Files!vars = Open!vars
  BY DEF Files!vars, Open!vars
<1> QED
  BY <1>1, <1>2, <1>3

(* And so are the properties.                                              *)
LEMMA SameClaims ==
  /\ Files!RefExact <=> Open!RefExact
  /\ Files!ObjectsExact <=> Open!ObjectsExact
  /\ Files!UseLive <=> Open!UseLive
<1>1. Files!RefExact <=> Open!RefExact
  BY Zenon DEF Open!File, Files!File, Open!Fd, Files!Fd, Open!At, Files!At, Open!References,
               Files!References, Open!RefExact, Files!RefExact, Open!Cardinality,
               Files!Cardinality, Open!IsFiniteSet, Files!IsFiniteSet
<1>2. Files!ObjectsExact <=> Open!ObjectsExact
  BY Zenon DEF Open!File, Files!File, Open!At, Files!At, Open!End, Files!End, Open!Holders,
               Files!Holders, Open!ObjectsExact, Files!ObjectsExact, Open!Cardinality,
               Files!Cardinality, Open!IsFiniteSet, Files!IsFiniteSet
<1>3. Files!UseLive <=> Open!UseLive
  BY Zenon DEF Open!At, Files!At, Open!End, Files!End, Open!UseLive, Files!UseLive
<1> QED
  BY <1>1, <1>2, <1>3

(* What file.c is proved for holds here.                                   *)
LEMMA OpenFiles == Files!Spec => []Files!RefExact /\ []Files!ObjectsExact /\ []Files!UseLive
<1>1. Open!FileConstants
  BY FileSizes, Zenon DEF Open!File, Files!File, Open!Fd, Files!Fd, Open!FileConstants,
               Files!FileConstants, Open!IsFiniteSet, Files!IsFiniteSet
<1>2. Open!Spec => [](Open!RefExact /\ Open!ObjectsExact)
  BY <1>1, Open!FileCountsExact
<1>3. Open!Spec => []Open!UseLive
  BY <1>1, Open!FilesInUseLive
<1>4. Files!Init => Open!Init
  BY SameFiles
<1>5. [Files!Next]_Files!vars => [Open!Next]_Open!vars
  BY SameFiles, Zenon DEF Files!vars, Open!vars
<1>6. /\ Open!RefExact /\ Open!ObjectsExact => Files!RefExact /\ Files!ObjectsExact
      /\ Open!UseLive => Files!UseLive
  BY SameClaims
<1> QED
  BY <1>2, <1>3, <1>4, <1>5, <1>6, PTL DEF Files!Spec, Open!Spec

(* A behaviour of the composition is one of each part.                     *)
LEMMA StreamsCompose == StreamsSpec => Spec /\ Files!Spec /\ Cons!Spec
<1>1. StreamsInit => Init /\ Files!Init /\ Cons!Init
  BY DEF StreamsInit
<1>2. [StreamsNext]_<<part, vars, fileVars, consVars>> =>
        [Next]_vars /\ [Files!Next]_Files!vars /\ [Cons!Next]_Cons!vars
  BY Zenon DEF StreamsNext, PipePart, FilesPart, ConsolePart, fileVars, consVars,
               Files!vars, Cons!vars
<1> QED
  BY <1>1, <1>2, PTL DEF StreamsSpec, Spec, Files!Spec, Cons!Spec

(* piperead(), pipewrite(), consoleread(): a process sleeps only while it  *)
(* has to, for every size of the buffers.                                  *)
THEOREM WaitsStayJustified == StreamsSpec => []WaitJustified
  BY StreamsCompose, PipeSleepsJustified, ConsoleSleepsJustified, PTL DEF WaitJustified

(* The counts of open files, inodes and pipe ends are exact.               *)
THEOREM CountsStayExact == StreamsSpec => []CountsExact
  BY StreamsCompose, OpenFiles, PTL DEF CountsExact

(* What a read() or write() uses is open, file.c does not panic, and a     *)
(* pipe is freed with its last end.                                        *)
THEOREM UsesStayLive == StreamsSpec => []UseLive
  BY StreamsCompose, OpenFiles, PipeFreedLast, PTL DEF UseLive

(* The ring of the console implements the line input.                      *)
THEOREM ImplementsLineInput == StreamsSpec => AsLineInput
  BY StreamsCompose, ConsStays, PTL DEF AsLineInput

(* The ring of a pipe implements the bounded queue in the composition too. *)
THEOREM StreamsImplementFifo == StreamsSpec => AsFifo
  BY StreamsCompose, ImplementsFifo, PTL
=============================================================================
