----------------------- MODULE TelemetrySession_proofs -----------------------
(***************************************************************************)
(* The log lines of a telemetry session, for every size of the queue and   *)
(* every number of lines, clients, breaks and failing writes.              *)
(***************************************************************************)
EXTENDS TelemetrySession, FiniteSetTheorems, SequenceTheorems, TLAPS

Elements(q) == {q[k] : k \in 1 .. Len(q)}

(* Lines below n were logged: q wait, a were received, b lost, c dropped.   *)
Accounted(q, n, a, b, c) ==
    /\ q \in Seq(Line) /\ Len(q) <= QueueSize /\ n \in Line
    /\ a \subseteq Line /\ b \subseteq Line /\ c \subseteq Line
    /\ \A l \in 1 .. MaxLine :
          /\ l < n <=> l \in Elements(q) \cup a \cup b \cup c
          /\ l \in Elements(q) => l \notin a \cup b \cup c
          /\ l \in a => l \notin b \cup c
          /\ l \in b => l \notin c

(* The queue is in the order of logging, and behind everything received;    *)
(* the lines that are not told apart come last.                             *)
InOrder(q, n, a) ==
    /\ \A j, k \in 1 .. Len(q) : j < k => q[j] < q[k] \/ q[k] = Late
    /\ \A k \in 1 .. Len(q) : q[k] < n \/ n = Late
    /\ \A l \in a : l < n \/ n = Late
    /\ \A l \in a, k \in 1 .. Len(q) : l < q[k] \/ q[k] = Late

Kept(q, n, a, b, c) == Accounted(q, n, a, b, c) /\ InOrder(q, n, a)

LEMMA LineProperties ==
    /\ MaxLine \in Nat /\ QueueSize \in Nat \ {0} /\ MaxRead \in Nat \ {0} /\ Late \in Nat /\ Late = MaxLine + 1
    /\ Line \subseteq Nat /\ 1 .. MaxLine \subseteq Line /\ Late \in Line
    /\ \A l \in Line : l \in 1 .. MaxLine \/ l = Late
    /\ \A l \in Line : 1 <= l /\ l <= Late
BY SessionAssumption DEF SessionAssumption, Late, Line

LEMMA NumberedProperties ==
    ASSUME NEW n \in Nat, n >= 1
    PROVE  /\ Numbered(n) \in Line
           /\ n <= MaxLine => Numbered(n) = n
           /\ n > MaxLine => Numbered(n) = Late
BY SessionAssumption DEF SessionAssumption, Numbered, Late, Line

-----------------------------------------------------------------------------
(* Taking the first line off the queue.                                     *)

LEMMA TakeProperties ==
    ASSUME NEW q \in Seq(Line), q # << >>
    PROVE  /\ Head(q) \in Line /\ Tail(q) \in Seq(Line)
           /\ Len(q) \in Nat /\ Len(q) >= 1 /\ Head(q) = q[1] /\ 1 \in 1 .. Len(q)
           /\ Len(Tail(q)) = Len(q) - 1
           /\ \A k \in 1 .. Len(Tail(q)) : Tail(q)[k] = q[k + 1] /\ k + 1 \in 1 .. Len(q) /\ 1 < k + 1
           /\ \A k \in 1 .. Len(q) : k = 1 \/ (k - 1 \in 1 .. Len(Tail(q)) /\ Tail(q)[k - 1] = q[k])
<1>1. /\ Len(q) \in Nat /\ Head(q) \in Line /\ Tail(q) \in Seq(Line) /\ Head(q) = q[1]
      /\ Len(Tail(q)) = Len(q) - 1 /\ \A k \in 1 .. Len(Tail(q)) : Tail(q)[k] = q[k + 1]
  BY HeadTailProperties, LenProperties
<1>2. Len(q) >= 1 /\ 1 \in 1 .. Len(q)
  BY <1>1, EmptySeq
<1>3. \A k \in 1 .. Len(Tail(q)) : k + 1 \in 1 .. Len(q) /\ 1 < k + 1
  BY <1>1
<1>4. \A k \in 1 .. Len(q) : k = 1 \/ (k - 1 \in 1 .. Len(Tail(q)) /\ Tail(q)[k - 1] = q[k])
  BY <1>1
<1> QED
  BY <1>1, <1>2, <1>3, <1>4

LEMMA TakeKeeps ==
    ASSUME NEW q, NEW n, NEW a, NEW b, NEW c, Kept(q, n, a, b, c), q # << >>
    PROVE  /\ Kept(Tail(q), n, a \cup {Head(q)}, b, c)
           /\ Kept(Tail(q), n, a, b \cup {Head(q)}, c)
           /\ \A l \in a : l < Head(q) \/ Head(q) = Late
<1>0. q \in Seq(Line) /\ Accounted(q, n, a, b, c) /\ InOrder(q, n, a)
  BY DEF Kept, Accounted
<1>1. PICK h \in Line, r \in Seq(Line) : h = Head(q) /\ r = Tail(q)
  BY <1>0, TakeProperties
<1>2. /\ Len(q) \in Nat /\ Len(q) >= 1 /\ h = q[1] /\ Len(r) = Len(q) - 1 /\ 1 \in 1 .. Len(q)
      /\ \A k \in 1 .. Len(r) : r[k] = q[k + 1] /\ k + 1 \in 1 .. Len(q) /\ 1 < k + 1
      /\ \A k \in 1 .. Len(q) : k = 1 \/ (k - 1 \in 1 .. Len(r) /\ r[k - 1] = q[k])
  BY <1>0, <1>1, TakeProperties
<1>3. \A k \in 1 .. Len(r) : h < r[k] \/ r[k] = Late
  BY <1>0, <1>2 DEF InOrder
<1>4. Elements(q) = Elements(r) \cup {h}
  BY <1>2 DEF Elements
<1>5. \A l \in 1 .. MaxLine : l \in Elements(r) => l # h
  BY <1>3, LineProperties DEF Elements
<1>6. Len(r) <= QueueSize
  BY <1>0, <1>2, LineProperties DEF Accounted
<1>7. Accounted(r, n, a \cup {h}, b, c) /\ Accounted(r, n, a, b \cup {h}, c)
  BY <1>0, <1>4, <1>5, <1>6 DEF Accounted
<1>8. \A j, k \in 1 .. Len(r) : j < k => r[j] < r[k] \/ r[k] = Late
  <2> SUFFICES ASSUME NEW j \in 1 .. Len(r), NEW k \in 1 .. Len(r), j < k
               PROVE  r[j] < r[k] \/ r[k] = Late
    OBVIOUS
  <2>1. j + 1 < k + 1
    OBVIOUS
  <2> QED
    BY <1>0, <1>2, <2>1 DEF InOrder
<1>9. h < n \/ n = Late
  BY <1>0, <1>2 DEF InOrder
<1>10. InOrder(r, n, a \cup {h}) /\ InOrder(r, n, a)
  BY <1>0, <1>2, <1>3, <1>8, <1>9 DEF InOrder
<1>11. \A l \in a : l < h \/ h = Late
  BY <1>0, <1>2 DEF InOrder
<1> QED
  BY <1>1, <1>7, <1>10, <1>11 DEF Kept

(* A reboot of the ESP32 loses what waits.                                  *)
LEMMA RebootKeeps ==
    ASSUME NEW q, NEW n, NEW a, NEW b, NEW c, Kept(q, n, a, b, c)
    PROVE  Kept(<< >>, n, a, b \cup Elements(q), c)
<1>0. q \in Seq(Line) /\ Accounted(q, n, a, b, c) /\ InOrder(q, n, a)
  BY DEF Kept, Accounted
<1>1. PICK e \in Seq(Line) : e = << >> /\ Len(e) = 0
  BY EmptySeq
<1>2. 1 .. Len(e) = {} /\ Len(e) <= QueueSize
  BY <1>1, LineProperties
<1>3. Elements(e) = {}
  BY <1>2 DEF Elements
<1>4. Elements(q) \subseteq Line
  BY <1>0, ElementOfSeq DEF Elements
<1>5. Accounted(e, n, a, b \cup Elements(q), c)
  BY <1>0, <1>2, <1>3, <1>4 DEF Accounted
<1>6. InOrder(e, n, a)
  BY <1>0, <1>2 DEF InOrder
<1> QED
  BY <1>1, <1>5, <1>6 DEF Kept

-----------------------------------------------------------------------------
(* Logging m lines: the first kept of them fit into the queue.              *)

Burst(n, i) == [k \in 1 .. i |-> Numbered(n + k - 1)]

Turned(n, i, m) == {Numbered(n + k - 1) : k \in i + 1 .. m}

LEMMA BurstProperties ==
    ASSUME NEW q \in Seq(Line), NEW n \in Line, NEW i \in Nat
    PROVE  /\ q \o Burst(n, i) \in Seq(Line) /\ Len(q) \in Nat
           /\ Len(q \o Burst(n, i)) = Len(q) + i
           /\ \A k \in 1 .. Len(q) : k \in 1 .. Len(q) + i /\ (q \o Burst(n, i))[k] = q[k]
           /\ \A k \in 1 .. i : Len(q) + k \in 1 .. Len(q) + i /\ (q \o Burst(n, i))[Len(q) + k] = Numbered(n + k - 1)
<1>1. n \in Nat /\ n >= 1 /\ Len(q) \in Nat
  BY LineProperties, LenProperties
<1>2. \A k \in 1 .. i : Numbered(n + k - 1) \in Line
  <2> SUFFICES ASSUME NEW k \in 1 .. i PROVE Numbered(n + k - 1) \in Line
    OBVIOUS
  <2>1. n + k - 1 \in Nat /\ n + k - 1 >= 1
    BY <1>1
  <2> QED
    BY <2>1, NumberedProperties
<1>3. PICK s \in Seq(Line) : s = Burst(n, i) /\ Len(s) = i /\ \A k \in 1 .. i : s[k] = Numbered(n + k - 1)
  <2>1. Burst(n, i) \in [1 .. i -> Line]
    BY <1>2 DEF Burst
  <2>2. Burst(n, i) \in Seq(Line) /\ Len(Burst(n, i)) = i
    BY <2>1, SeqDef, LenProperties
  <2> QED
    BY <2>2 DEF Burst
<1>4. /\ q \o s \in Seq(Line) /\ Len(q \o s) = Len(q) + i
      /\ \A k \in 1 .. Len(q) + i : (q \o s)[k] = IF k <= Len(q) THEN q[k] ELSE s[k - Len(q)]
  <2>1. /\ q \o s \in Seq(Line) /\ Len(q \o s) = Len(q) + Len(s)
        /\ \A k \in 1 .. Len(q) + Len(s) : (q \o s)[k] = IF k <= Len(q) THEN q[k] ELSE s[k - Len(q)]
    BY ConcatProperties
  <2> QED
    BY <1>3, <2>1
<1>5. PICK m \in Nat : m = Len(q)
  BY <1>1
<1>6. \A k \in 1 .. m : k \in 1 .. m + i /\ k <= m
  BY <1>5
<1>7. \A k \in 1 .. i : m + k \in 1 .. m + i /\ ~ (m + k <= m) /\ m + k - m = k
  BY <1>5
<1>8. \A k \in 1 .. m : k \in 1 .. m + i /\ (q \o s)[k] = q[k]
  BY <1>4, <1>5, <1>6
<1>9. \A k \in 1 .. i : m + k \in 1 .. m + i /\ (q \o s)[m + k] = s[k]
  BY <1>4, <1>5, <1>7
<1> QED
  BY <1>3, <1>4, <1>5, <1>8, <1>9

LEMMA LogKeeps ==
    ASSUME NEW q, NEW n, NEW a, NEW b, NEW c, Kept(q, n, a, b, c),
           NEW m \in Nat, NEW i \in 0 .. m, Len(q) + i <= QueueSize
    PROVE  Kept(q \o Burst(n, i), Numbered(n + m), a, b, c \cup Turned(n, i, m))
<1>0. /\ q \in Seq(Line) /\ n \in Line /\ n \in Nat /\ n >= 1 /\ i \in Nat
      /\ Accounted(q, n, a, b, c) /\ InOrder(q, n, a)
  BY LineProperties DEF Kept, Accounted
<1>1. PICK r \in Seq(Line) : r = q \o Burst(n, i)
  BY <1>0, BurstProperties
<1>2. PICK d \in Nat : d = Len(q)
  BY <1>0, LenProperties
<1>3. /\ Len(r) = d + i
      /\ \A k \in 1 .. d : k \in 1 .. d + i /\ r[k] = q[k]
      /\ \A k \in 1 .. i : d + k \in 1 .. d + i /\ r[d + k] = Numbered(n + k - 1)
  BY <1>0, <1>1, <1>2, BurstProperties
<1>4. \A k \in 1 .. d + i : k \in 1 .. d \/ \E e \in 1 .. i : k = d + e
  <2> SUFFICES ASSUME NEW k \in 1 .. d + i, k \notin 1 .. d PROVE k - d \in 1 .. i /\ k = d + (k - d)
    OBVIOUS
  <2> QED
    BY <1>0, <1>2
<1>5. PICK w \in Line : /\ w = Numbered(n + m)
                        /\ n + m <= MaxLine => w = n + m
                        /\ n + m > MaxLine => w = Late
  <2>1. n + m \in Nat /\ n + m >= 1
    BY <1>0
  <2> QED
    BY <2>1, NumberedProperties
\* a line of the burst: its number, or one of those not told apart
<1>6. ASSUME NEW k \in 1 .. m
      PROVE  /\ Numbered(n + k - 1) \in Line
             /\ n + k - 1 <= MaxLine => Numbered(n + k - 1) = n + k - 1
             /\ n + k - 1 > MaxLine => Numbered(n + k - 1) = Late
             /\ Numbered(n + k - 1) < w \/ w = Late
             /\ n <= Numbered(n + k - 1) \/ Numbered(n + k - 1) = Late
             /\ n = Late => Numbered(n + k - 1) = Late
  <2>1. n + k - 1 \in Nat /\ n + k - 1 >= 1
    BY <1>0
  <2>2. PICK x \in Line : /\ x = Numbered(n + k - 1)
                          /\ n + k - 1 <= MaxLine => x = n + k - 1
                          /\ n + k - 1 > MaxLine => x = Late
    BY <2>1, NumberedProperties
  <2>3. /\ x < w \/ w = Late
        /\ n <= x \/ x = Late
        /\ n = Late => x = Late
    BY <1>0, <1>5, <2>2, LineProperties
  <2> QED
    BY <2>2, <2>3
<1>7. 1 .. i \subseteq 1 .. m
  BY <1>0
\* which of the lines told apart are in the burst
<1>8. ASSUME NEW l \in 1 .. MaxLine
      PROVE  /\ l \in Elements(r) <=> l \in Elements(q) \/ (n <= l /\ l < n + i)
             /\ l \in Turned(n, i, m) <=> n + i <= l /\ l < n + m
             /\ l < w <=> l < n + m
  <2>0. l \in Nat /\ l <= MaxLine /\ 1 <= l /\ l # Late /\ MaxLine \in Nat
    BY LineProperties
  <2>1. ASSUME NEW e \in 1 .. m PROVE l = Numbered(n + e - 1) <=> l = n + e - 1
    <3>1. n + e - 1 \in Nat
      BY <1>0
    <3> QED
      BY <1>6, <2>0, <3>1
  <2>2. l \in Elements(r) => l \in Elements(q) \/ (n <= l /\ l < n + i)
    <3> SUFFICES ASSUME NEW k \in 1 .. d + i, l = r[k]
                 PROVE  l \in Elements(q) \/ (n <= l /\ l < n + i)
      BY <1>3 DEF Elements
    <3>1. CASE k \in 1 .. d
      BY <1>2, <1>3, <3>1 DEF Elements
    <3>2. ASSUME NEW e \in 1 .. i, k = d + e PROVE n <= l /\ l < n + i
      <4>1. l = n + e - 1
        BY <1>3, <1>7, <2>1, <3>2
      <4> QED
        BY <1>0, <4>1
    <3> QED
      BY <1>4, <3>1, <3>2
  <2>3. l \in Elements(q) => l \in Elements(r)
    BY <1>2, <1>3 DEF Elements
  <2>4. n <= l /\ l < n + i => l \in Elements(r)
    <3> SUFFICES ASSUME n <= l, l < n + i PROVE l \in Elements(r)
      OBVIOUS
    <3>1. PICK e \in 1 .. i : l = n + e - 1
      <4>1. l - n + 1 \in 1 .. i /\ l = n + (l - n + 1) - 1
        BY <1>0, <2>0
      <4> QED
        BY <4>1
    <3>2. r[d + e] = l /\ d + e \in 1 .. Len(r)
      BY <1>3, <1>7, <2>1, <3>1
    <3> QED
      BY <3>2 DEF Elements
  <2>5. l \in Turned(n, i, m) <=> n + i <= l /\ l < n + m
    <3>1. \A e \in i + 1 .. m : e \in 1 .. m
      BY <1>0
    <3>2. l \in Turned(n, i, m) <=> \E e \in i + 1 .. m : l = n + e - 1
      BY <2>1, <3>1 DEF Turned
    <3>3. n + i <= l /\ l < n + m => l - n + 1 \in i + 1 .. m /\ l = n + (l - n + 1) - 1
      BY <1>0, <2>0
    <3>4. \A e \in i + 1 .. m : l = n + e - 1 => n + i <= l /\ l < n + m
      BY <1>0, <2>0
    <3> QED
      BY <3>2, <3>3, <3>4
  <2>6. l < w <=> l < n + m
    BY <1>0, <1>5, <2>0, LineProperties
  <2> QED
    BY <2>2, <2>3, <2>4, <2>5, <2>6
<1>9. Turned(n, i, m) \subseteq Line
  <2>1. \A e \in i + 1 .. m : e \in 1 .. m
    BY <1>0
  <2> QED
    BY <1>6, <2>1 DEF Turned
<1>10. Accounted(r, w, a, b, c \cup Turned(n, i, m))
  <2>1. Len(r) <= QueueSize
    BY <1>2, <1>3
  <2>2. ASSUME NEW l \in 1 .. MaxLine
        PROVE  /\ l < w <=> l \in Elements(r) \cup a \cup b \cup (c \cup Turned(n, i, m))
               /\ l \in Elements(r) => l \notin a \cup b \cup (c \cup Turned(n, i, m))
               /\ l \in a => l \notin b \cup (c \cup Turned(n, i, m))
               /\ l \in b => l \notin (c \cup Turned(n, i, m))
    <3>1. /\ l < n <=> l \in Elements(q) \cup a \cup b \cup c
          /\ l \in Elements(q) => l \notin a \cup b \cup c
          /\ l \in a => l \notin b \cup c
          /\ l \in b => l \notin c
      BY <1>0 DEF Accounted
    <3>2. /\ l < n + m <=> l < n \/ (n <= l /\ l < n + i) \/ (n + i <= l /\ l < n + m)
          /\ l < n => ~ (n <= l) /\ ~ (n + i <= l)
          /\ l < n + i => ~ (n + i <= l)
      BY <1>0
    <3> QED
      BY <1>8, <3>1, <3>2
  <2> QED
    BY <1>0, <1>5, <1>9, <2>1, <2>2 DEF Accounted
<1>11. InOrder(r, w, a)
  <2>0. n <= w /\ (n = Late => w = Late)
    BY <1>0, <1>5, LineProperties
  <2>1. ASSUME NEW j \in 1 .. Len(r), NEW k \in 1 .. Len(r), j < k
        PROVE  r[j] < r[k] \/ r[k] = Late
    <3>1. CASE k \in 1 .. d
      <4>1. j \in 1 .. d
        BY <1>2, <2>1, <3>1
      <4> QED
        BY <1>0, <1>2, <1>3, <2>1, <3>1, <4>1 DEF InOrder
    <3>2. ASSUME NEW e \in 1 .. i, k = d + e PROVE r[j] < r[k] \/ r[k] = Late
      <4>0. PICK y \in Line : /\ y = r[k]
                              /\ n + e - 1 <= MaxLine => y = n + e - 1
                              /\ n + e - 1 > MaxLine => y = Late
                              /\ n <= y \/ y = Late
                              /\ n = Late => y = Late
        BY <1>3, <1>6, <1>7, <3>2
      <4>1. CASE j \in 1 .. d
        <5>1. PICK x \in Line : x = r[j] /\ (x < n \/ n = Late)
          BY <1>0, <1>2, <1>3, <4>1, ElementOfSeq DEF InOrder
        <5> QED
          BY <1>0, <4>0, <5>1, LineProperties
      <4>2. ASSUME NEW g \in 1 .. i, j = d + g PROVE r[j] < r[k] \/ r[k] = Late
        <5>1. PICK x \in Line : /\ x = r[j]
                                /\ n + g - 1 <= MaxLine => x = n + g - 1
          BY <1>3, <1>6, <1>7, <4>2
        <5>2. g < e
          BY <1>2, <2>1, <3>2, <4>2
        <5> QED
          BY <1>0, <4>0, <5>1, <5>2, LineProperties
      <4> QED
        BY <1>3, <1>4, <4>1, <4>2
    <3> QED
      BY <1>3, <1>4, <3>1, <3>2
  <2>2. ASSUME NEW k \in 1 .. Len(r) PROVE r[k] < w \/ w = Late
    <3>1. CASE k \in 1 .. d
      <4>1. PICK x \in Line : x = r[k] /\ (x < n \/ n = Late)
        BY <1>0, <1>2, <1>3, <3>1, ElementOfSeq DEF InOrder
      <4> QED
        BY <1>0, <2>0, <4>1, LineProperties
    <3>2. ASSUME NEW e \in 1 .. i, k = d + e PROVE r[k] < w \/ w = Late
      BY <1>3, <1>6, <1>7, <3>2
    <3> QED
      BY <1>3, <1>4, <3>1, <3>2
  <2>3. ASSUME NEW l \in a
        PROVE  /\ l < w \/ w = Late
               /\ \A k \in 1 .. Len(r) : l < r[k] \/ r[k] = Late
    <3>1. l \in Line /\ (l < n \/ n = Late)
      BY <1>0 DEF Accounted, InOrder
    <3>2. l < w \/ w = Late
      BY <1>0, <2>0, <3>1, LineProperties
    <3>3. \A k \in 1 .. d : l < r[k] \/ r[k] = Late
      BY <1>0, <1>2, <1>3 DEF InOrder
    <3>4. ASSUME NEW e \in 1 .. i PROVE l < r[d + e] \/ r[d + e] = Late
      <4>1. PICK y \in Line : /\ y = r[d + e]
                              /\ n <= y \/ y = Late
                              /\ n = Late => y = Late
        BY <1>3, <1>6, <1>7
      <4> QED
        BY <1>0, <3>1, <4>1, LineProperties
    <3> QED
      BY <1>3, <1>4, <3>2, <3>3, <3>4
  <2> QED
    BY <2>1, <2>2, <2>3 DEF InOrder
<1> QED
  BY <1>1, <1>5, <1>10, <1>11 DEF Kept

-----------------------------------------------------------------------------
(* The specification.                                                       *)

\* The lines of a blocked send will be received or lost: either way it adds up,
\* and if they are received they come after the others.
LinesKept ==
    /\ Kept(logQueue, line, received \cup held, lost, dropped)
    /\ Kept(logQueue, line, received, lost \cup held, dropped)
    /\ \A l \in held, m \in received : m < l \/ l = Late
    /\ pc # "sending" => held = {}

LEMMA NothingHeld ==
    ASSUME LinesKept, pc # "sending"
    PROVE  held = {} /\ Kept(logQueue, line, received, lost, dropped)
<1>1. held = {}
  BY DEF LinesKept
<1>2. received \cup held = received
  BY <1>1
<1> QED
  BY <1>1, <1>2 DEF LinesKept

LEMMA LogStep ==
    ASSUME NEW q, NEW a, NEW b, Kept(q, line, a, b, dropped), NEW n \in Nat, Log(q, n)
    PROVE  Kept(logQueue', line', a, b, dropped')
<1> DEFINE kept == IF n <= Room(q) THEN n ELSE Room(q)
<1>1. Len(q) \in Nat /\ Len(q) <= QueueSize
  BY LenProperties DEF Kept, Accounted
<1>2. kept \in 0 .. n /\ Len(q) + kept <= QueueSize
  BY <1>1, LineProperties DEF Room
<1>3. /\ logQueue' = q \o Burst(line, kept) /\ line' = Numbered(line + n)
      /\ dropped' = dropped \cup Turned(line, kept, n)
  BY DEF Log, Burst, Turned
<1> HIDE DEF kept
<1> QED
  BY <1>2, <1>3, LogKeeps

(* A step that logs n lines, and leaves what became of the others.          *)
LEMMA LogKeepsLines ==
    ASSUME LinesKept, NEW n \in Nat, Log(logQueue, n), UNCHANGED <<held, received, lost>>,
           pc' # "sending" => held = {}
    PROVE  LinesKept'
<1>1. /\ Kept(logQueue', line', received \cup held, lost, dropped')
      /\ Kept(logQueue', line', received, lost \cup held, dropped')
  BY LogStep DEF LinesKept
<1> QED
  BY <1>1 DEF LinesKept

(* A step that ends with nothing held.                                      *)
LEMMA NothingHeldAfter ==
    ASSUME Kept(logQueue', line', received', lost', dropped'), held' = {}
    PROVE  LinesKept'
<1>1. received' \cup held' = received' /\ lost' \cup held' = lost'
  OBVIOUS
<1> QED
  BY <1>1 DEF LinesKept

(* A write, wherever it ends: the lines it carries are received, lost or    *)
(* held, and the ones it logs come after those that wait.                   *)
LEMMA WriteStep ==
    ASSUME NEW lines, NEW q, NEW next, held = {},
           Kept(q, line, received \cup lines, lost, dropped),
           Kept(q, line, received, lost \cup lines, dropped),
           \A l \in lines, m \in received : m < l \/ l = Late,
           Write(lines, q, next)
    PROVE  LinesKept'
<1>1. CASE WriteSucceeds(lines, q, next)
  <2>1. Kept(logQueue', line', received', lost', dropped') /\ held' = {}
    BY <1>1 DEF WriteSucceeds
  <2> QED
    BY <2>1, NothingHeldAfter
<1>2. CASE WriteIsLost(lines, q, next)
  <2>1. Kept(logQueue', line', received', lost', dropped') /\ held' = {}
    BY <1>2 DEF WriteIsLost
  <2> QED
    BY <2>1, NothingHeldAfter
<1>3. CASE WriteFails(lines, q, next)
  <2>1. Log(q, 1) /\ received' = received /\ lost' = lost \cup lines /\ held' = {}
    BY <1>3 DEF WriteFails
  <2>2. Kept(logQueue', line', received', lost', dropped')
    BY <2>1, LogStep
  <2> QED
    BY <2>1, <2>2, NothingHeldAfter
<1>4. CASE WriteFindsClientGone(lines, q, next)
  <2>1. Log(q, 2) /\ received' = received /\ lost' = lost \cup lines /\ held' = {}
    BY <1>4 DEF WriteFindsClientGone
  <2>2. Kept(logQueue', line', received', lost', dropped')
    BY <2>1, LogStep
  <2> QED
    BY <2>1, <2>2, NothingHeldAfter
<1>5. CASE WriteBlocks(lines, q, next)
  <2>1. /\ held' = lines /\ logQueue' = q /\ pc' = "sending"
        /\ UNCHANGED <<line, dropped, received, lost>>
    BY <1>5 DEF WriteBlocks
  <2> QED
    BY <2>1 DEF LinesKept
<1> QED
  BY <1>1, <1>2, <1>3, <1>4, <1>5 DEF Write

(* A blocked send, however it ends.                                         *)
LEMMA BlockedSendStep ==
    ASSUME LinesKept, BlockedSendEnds
    PROVE  LinesKept'
<1>1. CASE SendResumes
  <2>1. /\ received' = received \cup held /\ held' = {}
        /\ UNCHANGED <<logQueue, line, dropped, lost>>
    BY <1>1 DEF SendResumes, queue
  <2>2. Kept(logQueue', line', received', lost', dropped')
    BY <2>1 DEF LinesKept
  <2> QED
    BY <2>1, <2>2, NothingHeldAfter
<1>2. CASE SendFails
  <2>1. lost' = lost \cup held /\ held' = {} /\ Log(logQueue, 1) /\ received' = received
    BY <1>2 DEF SendFails
  <2>2. Kept(logQueue', line', received', lost', dropped')
    BY <2>1, LogStep DEF LinesKept
  <2> QED
    BY <2>1, <2>2, NothingHeldAfter
<1>3. CASE SendFindsClientGone
  <2>1. lost' = lost \cup held /\ held' = {} /\ Log(logQueue, 2) /\ received' = received
    BY <1>3 DEF SendFindsClientGone
  <2>2. Kept(logQueue', line', received', lost', dropped')
    BY <2>1, LogStep DEF LinesKept
  <2> QED
    BY <2>1, <2>2, NothingHeldAfter
<1> QED
  BY <1>1, <1>2, <1>3 DEF BlockedSendEnds

LEMMA KeptInit == Init => LinesKept
<1> SUFFICES ASSUME Init PROVE LinesKept
  OBVIOUS
<1>1. PICK e \in Seq(Line) : e = << >> /\ Len(e) = 0
  BY EmptySeq
<1>2. 1 .. Len(e) = {} /\ Len(e) <= QueueSize
  BY <1>1, LineProperties
<1>3. Elements(e) = {}
  BY <1>2 DEF Elements
<1>4. 1 \in Line /\ \A l \in 1 .. MaxLine : ~ (l < 1)
  BY LineProperties DEF Line, Late
<1>5. Accounted(e, 1, {}, {}, {})
  BY <1>2, <1>3, <1>4 DEF Accounted
<1>6. InOrder(e, 1, {})
  BY <1>2 DEF InOrder
<1>7. {} \cup {} = {}
  OBVIOUS
<1> QED
  BY <1>1, <1>5, <1>6, <1>7 DEF Init, LinesKept, Kept

LEMMA KeptStep == LinesKept /\ [Next]_vars => LinesKept'
<1> SUFFICES ASSUME LinesKept, [Next]_vars PROVE LinesKept'
  OBVIOUS
<1>0. pc # "sending" => /\ held = {} /\ logQueue \in Seq(Line)
                        /\ Kept(logQueue, line, received, lost, dropped)
  BY NothingHeld DEF Kept, Accounted
<1>1. CASE OthersLog \/ Connect
  <2>1. PICK n \in {1, 2} : Log(logQueue, n) /\ UNCHANGED <<held, received, lost, pc>>
    BY <1>1 DEF OthersLog, Connect, fate
  <2>2. pc' # "sending" => held = {}
    BY <2>1 DEF LinesKept
  <2> QED
    BY <2>1, <2>2, LogKeepsLines
<1>2. CASE HandleTelemetryCommand \/ ReadFails
  <2>1. Log(logQueue, 1) /\ UNCHANGED <<held, received, lost>> /\ pc # "sending"
    BY <1>2 DEF HandleTelemetryCommand, ReadFails, fate
  <2> QED
    BY <1>0, <2>1, LogKeepsLines
<1>3. CASE Reboot
  <2>1. pc # "sending" /\ held' = held
    BY <1>3 DEF Reboot
  <2>2. CASE platform = "esp32"
    <3>1. /\ logQueue' = << >> /\ lost' = lost \cup Elements(logQueue)
          /\ line' = line /\ dropped' = dropped /\ received' = received
      BY <1>3, <2>2 DEF Reboot, Elements
    <3>2. Kept(logQueue', line', received', lost', dropped')
      BY <1>0, <2>1, <3>1, RebootKeeps
    <3> QED
      BY <1>0, <2>1, <3>2, NothingHeldAfter
  <2>3. CASE platform # "esp32"
    <3>1. UNCHANGED <<logQueue, line, received, lost, dropped>>
      BY <1>3, <2>3 DEF Reboot
    <3> QED
      BY <1>0, <2>1, <3>1, NothingHeldAfter
  <2> QED
    BY <2>2, <2>3
<1>4. CASE SendStatus \/ SendTags
  <2>1. PICK next : Write({}, logQueue, next) /\ pc # "sending"
    BY <1>4 DEF SendStatus, SendTags
  <2>2. received \cup {} = received /\ lost \cup {} = lost
    OBVIOUS
  <2> QED
    BY <1>0, <2>1, <2>2, WriteStep
<1>5. CASE DrainLog
  <2>1. logQueue # << >> /\ Write({Head(logQueue)}, Tail(logQueue), "logs") /\ pc # "sending"
    BY <1>5 DEF DrainLog
  <2>2. /\ Kept(Tail(logQueue), line, received \cup {Head(logQueue)}, lost, dropped)
        /\ Kept(Tail(logQueue), line, received, lost \cup {Head(logQueue)}, dropped)
        /\ \A m \in received : m < Head(logQueue) \/ Head(logQueue) = Late
    BY <1>0, <2>1, TakeKeeps
  <2> QED
    BY <1>0, <2>1, <2>2, WriteStep
<1>6. CASE BeginUpdate \/ ReadCommands \/ DisconnectClient \/ AcceptFails \/ Break \/ UNCHANGED vars
  <2>1. /\ UNCHANGED <<logQueue, line, dropped, held, received, lost>>
        /\ pc # "sending" \/ pc' = pc
    BY <1>6 DEF BeginUpdate, ReadCommands, DisconnectClient, AcceptFails, Break, vars, queue, fate
  <2> QED
    BY <1>0, <2>1 DEF LinesKept
<1> QED
  BY <1>1, <1>2, <1>3, <1>4, <1>5, <1>6, BlockedSendStep DEF Next, Update

(* The commands of one read: few enough, and none left when the status is    *)
(* sent.                                                                     *)
CommandsRead ==
    /\ commands \in Seq(Command) /\ Len(commands) <= MaxRead
    /\ pc \notin {"commands", "rebooting"} => commands = << >>

LEMMA CommandsReadInit == Init => CommandsRead
<1>1. << >> \in Seq(Command) /\ Len(<< >>) = 0
  BY EmptySeq
<1> QED
  BY <1>1, LineProperties DEF Init, CommandsRead

LEMMA CommandsReadStep == CommandsRead /\ [Next]_vars => CommandsRead'
<1> SUFFICES ASSUME CommandsRead, [Next]_vars PROVE CommandsRead'
  OBVIOUS
<1>1. CASE ReadCommands
  <2>1. PICK n \in 0 .. MaxRead : commands' \in [1 .. n -> Command]
    BY <1>1 DEF ReadCommands
  <2>2. n \in Nat /\ n <= MaxRead /\ pc' = "commands"
    BY <1>1, <2>1, LineProperties DEF ReadCommands
  <2>3. commands' \in Seq(Command) /\ Len(commands') = n
    BY <2>1, <2>2, SeqDef, LenProperties
  <2> QED
    BY <2>2, <2>3 DEF CommandsRead
<1>2. CASE HandleTelemetryCommand
  <2>1. commands # << >> /\ commands' = Tail(commands) /\ pc' \in {"commands", "rebooting"}
    BY <1>2 DEF HandleTelemetryCommand
  <2>2. Tail(commands) \in Seq(Command) /\ Len(Tail(commands)) = Len(commands) - 1 /\ Len(commands) \in Nat
    BY <2>1, HeadTailProperties, LenProperties DEF CommandsRead
  <2>3. Len(commands') <= MaxRead
    BY <2>1, <2>2, LineProperties DEF CommandsRead
  <2> QED
    BY <2>1, <2>2, <2>3 DEF CommandsRead
<1>3. CASE Reboot
  <2>1. (commands' = commands /\ pc' = "commands") \/ commands' = << >>
    BY <1>3 DEF Reboot
  <2>2. PICK e \in Seq(Command) : e = << >> /\ Len(e) = 0
    BY EmptySeq
  <2>3. CASE commands' = e
    BY <2>2, <2>3, LineProperties DEF CommandsRead
  <2>4. CASE commands' = commands /\ pc' = "commands"
    BY <2>4 DEF CommandsRead
  <2> QED
    BY <2>1, <2>2, <2>3, <2>4
<1>4. CASE ~ (ReadCommands \/ HandleTelemetryCommand \/ Reboot)
  <2>1. commands' = commands
    BY <1>4 DEF Next, Update, BeginUpdate, ReadFails, SendStatus, DrainLog, SendTags, DisconnectClient,
           BlockedSendEnds, SendResumes, SendFails, SendFindsClientGone,
           OthersLog, Connect, AcceptFails, Break, vars
  <2>2. pc' = pc \/ pc' = "commands" \/ commands = << >>
    <3>1. CASE SendStatus \/ DrainLog \/ SendTags
      BY <3>1 DEF SendStatus, DrainLog, SendTags, CommandsRead
    <3>2. CASE BeginUpdate \/ ReadFails \/ DisconnectClient \/ BlockedSendEnds
      BY <3>2 DEF BeginUpdate, ReadFails, DisconnectClient, BlockedSendEnds,
                  SendResumes, SendFails, SendFindsClientGone, CommandsRead
    <3>3. CASE OthersLog \/ Connect \/ AcceptFails \/ Break \/ UNCHANGED vars
      BY <3>3 DEF OthersLog, Connect, AcceptFails, Break, vars
    <3> QED
      BY <1>4, <3>1, <3>2, <3>3 DEF Next, Update
  <2> QED
    BY <2>1, <2>2 DEF CommandsRead
<1> QED
  BY <1>1, <1>2, <1>3, <1>4

(* Type correctness of TelemetrySession: in particular the queue never      *)
(* outgrows logQueue, although a failing write logs into the queue that is  *)
(* being emptied.                                                           *)
THEOREM SessionTypeCorrect == Spec => []TypeOK
<1> DEFINE Control ==
              /\ pc \in Places /\ ret \in Places
              /\ conn \in {"none", "up", "broken"}
              /\ accepting \in BOOLEAN /\ errorReported \in BOOLEAN /\ replaced \in BOOLEAN
              /\ platform \in {"linux", "esp32"}
<1>1. Init => Control
  BY DEF Init, Places
<1>2. ASSUME Control, [Next]_vars PROVE Control'
  <2>1. ASSUME NEW lines, NEW q, NEW next \in Places, Write(lines, q, next), platform' = platform
        PROVE  Control'
    BY <1>2, <2>1 DEF Write, WriteSucceeds, WriteIsLost, WriteFails, WriteFindsClientGone, WriteBlocks, socket, Places
  <2>2. CASE SendStatus
    BY <2>1, <2>2 DEF SendStatus, Places
  <2>3. CASE DrainLog
    BY <2>1, <2>3 DEF DrainLog, Places
  <2>4. CASE SendTags
    BY <2>1, <2>4 DEF SendTags, Places
  <2>5. CASE BeginUpdate \/ ReadCommands \/ ReadFails \/ HandleTelemetryCommand \/ DisconnectClient
    BY <1>2, <2>5 DEF BeginUpdate, ReadCommands, ReadFails, HandleTelemetryCommand, DisconnectClient, socket, Places
  <2>6. CASE Reboot
    BY <1>2, <2>6 DEF Reboot, Places
  <2>7. CASE OthersLog \/ Connect \/ AcceptFails \/ Break \/ UNCHANGED vars
    <3>1. /\ UNCHANGED <<pc, ret, platform>> /\ conn' \in {conn, "none", "up", "broken"}
          /\ accepting' \in {accepting, FALSE} /\ errorReported' \in {errorReported, FALSE}
      BY <2>7 DEF OthersLog, Connect, AcceptFails, Break, socket, vars
    <3>2. replaced' = replaced \/ replaced' = Writing
      BY <2>7 DEF OthersLog, Connect, AcceptFails, Break, vars
    <3>3. Writing \in BOOLEAN
      BY DEF Writing
    <3>4. replaced' \in BOOLEAN
      BY <1>2, <3>2, <3>3
    <3> QED
      BY <1>2, <3>1, <3>4
  <2>8. CASE BlockedSendEnds
    <3>1. CASE SendResumes \/ SendFindsClientGone
      BY <1>2, <3>1 DEF SendResumes, SendFindsClientGone, socket, Places
    <3>2. CASE SendFails
      <4>1. errorReported' \in BOOLEAN
        BY <3>2 DEF SendFails
      <4>2. pc' = ret /\ replaced' = FALSE /\ UNCHANGED <<ret, conn, accepting, platform>>
        BY <3>2 DEF SendFails
      <4> QED
        BY <1>2, <4>1, <4>2
    <3> QED
      BY <2>8, <3>1, <3>2 DEF BlockedSendEnds
  <2> QED
    BY <1>2, <2>2, <2>3, <2>4, <2>5, <2>6, <2>7, <2>8 DEF Next, Update
<1>3. LinesKept => /\ logQueue \in Seq(Line) /\ Len(logQueue) <= QueueSize /\ line \in Line
                   /\ held \subseteq Line /\ received \subseteq Line /\ lost \subseteq Line /\ dropped \subseteq Line
  BY DEF LinesKept, Kept, Accounted
<1>4. Control /\ CommandsRead /\ LinesKept => TypeOK
  BY <1>3 DEF TypeOK, CommandsRead
<1> HIDE DEF Control
<1> QED
  BY <1>1, <1>2, <1>4, CommandsReadInit, CommandsReadStep, KeptInit, KeptStep, PTL DEF Spec

(* No line is lost silently and none is handled twice: every line logged    *)
(* waits, is in a blocked send, was received, was lost in a write or turned away by the full      *)
(* queue, whatever the client and the failing writes do.                    *)
THEOREM EveryLineAccountedAlways == Spec => []EveryLineAccounted
<1>1. ASSUME LinesKept PROVE EveryLineAccounted
  <2> DEFINE fates == <<Queued, held, received, lost, dropped>>
  <2>0. fates[1] = Queued /\ fates[2] = held /\ fates[3] = received /\ fates[4] = lost /\ fates[5] = dropped
    OBVIOUS
  <2>1. Queued = Elements(logQueue)
    BY DEF Queued, Elements
  <2> HIDE DEF fates
  <2> SUFFICES ASSUME NEW l \in 1 .. MaxLine
               PROVE  Cardinality({k \in 1 .. 5 : l \in fates[k]}) = IF l < line THEN 1 ELSE 0
    BY DEF EveryLineAccounted, fates
  <2> DEFINE S == {k \in 1 .. 5 : l \in fates[k]}
  <2>2. 1 .. 5 = {1, 2, 3, 4, 5}
    OBVIOUS
  <2>3. /\ l < line <=> l \in Queued \cup held \cup received \cup lost \cup dropped
        /\ l \in Queued => l \notin held \cup received \cup lost \cup dropped
        /\ l \in held => l \notin received \cup lost \cup dropped
        /\ l \in received => l \notin lost \cup dropped
        /\ l \in lost => l \notin dropped
    BY <1>1, <2>1 DEF LinesKept, Kept, Accounted
  <2>4. l < line => S = {1} \/ S = {2} \/ S = {3} \/ S = {4} \/ S = {5}
    BY <2>0, <2>2, <2>3
  <2>5. ~ (l < line) => S = {}
    BY <2>0, <2>2, <2>3
  <2> HIDE DEF S
  <2>6. l < line => Cardinality(S) = 1
    BY <2>4, FS_Singleton
  <2>7. ~ (l < line) => Cardinality(S) = 0
    BY <2>5, FS_EmptySet
  <2> QED
    BY <2>6, <2>7 DEF S
<1> QED
  BY <1>1, KeptInit, KeptStep, PTL DEF Spec

(* The clients get the lines in the order of logging, none of them before   *)
(* an older one that is received, across broken and replaced connections.   *)
THEOREM LinesInOrderAlways == Spec => LinesInOrder
<1>1. ASSUME LinesKept, [Next]_vars
      PROVE  [\A l \in received' \ received : \A m \in received : m < l]_vars
  <2>0. received \subseteq Line /\ held \subseteq Line /\ logQueue \in Seq(Line)
    BY <1>1 DEF LinesKept, Kept, Accounted
  <2>1. CASE DrainLog
    <3>0. Kept(logQueue, line, received, lost, dropped)
      BY <1>1, <2>1, NothingHeld DEF DrainLog
    <3>1. logQueue # << >> /\ Write({Head(logQueue)}, Tail(logQueue), "logs")
      BY <2>1 DEF DrainLog
    <3>2. PICK h \in Line : h = Head(logQueue)
      BY <2>0, <3>1, TakeProperties
    <3>3. \A m \in received : m < h \/ h = Late
      BY <3>0, <3>1, <3>2, TakeKeeps
    <3>4. received' \subseteq received \cup {h}
      BY <3>1, <3>2 DEF Write, WriteSucceeds, WriteIsLost, WriteFails, WriteFindsClientGone, WriteBlocks
    <3>5. \A m \in received : h \notin received => m < h
      <4> SUFFICES ASSUME NEW m \in received, h \notin received PROVE m < h
        OBVIOUS
      <4>1. m \in Line /\ m # h
        BY <2>0
      <4> QED
        BY <3>3, <4>1, LineProperties
    <3> QED
      BY <3>4, <3>5
  <2>2. CASE SendStatus \/ SendTags
    <3>1. received' \subseteq received
      BY <2>2 DEF SendStatus, SendTags, Write, WriteSucceeds, WriteIsLost, WriteFails, WriteFindsClientGone, WriteBlocks
    <3> QED
      BY <3>1
  <2>3. CASE SendResumes
    <3>1. received' = received \cup held
      BY <2>3 DEF SendResumes
    <3>2. ASSUME NEW l \in held, l \notin received, NEW m \in received PROVE m < l
      <4>1. m \in Line /\ m # l /\ (m < l \/ l = Late)
        BY <1>1, <2>0, <3>2 DEF LinesKept
      <4> QED
        BY <4>1, LineProperties
    <3> QED
      BY <3>1, <3>2
  <2>4. CASE ~ (DrainLog \/ SendStatus \/ SendTags \/ SendResumes)
    <3>1. received' = received
      BY <1>1, <2>4 DEF Next, Update, BeginUpdate, ReadCommands, ReadFails, HandleTelemetryCommand, Reboot,
             DisconnectClient, BlockedSendEnds, SendFails, SendFindsClientGone,
             OthersLog, Connect, AcceptFails, Break, vars, fate
    <3> QED
      BY <3>1
  <2> QED
    BY <2>1, <2>2, <2>3, <2>4
<1> QED
  BY <1>1, KeptInit, KeptStep, PTL DEF Spec, LinesInOrder

-----------------------------------------------------------------------------
(* The places of a write: what is known of the socket it works on.          *)

\* A working connection has no pending error, nor has the one of a blocked send;
\* update goes on after a write where it was, and a write begins with the client
\* there is.
ErrorIsOld ==
    /\ pc \in Places /\ ret \in {"idle", "logs"}
    /\ conn \in {"none", "up", "broken"} /\ errorReported \in BOOLEAN
    /\ conn = "up" => ~errorReported
    /\ pc = "sending" /\ ~replaced => conn # "none" /\ ~errorReported
    /\ replaced => Writing

LEMMA ErrorIsOldInit == Init => ErrorIsOld
BY DEF Init, ErrorIsOld, Places

LEMMA ErrorIsOldStep == ErrorIsOld /\ [Next]_vars => ErrorIsOld'
<1> SUFFICES ASSUME ErrorIsOld, [Next]_vars PROVE ErrorIsOld'
  OBVIOUS
<1>1. ASSUME NEW lines, NEW q, NEW next \in {"idle", "logs"}, Write(lines, q, next), pc \in {"commands", "logs"}
      PROVE  ErrorIsOld'
  <2>0. next \in Places /\ "sending" \in Places /\ "disconnecting" \in Places
    BY DEF Places
  <2>1. CASE WriteSucceeds(lines, q, next) \/ WriteIsLost(lines, q, next)
    <3>1. pc' = next /\ UNCHANGED <<ret, conn, errorReported, replaced>>
      BY <2>1 DEF WriteSucceeds, WriteIsLost, socket
    <3> QED
      BY <1>1, <2>0, <3>1 DEF ErrorIsOld, Writing
  <2>2. CASE WriteFails(lines, q, next)
    <3>1. pc' = next /\ errorReported' = TRUE /\ conn = "broken" /\ UNCHANGED <<ret, conn, replaced>>
      BY <2>2 DEF WriteFails
    <3> QED
      BY <1>1, <2>0, <3>1 DEF ErrorIsOld, Writing
  <2>3. CASE WriteFindsClientGone(lines, q, next)
    <3>1. pc' = "disconnecting" /\ ret' = next /\ UNCHANGED <<conn, errorReported>>
      BY <2>3 DEF WriteFindsClientGone, socket
    <3> QED
      BY <2>0, <3>1 DEF ErrorIsOld, Writing
  <2>4. CASE WriteBlocks(lines, q, next)
    <3>1. pc' = "sending" /\ ret' = next /\ conn = "up" /\ UNCHANGED <<conn, errorReported>>
      BY <2>4 DEF WriteBlocks, socket
    <3> QED
      BY <2>0, <3>1 DEF ErrorIsOld, Writing
  <2> QED
    BY <1>1, <2>1, <2>2, <2>3, <2>4 DEF Write
<1>2. CASE SendStatus \/ DrainLog \/ SendTags
  BY <1>1, <1>2 DEF SendStatus, DrainLog, SendTags
<1>3. CASE BeginUpdate \/ ReadCommands \/ HandleTelemetryCommand \/ DisconnectClient
  BY <1>3 DEF ErrorIsOld, Writing, BeginUpdate, ReadCommands, HandleTelemetryCommand, DisconnectClient, socket, Places
<1>4. CASE Reboot \/ ReadFails
  <2>1. CASE ReadFails
    BY <2>1 DEF ErrorIsOld, Writing, ReadFails, Places
  <2>2. CASE Reboot
    <3>1. /\ pc = "rebooting" /\ pc' \in {"idle", "commands"} /\ UNCHANGED <<ret, replaced>>
          /\ \/ conn' = "none" /\ errorReported' = FALSE
             \/ UNCHANGED <<conn, errorReported>>
      BY <2>2 DEF Reboot
    <3>2. pc' \in Places /\ pc' # "sending" /\ ~Writing
      BY <3>1 DEF Places, Writing
    <3>3. ~replaced'
      BY <3>1, <3>2 DEF ErrorIsOld
    <3>4. conn' \in {"none", "up", "broken"} /\ errorReported' \in BOOLEAN /\ (conn' = "up" => ~errorReported')
      <4>1. CASE conn' = "none" /\ errorReported' = FALSE
        BY <4>1
      <4>2. CASE UNCHANGED <<conn, errorReported>>
        BY <4>2 DEF ErrorIsOld
      <4> QED
        BY <3>1, <4>1, <4>2
    <3> QED
      BY <3>1, <3>2, <3>3, <3>4 DEF ErrorIsOld
  <2> QED
    BY <1>4, <2>1, <2>2
<1>5. CASE BlockedSendEnds
  <2>1. /\ UNCHANGED <<ret, conn>>
        /\ pc' = "disconnecting" \/ (pc' = ret /\ replaced' = FALSE)
        /\ errorReported' = errorReported \/ (conn = "broken" /\ errorReported' = TRUE)
    BY <1>5 DEF BlockedSendEnds, SendResumes, SendFails, SendFindsClientGone, socket, ErrorIsOld
  <2>2. pc' \in Places /\ pc' # "sending"
    BY <2>1 DEF ErrorIsOld, Places
  <2>3. conn' = "up" => ~errorReported'
    BY <2>1 DEF ErrorIsOld
  <2>4. errorReported' \in BOOLEAN
    BY <2>1 DEF ErrorIsOld
  <2> QED
    BY <2>1, <2>2, <2>3, <2>4 DEF ErrorIsOld, Writing
<1>6. CASE OthersLog \/ Connect \/ AcceptFails \/ Break \/ UNCHANGED vars
  <2>1. /\ UNCHANGED <<pc, ret>>
        /\ \/ UNCHANGED <<conn, errorReported, replaced>>
           \/ conn' = "up" /\ errorReported' = FALSE /\ replaced' = Writing
           \/ conn' = "broken" /\ UNCHANGED <<errorReported, replaced>>
           \/ conn' = "none" /\ errorReported' = errorReported /\ replaced' = Writing
    BY <1>6 DEF OthersLog, Connect, AcceptFails, Break, socket, vars
  <2>2. pc' \in Places /\ ret' \in {"idle", "logs"}
    BY <2>1 DEF ErrorIsOld
  <2>3. conn' \in {"none", "up", "broken"} /\ errorReported' \in BOOLEAN
    BY <2>1, Zenon DEF ErrorIsOld
  <2>4. conn' = "up" => ~errorReported'
    BY <2>1, Zenon DEF ErrorIsOld
  <2>5. Writing' = Writing /\ (pc = "sending" => Writing)
    BY <2>1 DEF Writing
  <2>6. pc' = "sending" /\ ~replaced' => conn' # "none" /\ ~errorReported'
    BY <2>1, <2>5 DEF ErrorIsOld
  <2>7. replaced' => Writing'
    BY <2>1, <2>5 DEF ErrorIsOld
  <2> QED
    BY <2>2, <2>3, <2>4, <2>6, <2>7, Zenon DEF ErrorIsOld
<1> QED
  BY <1>2, <1>3, <1>4, <1>5, <1>6 DEF Next, Update

\* A failing write closes a working connection only when its client came after
\* the write had begun, whatever the server's thread does.
THEOREM OnlyLateClientClosedAlways == Spec => []OnlyLateClientClosed
<1>1. Init => OnlyLateClientClosed
  BY DEF Init, OnlyLateClientClosed
<1>2. ASSUME OnlyLateClientClosed, ErrorIsOld, [Next]_vars PROVE OnlyLateClientClosed'
  <2>1. ASSUME NEW lines, NEW q, NEW next \in {"idle", "logs"}, Write(lines, q, next)
        PROVE  OnlyLateClientClosed'
    BY <2>1 DEF OnlyLateClientClosed, Write, WriteSucceeds, WriteIsLost, WriteFails, WriteFindsClientGone,
                WriteBlocks, socket
  <2>2. CASE SendStatus \/ DrainLog \/ SendTags
    BY <2>1, <2>2 DEF SendStatus, DrainLog, SendTags
  <2>3. CASE BeginUpdate \/ ReadCommands \/ ReadFails \/ HandleTelemetryCommand \/ Reboot \/ DisconnectClient
    BY <2>3 DEF OnlyLateClientClosed, BeginUpdate, ReadCommands, ReadFails, HandleTelemetryCommand, Reboot, DisconnectClient
  <2>4. CASE BlockedSendEnds
    <3>1. CASE SendResumes \/ SendFails
      <4>1. pc' = ret /\ ret # "disconnecting"
        BY <1>2, <3>1 DEF SendResumes, SendFails, ErrorIsOld
      <4> QED
        BY <4>1 DEF OnlyLateClientClosed
    <3>2. CASE SendFindsClientGone
      BY <3>2 DEF OnlyLateClientClosed, SendFindsClientGone, socket
    <3> QED
      BY <2>4, <3>1, <3>2 DEF BlockedSendEnds
  <2>5. CASE Connect
    <3>1. pc' = "disconnecting" => replaced'
      BY <2>5 DEF Connect, Writing
    <3> QED
      BY <3>1 DEF OnlyLateClientClosed
  <2>6. CASE OthersLog \/ AcceptFails \/ Break \/ UNCHANGED vars
    <3>1. conn' # "up" \/ UNCHANGED <<pc, conn, replaced>>
      BY <2>6 DEF OthersLog, AcceptFails, Break, socket, vars
    <3> QED
      BY <1>2, <3>1 DEF OnlyLateClientClosed
  <2> QED
    BY <1>2, <2>2, <2>3, <2>4, <2>5, <2>6 DEF Next, Update
<1> QED
  BY <1>1, <1>2, ErrorIsOldInit, ErrorIsOldStep, PTL DEF Spec

-----------------------------------------------------------------------------
(* Why update returns (UpdateReturns), for every size of the queue: what is *)
(* left to do shrinks with every step, although failing writes add lines.   *)

Stage(place) ==
    CASE place = "reading"   -> 4 * MaxRead + 5
      [] place = "rebooting" -> 5
      [] place = "commands"  -> 4
      [] place = "logs"      -> 2
      [] OTHER               -> 0

\* what the connection may still cost: an error, and a client found gone
Pending == IF conn = "none" THEN 0 ELSE IF errorReported THEN 4 ELSE 6

\* ... and a blocked send on a socket that was replaced meanwhile
Trouble ==
    IF pc = "disconnecting" THEN 0
    ELSE IF pc = "sending" /\ replaced THEN Pending + 5 ELSE Pending

\* a write may take a second step
Place == IF pc \in {"sending", "disconnecting"} THEN Stage(ret) + 1 ELSE Stage(pc)

Effort == 2 * Len(logQueue) + 4 * Len(commands) + Trouble + Place

LEMMA StageProperties ==
    /\ Stage("reading") = 4 * MaxRead + 5 /\ Stage("rebooting") = 5 /\ Stage("commands") = 4
    /\ Stage("logs") = 2 /\ Stage("idle") = 0
    /\ \A place \in Places : Stage(place) \in Nat /\ Stage(place) <= 4 * MaxRead + 5
    /\ \A place \in {"idle", "logs"} : Stage(place) \in 0 .. 2
BY LineProperties DEF Stage, Places

\* a burst lengthens the queue by no more than its lines
LEMMA LogLength ==
    ASSUME NEW q \in Seq(Line), Len(q) <= QueueSize, line \in Line, NEW n \in Nat, Log(q, n)
    PROVE  Len(logQueue') \in Nat /\ Len(logQueue') <= Len(q) + n
<1> DEFINE kept == IF n <= Room(q) THEN n ELSE Room(q)
<1>1. Len(q) \in Nat
  BY LenProperties
<1>2. kept \in Nat /\ kept <= n
  BY <1>1, LineProperties DEF Room
<1>3. logQueue' = q \o Burst(line, kept)
  BY DEF Log, Burst
<1> HIDE DEF kept
<1>4. Len(q \o Burst(line, kept)) = Len(q) + kept
  BY <1>2, BurstProperties
<1> QED
  BY <1>1, <1>2, <1>3, <1>4

(* A write of update, from the queue q it leaves: at worst it costs what    *)
(* the trouble had set aside, and a second step.                            *)
LEMMA WriteEffort ==
    ASSUME ErrorIsOld, line \in Line, NEW lines, NEW q \in Seq(Line), Len(q) <= QueueSize,
           NEW next \in {"idle", "logs"}, Write(lines, q, next), pc \notin {"sending", "disconnecting"},
           NEW c \in Nat, c = Len(commands), commands' = commands
    PROVE  Effort' \in Nat /\ Effort' <= 2 * Len(q) + 4 * c + Trouble + Stage(next) + 1
<1>0. PICK t \in {0, 4, 6} : t = Pending /\ t = Trouble
  BY DEF Pending, Trouble
<1>1. PICK d \in Nat, e \in 0 .. 2 : d = Len(q) /\ e = Stage(next)
  BY LenProperties, StageProperties
<1>2. CASE WriteSucceeds(lines, q, next) \/ WriteIsLost(lines, q, next)
  <2>1. logQueue' = q /\ pc' = next /\ UNCHANGED <<conn, errorReported>>
    BY <1>2 DEF WriteSucceeds, WriteIsLost, socket
  <2>2. Trouble' = t /\ Place' = e
    BY <1>0, <1>1, <2>1 DEF Trouble, Pending, Place
  <2>3. Effort' = 2 * d + 4 * c + t + e
    BY <1>1, <2>1, <2>2 DEF Effort
  <2> QED
    BY <1>0, <1>1, <2>3
<1>3. CASE WriteFails(lines, q, next)
  <2>1. /\ Log(q, 1) /\ pc' = next /\ conn = "broken" /\ conn' = conn
        /\ ~errorReported /\ errorReported' = TRUE
    BY <1>3 DEF WriteFails
  <2>2. t = 6 /\ Trouble' = 4 /\ Place' = e
    BY <1>0, <1>1, <2>1 DEF Trouble, Pending, Place
  <2>3. PICK m \in Nat : m = Len(logQueue') /\ m <= d + 1
    BY <1>1, <2>1, LogLength
  <2>4. Effort' = 2 * m + 4 * c + 4 + e
    BY <2>2, <2>3 DEF Effort
  <2> QED
    BY <1>0, <1>1, <2>2, <2>3, <2>4
<1>4. CASE WriteFindsClientGone(lines, q, next)
  <2>1. /\ Log(q, 2) /\ pc' = "disconnecting" /\ ret' = next /\ conn = "broken"
    BY <1>4 DEF WriteFindsClientGone
  <2>2. t >= 4 /\ Trouble' = 0 /\ Place' = e + 1
    BY <1>0, <1>1, <2>1 DEF Trouble, Pending, Place
  <2>3. PICK m \in Nat : m = Len(logQueue') /\ m <= d + 2
    BY <1>1, <2>1, LogLength
  <2>4. Effort' = 2 * m + 4 * c + 0 + (e + 1)
    BY <2>2, <2>3 DEF Effort
  <2> QED
    BY <1>0, <1>1, <2>2, <2>3, <2>4
<1>5. CASE WriteBlocks(lines, q, next)
  <2>1. logQueue' = q /\ pc' = "sending" /\ ret' = next /\ UNCHANGED <<conn, errorReported, replaced>> /\ conn = "up"
    BY <1>5 DEF WriteBlocks, socket
  <2>2. ~replaced => Trouble' = t /\ Place' = e + 1
    BY <1>0, <1>1, <2>1 DEF Trouble, Pending, Place
  <2>3. ~replaced
    BY DEF ErrorIsOld, Writing
  <2>4. Effort' = 2 * d + 4 * c + t + (e + 1)
    BY <1>1, <2>1, <2>2, <2>3 DEF Effort
  <2> QED
    BY <1>0, <1>1, <2>4
<1> QED
  BY <1>2, <1>3, <1>4, <1>5 DEF Write

(* While update runs, each of its steps, and each end of a send it waits in, *)
(* leaves less to do, and no step of anyone else but a new client's          *)
(* connection adds to it: update returns after at most Effort steps, a       *)
(* number that is never above 2 QueueSize + 4 MaxRead + 11.                  *)
UpdateProgresses ==
    [][pc # "idle" /\ ~Connect =>
          Effort' <= Effort /\ (Update \/ BlockedSendEnds => Effort' < Effort)]_vars

LEMMA EffortParts ==
    ASSUME LinesKept, ErrorIsOld, CommandsRead
    PROVE  /\ logQueue \in Seq(Line) /\ Len(logQueue) \in Nat /\ Len(logQueue) <= QueueSize /\ line \in Line
           /\ Len(commands) \in 0 .. MaxRead
           /\ Pending \in {0, 4, 6} /\ Trouble \in 0 .. 11 /\ Place \in Nat
           /\ Writing \/ (Trouble = Pending /\ Place = Stage(pc))
           /\ Writing => Place \in 1 .. 3
           /\ Effort \in 0 .. 2 * QueueSize + 4 * MaxRead + 11
<1>1. /\ logQueue \in Seq(Line) /\ Len(logQueue) \in Nat /\ Len(logQueue) <= QueueSize /\ line \in Line
  BY LenProperties DEF LinesKept, Kept, Accounted
<1>2. Len(commands) \in 0 .. MaxRead /\ (Writing \/ pc = "reading" => Len(commands) = 0)
  BY LenProperties, EmptySeq, LineProperties DEF CommandsRead, Writing
<1>3. Pending \in {0, 4, 6} /\ Trouble \in 0 .. 11
  BY DEF Pending, Trouble
<1>4. Stage(pc) \in Nat /\ Stage(pc) <= 4 * MaxRead + 5 /\ Stage(ret) \in 0 .. 2
  BY StageProperties DEF ErrorIsOld
<1>5. ~Writing => Trouble = Pending /\ Place = Stage(pc)
  BY DEF Writing, Trouble, Place
<1>6. Writing => Place = Stage(ret) + 1
  BY DEF Writing, Place
<1>7. Place \in Nat /\ (Writing => Place \in 1 .. 3)
  BY <1>4, <1>5, <1>6
<1>8. Effort \in 0 .. 2 * QueueSize + 4 * MaxRead + 11
  <2>1. PICK k \in Nat, d \in Nat, x \in Nat, y \in Nat :
              k = Len(commands) /\ d = Len(logQueue) /\ x = Trouble /\ y = Place
    BY <1>1, <1>2, <1>3, <1>7, LineProperties
  <2>2. Effort = 2 * d + 4 * k + x + y
    BY <2>1 DEF Effort
  <2>3. d <= QueueSize /\ k <= MaxRead /\ x <= 11
    BY <1>1, <1>2, <1>3, <2>1
  <2>4. CASE Writing
    <3>1. k = 0 /\ y <= 3
      BY <1>2, <1>7, <2>1, <2>4
    <3> QED
      BY <2>2, <2>3, <3>1, LineProperties
  <2>5. CASE pc \in {"idle", "logs", "commands", "rebooting"}
    <3>1. Stage(pc) \in 0 .. 5 /\ ~Writing
      BY <2>5, StageProperties DEF Writing
    <3>2. y <= 5 /\ x <= 6
      BY <1>3, <1>5, <2>1, <3>1
    <3> QED
      BY <2>2, <2>3, <3>2, LineProperties
  <2>6. CASE pc = "reading"
    <3>1. ~Writing
      BY <2>6 DEF Writing
    <3>2. k = 0 /\ y <= 4 * MaxRead + 5 /\ x <= 6
      BY <1>2, <1>3, <1>4, <1>5, <2>1, <2>6, <3>1
    <3> QED
      BY <2>2, <2>3, <3>2, LineProperties
  <2> QED
    BY <2>4, <2>5, <2>6 DEF ErrorIsOld, Places, Writing
<1> QED
  BY <1>1, <1>2, <1>3, <1>5, <1>7, <1>8

\* Telemetry::update, with the lines its own failing writes log, is bounded work
THEOREM UpdateProgressesAlways ==
    Spec => UpdateProgresses /\ [](Effort \in 0 .. 2 * QueueSize + 4 * MaxRead + 11)
<1>1. ASSUME LinesKept, ErrorIsOld, CommandsRead PROVE Effort \in 0 .. 2 * QueueSize + 4 * MaxRead + 11
  BY <1>1, EffortParts
<1>2. ASSUME LinesKept, ErrorIsOld, CommandsRead, [Next]_vars
      PROVE  [pc # "idle" /\ ~Connect =>
                 Effort' <= Effort /\ (Update \/ BlockedSendEnds => Effort' < Effort)]_vars
  <2> SUFFICES ASSUME pc # "idle", ~Connect, Next
               PROVE  Effort' <= Effort /\ (Update \/ BlockedSendEnds => Effort' < Effort)
    BY <1>2
  <2>0. PICK d \in Nat, k \in Nat, t \in 0 .. 11, y \in Nat, x \in {0, 4, 6} :
              /\ d = Len(logQueue) /\ k = Len(commands) /\ t = Trouble /\ y = Place /\ x = Pending
              /\ d <= QueueSize /\ k <= MaxRead
    BY <1>2, EffortParts, LineProperties
  <2>1. logQueue \in Seq(Line) /\ line \in Line
    BY <1>2, EffortParts
  <2>2. Effort = 2 * d + 4 * k + t + y /\ Effort \in Nat
    BY <2>0 DEF Effort
  <2>3. ~Writing => t = x /\ y = Stage(pc)
    BY <1>2, <2>0, EffortParts
  <2>4. CASE ReadCommands
    <3>1. pc = "reading" /\ pc' = "commands" /\ UNCHANGED <<logQueue, conn, errorReported>>
      BY <2>4 DEF ReadCommands, queue, socket
    <3>2. PICK n \in 0 .. MaxRead : commands' \in [1 .. n -> Command]
      BY <2>4 DEF ReadCommands
    <3>3. n \in Nat /\ n <= MaxRead
      BY <3>2, LineProperties
    <3>4. Len(commands') = n
      BY <3>2, <3>3, SeqDef, LenProperties
    <3>5. t = x /\ y = 4 * MaxRead + 5
      BY <2>3, <3>1, StageProperties DEF Writing
    <3>6. Trouble' = x /\ Place' = 4
      BY <2>0, <3>1, StageProperties DEF Trouble, Pending, Place
    <3>7. Effort' = 2 * d + 4 * n + x + 4
      BY <2>0, <3>1, <3>4, <3>6 DEF Effort
    <3> QED
      BY <2>2, <3>3, <3>5, <3>7, LineProperties
  <2>5. CASE ReadFails
    <3>1. /\ pc = "reading" /\ pc' = "commands" /\ Log(logQueue, 1) /\ commands' = commands
          /\ conn = "broken" /\ ~errorReported /\ conn' = conn /\ errorReported' = TRUE
      BY <2>5 DEF ReadFails
    <3>2. PICK m \in Nat : m = Len(logQueue') /\ m <= d + 1
      BY <2>0, <2>1, <3>1, LogLength
    <3>3. t = 6 /\ y = 4 * MaxRead + 5
      BY <2>0, <2>3, <3>1, StageProperties DEF Writing, Pending
    <3>4. Trouble' = 4 /\ Place' = 4
      BY <3>1, StageProperties DEF Trouble, Pending, Place
    <3>5. Effort' = 2 * m + 4 * k + 4 + 4
      BY <2>0, <3>1, <3>2, <3>4 DEF Effort
    <3> QED
      BY <2>2, <3>2, <3>3, <3>5, LineProperties
  <2>6. CASE HandleTelemetryCommand
    <3>1. /\ pc = "commands" /\ pc' \in {"rebooting", "commands"} /\ UNCHANGED <<conn, errorReported>>
          /\ Log(logQueue, 1) /\ commands # << >> /\ commands' = Tail(commands)
      BY <2>6 DEF HandleTelemetryCommand, socket
    <3>2. PICK m \in Nat : m = Len(logQueue') /\ m <= d + 1
      BY <2>0, <2>1, <3>1, LogLength
    <3>3. k >= 1 /\ Len(commands') = k - 1
      <4>1. commands \in Seq(Command)
        BY <1>2 DEF CommandsRead
      <4>2. Len(Tail(commands)) = k - 1 /\ k # 0
        BY <2>0, <3>1, <4>1, HeadTailProperties, EmptySeq
      <4> QED
        BY <3>1, <4>2
    <3>4. t = x /\ y = 4
      BY <2>3, <3>1, StageProperties DEF Writing
    <3>5. Trouble' = x /\ Place' \in {4, 5}
      BY <2>0, <3>1, StageProperties DEF Trouble, Pending, Place
    <3>6. PICK z \in {4, 5} : Effort' = 2 * m + 4 * (k - 1) + x + z
      BY <3>2, <3>3, <3>5 DEF Effort
    <3> QED
      BY <2>2, <3>2, <3>3, <3>4, <3>6
  <2>7. CASE Reboot
    <3>1. pc = "rebooting" /\ t = x /\ y = 5
      BY <2>3, <2>7, StageProperties DEF Reboot, Writing
    <3>2. CASE platform = "esp32"
      <4>1. pc' = "idle" /\ conn' = "none" /\ logQueue' = << >> /\ commands' = << >>
        BY <2>7, <3>2 DEF Reboot
      <4>2. Len(logQueue') = 0 /\ Len(commands') = 0 /\ Trouble' = 0 /\ Place' = 0
        BY <4>1, EmptySeq, StageProperties DEF Trouble, Pending, Place
      <4>3. Effort' = 0
        BY <4>2 DEF Effort
      <4> QED
        BY <2>2, <3>1, <4>3
    <3>3. CASE platform # "esp32"
      <4>1. pc' = "commands" /\ UNCHANGED <<conn, errorReported, logQueue, commands>>
        BY <2>7, <3>3 DEF Reboot
      <4>2. Trouble' = x /\ Place' = 4
        BY <2>0, <4>1, StageProperties DEF Trouble, Pending, Place
      <4>3. Effort' = 2 * d + 4 * k + x + 4
        BY <2>0, <4>1, <4>2 DEF Effort
      <4> QED
        BY <2>2, <3>1, <4>3
    <3> QED
      BY <3>2, <3>3
  <2>8. CASE SendStatus
    <3>1. /\ pc = "commands" /\ Write({}, logQueue, "logs") /\ commands' = commands
      BY <2>8 DEF SendStatus
    <3>2. t = x /\ y = 4
      BY <2>3, <3>1, StageProperties DEF Writing
    <3>3. Effort' \in Nat /\ Effort' <= 2 * d + 4 * k + t + 2 + 1
      BY <1>2, <2>0, <2>1, <3>1, WriteEffort, StageProperties
    <3> QED
      BY <2>2, <3>2, <3>3
  <2>9. CASE DrainLog
    <3>1. /\ pc = "logs" /\ logQueue # << >> /\ Write({Head(logQueue)}, Tail(logQueue), "logs") /\ commands' = commands
      BY <2>9 DEF DrainLog
    <3>2. PICK q \in Seq(Line), e \in Nat : q = Tail(logQueue) /\ e = Len(q) /\ e = d - 1
      BY <2>0, <2>1, <3>1, TakeProperties, LenProperties
    <3>3. t = x /\ y = 2
      BY <2>3, <3>1, StageProperties DEF Writing
    <3>4. Len(q) <= QueueSize
      BY <2>0, <3>2, LineProperties
    <3>5. Effort' \in Nat /\ Effort' <= 2 * e + 4 * k + t + 2 + 1
      BY <1>2, <2>0, <2>1, <3>1, <3>2, <3>4, WriteEffort, StageProperties
    <3> QED
      BY <2>2, <3>2, <3>3, <3>5
  <2>10. CASE SendTags
    <3>1. /\ pc = "logs" /\ Write({}, logQueue, "idle") /\ commands' = commands
      BY <2>10 DEF SendTags
    <3>2. t = x /\ y = 2
      BY <2>3, <3>1, StageProperties DEF Writing
    <3>3. Effort' \in Nat /\ Effort' <= 2 * d + 4 * k + t + 0 + 1
      BY <1>2, <2>0, <2>1, <3>1, WriteEffort, StageProperties
    <3> QED
      BY <2>2, <3>2, <3>3
  <2>11. PICK z \in 0 .. 2 : z = Stage(ret) /\ (Writing => y = z + 1)
    BY <1>2, <2>0, StageProperties DEF ErrorIsOld, Place, Writing
  <2>12. ret \notin {"sending", "disconnecting"}
    BY <1>2 DEF ErrorIsOld
  <2>13. CASE DisconnectClient
    <3>1. pc = "disconnecting" /\ pc' = ret /\ conn' = "none" /\ UNCHANGED <<logQueue, commands>>
      BY <2>13 DEF DisconnectClient, queue
    <3>2. t = 0 /\ y = z + 1
      BY <2>0, <2>11, <3>1 DEF Trouble, Writing
    <3>3. Trouble' = 0 /\ Place' = z
      BY <2>11, <2>12, <3>1 DEF Trouble, Pending, Place
    <3>4. Effort' = 2 * d + 4 * k + 0 + z
      BY <2>0, <3>1, <3>3 DEF Effort
    <3> QED
      BY <2>2, <3>2, <3>4
  <2>14. CASE BlockedSendEnds
    <3>0. pc = "sending" /\ y = z + 1 /\ commands' = commands
      BY <2>11, <2>14 DEF BlockedSendEnds, SendResumes, SendFails, SendFindsClientGone, Writing
    <3>1. (replaced /\ t = x + 5) \/ (~replaced /\ t = x /\ x = 6)
      BY <1>2, <2>0, <3>0 DEF Trouble, Pending, ErrorIsOld
    <3>2. CASE SendResumes
      <4>1. pc' = ret /\ UNCHANGED <<logQueue, conn, errorReported>>
        BY <3>2 DEF SendResumes, queue, socket
      <4>2. Trouble' = x /\ Place' = z
        BY <2>0, <2>11, <2>12, <4>1 DEF Trouble, Pending, Place
      <4>3. Effort' = 2 * d + 4 * k + x + z
        BY <2>0, <3>0, <4>1, <4>2 DEF Effort
      <4> QED
        BY <2>2, <3>0, <3>1, <4>3
    <3>3. CASE SendFails
      <4>1. pc' = ret /\ conn' = conn /\ Log(logQueue, 1) /\ errorReported' = (errorReported \/ ~replaced)
        BY <3>3 DEF SendFails
      <4>2. PICK m \in Nat : m = Len(logQueue') /\ m <= d + 1
        BY <2>0, <2>1, <4>1, LogLength
      <4>3. CASE replaced
        <5>1. Pending' = x
          BY <1>2, <2>0, <4>1, <4>3 DEF Pending, ErrorIsOld
        <5>2. Trouble' = x /\ Place' = z
          BY <2>11, <2>12, <4>1, <5>1 DEF Trouble, Place
        <5>3. Effort' = 2 * m + 4 * k + x + z
          BY <2>0, <3>0, <4>2, <5>2 DEF Effort
        <5> QED
          BY <2>2, <3>0, <3>1, <4>2, <4>3, <5>3
      <4>4. CASE ~replaced
        <5>1. conn # "none" /\ errorReported'
          BY <1>2, <3>0, <4>1, <4>4 DEF ErrorIsOld
        <5>2. Trouble' = 4 /\ Place' = z
          BY <2>11, <2>12, <4>1, <5>1 DEF Trouble, Pending, Place
        <5>3. Effort' = 2 * m + 4 * k + 4 + z
          BY <2>0, <3>0, <4>2, <5>2 DEF Effort
        <5> QED
          BY <2>2, <3>0, <3>1, <4>2, <4>4, <5>3
      <4> QED
        BY <4>3, <4>4
    <3>4. CASE SendFindsClientGone
      <4>1. pc' = "disconnecting" /\ ret' = ret /\ Log(logQueue, 2)
        BY <3>4 DEF SendFindsClientGone
      <4>2. PICK m \in Nat : m = Len(logQueue') /\ m <= d + 2
        BY <2>0, <2>1, <4>1, LogLength
      <4>3. Trouble' = 0 /\ Place' = z + 1
        BY <2>11, <4>1 DEF Trouble, Place
      <4>4. Effort' = 2 * m + 4 * k + 0 + (z + 1)
        BY <2>0, <3>0, <4>2, <4>3 DEF Effort
      <4> QED
        BY <2>2, <3>0, <3>1, <4>2, <4>4
    <3> QED
      BY <2>14, <3>2, <3>3, <3>4 DEF BlockedSendEnds
  <2>15. ASSUME AcceptFails \/ Break PROVE Effort' <= Effort
    <3>1. UNCHANGED <<pc, ret, logQueue, commands, errorReported>>
      BY <2>15 DEF AcceptFails, Break, queue
    <3>2. \/ conn = "up" /\ conn' = "broken" /\ replaced' = replaced
          \/ conn' = "none" /\ (pc = "sending" => replaced')
      BY <2>15 DEF AcceptFails, Break, Writing
    <3>3. Trouble' \in 0 .. 11 /\ Trouble' <= t
      BY <1>2, <2>0, <3>1, <3>2 DEF Trouble, Pending, ErrorIsOld
    <3>4. Place' = y
      BY <2>0, <3>1 DEF Place
    <3>5. PICK u \in 0 .. 11 : u = Trouble' /\ u <= t
      BY <3>3
    <3>6. Effort' = 2 * d + 4 * k + u + y
      BY <2>0, <3>1, <3>4, <3>5 DEF Effort
    <3>7. 2 * d + 4 * k + u + y <= 2 * d + 4 * k + t + y
      BY <2>0, <3>5
    <3> QED
      BY <2>2, <3>6, <3>7
  <2>16. ~BeginUpdate /\ ~OthersLog
    BY DEF BeginUpdate, OthersLog
  <2>17. Update \/ BlockedSendEnds => Effort' <= Effort /\ Effort' < Effort
    BY <2>4, <2>5, <2>6, <2>7, <2>8, <2>9, <2>10, <2>13, <2>14, <2>16 DEF Update
  <2> QED
    BY <2>15, <2>16, <2>17 DEF Next
<1> QED
  BY <1>1, <1>2, KeptInit, KeptStep, ErrorIsOldInit, ErrorIsOldStep, CommandsReadInit, CommandsReadStep, PTL
     DEF Spec, UpdateProgresses
==============================================================================
