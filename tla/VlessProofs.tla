---------------------------- MODULE VlessProofs ----------------------------
(***************************************************************************)
(* The VLESS side of HttpBridges: a connection's four tasks, for any       *)
(* traffic of the user's.  Before it, what the codecs make of a sequence:  *)
(* OfTypes, the blocks of Vision and the hunks of gRPC are recursive       *)
(* functions, of which a step is proved first and the rest by induction    *)
(* over lengths.  Then the download: where each byte of the answer is; and *)
(* the upload: where each unit of the user's is, padded and framed.        *)
(***************************************************************************)
EXTENDS HttpBridgesProofs, WellFoundedInduction

(* The bytes of VLESS, a type and a value each.                            *)
Types == Vless!Classes \cup {"version", "addons", "addon", "uuid", "command", "content",
                             "padding", "zero", "bare", "ping", "close", "head", "flag",
                             "length", "request", "chunk", "message", "lost"}
Tok == Types \X Nat

-----------------------------------------------------------------------------
(* A set of natural numbers has a least one, or there is none: induction,  *)
(* with a set where others have a predicate.                               *)
LEMMA Induction ==
  ASSUME NEW S, 0 \in S, \A n \in Nat : n \in S => n + 1 \in S
  PROVE  \A n \in Nat : n \in S
<1> DEFINE R == OpToRel(<, Nat)
           T == Nat \ S
<1> SUFFICES ASSUME T # {} PROVE FALSE
  OBVIOUS
<1>1. IsWellFoundedOn(R, Nat) /\ T \in SUBSET Nat
  BY NatLessThanWellFounded
<1>2. PICK n \in T : \A m \in T : ~(<<m, n>> \in R)
  <2> HIDE DEF R, T
  <2> QED BY <1>1, WFMin
<1>3. \A m \in T : ~(m < n)
  BY <1>2 DEF OpToRel
<1>4. n \in Nat /\ n # 0 /\ n - 1 \in Nat /\ n - 1 < n
  OBVIOUS
<1>5. n - 1 \in S /\ n - 1 + 1 = n
  BY <1>3, <1>4
<1> QED BY <1>4, <1>5

(* A part of a sequence, from behind p to q.                               *)
Win(s, p, q) == SubSeq(s, p + 1, q)

(* Its type, its length and its elements.                                  *)
LEMMA WinFacts ==
  ASSUME NEW S, NEW s \in Seq(S), NEW p \in Nat, NEW q \in Nat, p <= q, q <= Len(s)
  PROVE  /\ Win(s, p, q) \in Seq(S) /\ Len(Win(s, p, q)) = q - p
         /\ \A i \in 1 .. q - p : Win(s, p, q)[i] = s[p + i]
<1>1. \A i \in p + 1 .. q : s[i] \in S
  BY ElementOfSeq, LenProperties
<1> QED BY <1>1, SubSeqProperties, LenProperties DEF Win

(* The same by a name, for the provers.                                    *)
Part(S, s, p, q) ==
  /\ Win(s, p, q) \in Seq(S) /\ Len(Win(s, p, q)) = q - p
  /\ \A i \in 1 .. q - p : Win(s, p, q)[i] = s[p + i]

LEMMA WinPart ==
  ASSUME NEW S, NEW s \in Seq(S), NEW p \in Nat, NEW q \in Nat, p <= q, q <= Len(s)
  PROVE  Part(S, s, p, q)
BY WinFacts DEF Part

(* A part of a part.                                                       *)
LEMMA WinOfWin ==
  ASSUME NEW S, NEW s \in Seq(S), NEW p \in Nat, NEW q \in Nat, p <= q, q <= Len(s),
         NEW a \in Nat, NEW b \in Nat, a <= b, b <= q - p
  PROVE  Win(Win(s, p, q), a, b) = Win(s, p + a, p + b)
<1>1. PICK x \in Nat, y \in Nat : x = p + a /\ y = p + b
  OBVIOUS
<1> DEFINE w == Win(s, p, q)
<1>2. w \in Seq(S) /\ Len(w) = q - p /\ \A i \in 1 .. q - p : w[i] = s[p + i]
  BY ZenonT(40), WinFacts
<1> HIDE DEF w
<1>3. /\ w \in Seq(S) /\ b <= Len(w) /\ x <= y /\ y <= Len(s)
  <2>1. Len(s) \in Nat
    BY LenProperties
  <2> QED BY <1>1, <1>2, <2>1
<1>4. /\ Win(w, a, b) \in Seq(S) /\ Len(Win(w, a, b)) = b - a
      /\ \A i \in 1 .. b - a : Win(w, a, b)[i] = w[a + i]
  <2>1. Part(S, w, a, b)
    BY <1>3, WinPart
  <2> QED BY <2>1 DEF Part
<1>5. /\ Win(s, x, y) \in Seq(S) /\ Len(Win(s, x, y)) = y - x
      /\ \A i \in 1 .. y - x : Win(s, x, y)[i] = s[x + i]
  <2>1. Part(S, s, x, y)
    BY <1>3, WinPart
  <2> QED BY <2>1 DEF Part
<1>6. \A i \in 1 .. b - a : Win(w, a, b)[i] = Win(s, x, y)[i]
  BY <1>1, <1>2, <1>4, <1>5
<1>7. Win(w, a, b) = Win(s, x, y)
  BY <1>1, <1>4, <1>5, <1>6, SeqEqual
<1> QED BY <1>1, <1>7 DEF w

(* Two parts that meet.                                                    *)
LEMMA WinJoin ==
  ASSUME NEW S, NEW s \in Seq(S), NEW p \in Nat, NEW q \in Nat, NEW r \in Nat,
         p <= q, q <= r, r <= Len(s)
  PROVE  Win(s, p, q) \o Win(s, q, r) = Win(s, p, r)
<1>1. p <= r /\ q <= Len(s)
  BY LenProperties
<1>2. PICK u, v, w : u = Win(s, p, q) /\ v = Win(s, q, r) /\ w = Win(s, p, r)
  OBVIOUS
<1>3. /\ u \in Seq(S) /\ Len(u) = q - p
      /\ \A i \in 1 .. q - p : u[i] = s[p + i]
  BY <1>1, <1>2, WinFacts
<1>4. /\ v \in Seq(S) /\ Len(v) = r - q
      /\ \A i \in 1 .. r - q : v[i] = s[q + i]
  BY <1>1, <1>2, WinFacts
<1>5. /\ w \in Seq(S) /\ Len(w) = r - p
      /\ \A i \in 1 .. r - p : w[i] = s[p + i]
  BY <1>1, <1>2, WinFacts
<1>6. /\ u \o v \in Seq(S) /\ Len(u \o v) = Len(u) + Len(v)
      /\ \A i \in 1 .. Len(u) + Len(v) :
           (u \o v)[i] = IF i <= Len(u) THEN u[i] ELSE v[i - Len(u)]
  BY <1>3, <1>4, ConcatProperties
<1>7. PICK t : t = u \o v
  OBVIOUS
<1>8. t \in Seq(S) /\ Len(t) = Len(w) /\ \A i \in 1 .. Len(t) : t[i] = w[i]
  <2>1. t \in Seq(S) /\ Len(t) = (q - p) + (r - q) /\ Len(w) = r - p
    BY <1>3, <1>4, <1>5, <1>6, <1>7
  <2>2. ASSUME NEW i \in 1 .. r - p PROVE t[i] = w[i]
    <3>1. w[i] = s[p + i]
      BY <1>5
    <3>2. CASE i <= q - p
      BY <1>3, <1>4, <1>6, <1>7, <3>1, <3>2
    <3>3. CASE ~(i <= q - p)
      <4>1. i - (q - p) \in 1 .. r - q /\ q + (i - (q - p)) = p + i
        BY <3>3
      <4>2. v[i - (q - p)] = s[p + i]
        BY <1>4, <4>1
      <4> QED BY <1>3, <1>4, <1>6, <1>7, <3>1, <3>3, <4>2
    <3> QED BY <3>2, <3>3
  <2> QED BY <2>1, <2>2
<1>9. t = w
  BY <1>5, <1>8, SeqEqual
<1> QED BY <1>2, <1>7, <1>9

(* What the tasks do with a part: read from it.                            *)
LEMMA WinRead ==
  ASSUME NEW S, NEW s \in Seq(S), NEW p \in Nat, NEW q \in Nat, p <= q, q <= Len(s),
         NEW r \in p .. q, NEW n, NEW m, n = r - p, m = n + 1
  PROVE  /\ SubSeq(Win(s, p, q), 1, n) = Win(s, p, r)
         /\ Vless!From(Win(s, p, q), m) = Win(s, r, q)
<1>1. n \in Nat /\ m = n + 1 /\ 0 <= n /\ n <= q - p /\ q - p \in Nat
  OBVIOUS
<1>2. Win(Win(s, p, q), 0, n) = Win(s, p + 0, p + n)
  BY <1>1, WinOfWin
<1>3. Win(Win(s, p, q), n, q - p) = Win(s, p + n, p + (q - p))
  BY <1>1, WinOfWin
<1>4. Len(Win(s, p, q)) = q - p
  BY WinFacts
<1>5. p + (q - p) = q /\ p + 0 = p /\ 0 + 1 = 1 /\ p + n = r
  OBVIOUS
<1> QED BY <1>1, <1>2, <1>3, <1>4, <1>5 DEF Win, Vless!From

(* Where a part is empty.                                                  *)
LEMMA WinEmpty ==
  ASSUME NEW S, NEW s \in Seq(S), NEW p \in Nat, NEW q \in Nat, p <= q, q <= Len(s)
  PROVE  Win(s, p, q) = << >> <=> p = q
<1>1. /\ Win(s, p, q) \in Seq(S) /\ Len(Win(s, p, q)) = q - p
  BY WinFacts
<1>2. Win(s, p, q) = << >> <=> Len(Win(s, p, q)) = 0
  BY <1>1, EmptySeq
<1> QED BY <1>1, <1>2

(* ... and add the next byte to it.                                        *)
LEMMA WinGrows ==
  ASSUME NEW S, NEW s \in Seq(S), NEW p \in Nat, NEW q \in Nat, p <= q, NEW l \in Nat,
         l <= Len(s), q < l
  PROVE  /\ Append(Win(s, p, q), Head(Win(s, q, l))) = Win(s, p, q + 1)
         /\ Tail(Win(s, q, l)) = Win(s, q + 1, l)
<1>1. PICK r \in Nat : r = q + 1
  OBVIOUS
<1>0. q <= r /\ r <= l /\ q <= l /\ p <= r /\ l <= Len(s) /\ q <= Len(s) /\ r <= Len(s)
  BY <1>1, LenProperties
<1>2. /\ Win(s, q, l) \in Seq(S) /\ Len(Win(s, q, l)) = l - q
      /\ \A i \in 1 .. l - q : Win(s, q, l)[i] = s[q + i]
  BY <1>0, WinFacts
<1>3. /\ Win(s, p, q) \in Seq(S) /\ Len(Win(s, p, q)) = q - p
      /\ \A i \in 1 .. q - p : Win(s, p, q)[i] = s[p + i]
  BY <1>0, WinFacts
<1>4. /\ Win(s, p, r) \in Seq(S) /\ Len(Win(s, p, r)) = r - p
      /\ \A i \in 1 .. r - p : Win(s, p, r)[i] = s[p + i]
  BY <1>0, WinFacts
<1>5. /\ Win(s, r, l) \in Seq(S) /\ Len(Win(s, r, l)) = l - r
      /\ \A i \in 1 .. l - r : Win(s, r, l)[i] = s[r + i]
  BY <1>0, WinFacts
<1>6. PICK t, u, v, w :
        t = Win(s, q, l) /\ u = Win(s, p, q) /\ v = Win(s, p, r) /\ w = Win(s, r, l)
  OBVIOUS
<1>7. t # << >> /\ Head(t) = s[r] /\ Head(t) \in S
  <2>1. Len(t) > 0 /\ 1 \in 1 .. l - q /\ q + 1 = r
    BY <1>1, <1>2, <1>6
  <2>2. t[1] = s[r]
    BY <1>2, <1>6, <2>1
  <2>3. t # << >> /\ Head(t) = t[1]
    BY <1>2, <1>6, <2>1, EmptySeq
  <2>4. t[1] \in S
    BY <1>2, <1>6, <2>1, ElementOfSeq
  <2> QED BY <2>2, <2>3, <2>4
<1>8. Append(u, Head(t)) = v
  <2>1. PICK a : a = Append(u, Head(t))
    OBVIOUS
  <2>2. /\ a \in Seq(S) /\ Len(a) = q - p + 1
        /\ \A i \in 1 .. q - p : a[i] = u[i]
        /\ a[q - p + 1] = s[r]
    BY <1>3, <1>6, <1>7, <2>1, AppendProperties
  <2>3. ASSUME NEW i \in 1 .. r - p PROVE a[i] = v[i]
    <3>1. v[i] = s[p + i]
      BY <1>4, <1>6
    <3>2. CASE i <= q - p
      BY <1>1, <1>3, <1>6, <2>2, <3>1, <3>2
    <3>3. CASE ~(i <= q - p)
      BY <1>1, <2>2, <3>1, <3>3
    <3> QED BY <3>2, <3>3
  <2>4. q - p + 1 = r - p
    BY <1>1
  <2> QED BY <1>4, <1>6, <2>1, <2>2, <2>3, <2>4, SeqEqual
<1>9. Tail(t) = w
  <2>1. PICK a : a = Tail(t)
    OBVIOUS
  <2>2. /\ a \in Seq(S) /\ Len(a) = l - q - 1
        /\ \A i \in 1 .. l - q - 1 : a[i] = t[i + 1]
    BY <1>2, <1>6, <1>7, <2>1, HeadTailProperties
  <2>3. l - q - 1 = l - r
    BY <1>1
  <2>4. ASSUME NEW i \in 1 .. l - r PROVE a[i] = w[i]
    <3>1. w[i] = s[r + i] /\ a[i] = t[i + 1]
      BY <1>5, <1>6, <2>2, <2>3
    <3>2. i + 1 \in 1 .. l - q /\ q + (i + 1) = r + i
      BY <1>1
    <3>3. t[i + 1] = s[q + (i + 1)]
      BY <1>2, <1>6, <3>2
    <3> QED BY <3>1, <3>2, <3>3
  <2> QED BY <1>5, <1>6, <2>1, <2>2, <2>3, <2>4, SeqEqual
<1> QED BY <1>1, <1>6, <1>8, <1>9

-----------------------------------------------------------------------------
(* OfTypes: what of the first n bytes is kept.                             *)
KeptOf(f, s, T, n) ==
  f = [i \in 0 .. n |->
         IF i = 0 THEN << >>
         ELSE IF s[i][1] \in T THEN Append(f[i - 1], s[i]) ELSE f[i - 1]]

(* There is such a function.                                               *)
LEMMA KeptExists ==
  ASSUME NEW s, NEW T, NEW l \in Nat
  PROVE  \E f : KeptOf(f, s, T, l)
<1> DEFINE Turn(g, n) == IF s[n][1] \in T THEN Append(g, s[n]) ELSE g
           Keeps(f, k) == f = [n \in 0 .. k |-> IF n = 0 THEN << >> ELSE Turn(f[n - 1], n)]
           S == { k \in Nat : \E f : Keeps(f, k) }
<1>1. 0 \in S
  <2> DEFINE f == [n \in 0 .. 0 |-> << >>]
  <2>1. f = [n \in 0 .. 0 |-> IF n = 0 THEN << >> ELSE Turn(f[n - 1], n)]
    OBVIOUS
  <2> HIDE DEF f, Turn
  <2> QED BY <2>1
<1>2. ASSUME NEW k \in Nat, k \in S PROVE k + 1 \in S
  <2> HIDE DEF Turn
  <2>1. PICK f : Keeps(f, k)
    BY <1>2
  <2> DEFINE g == [n \in 0 .. (k + 1) |-> IF n = k + 1 THEN Turn(f[k], k + 1) ELSE f[n]]
  <2>2. \A n \in 0 .. k : f[n] = IF n = 0 THEN << >> ELSE Turn(f[n - 1], n)
    BY <2>1
  <2>3. \A n \in 0 .. (k + 1) : g[n] = IF n = 0 THEN << >> ELSE Turn(g[n - 1], n)
    <3> SUFFICES ASSUME NEW n \in 0 .. (k + 1)
                 PROVE  g[n] = IF n = 0 THEN << >> ELSE Turn(g[n - 1], n)
      OBVIOUS
    <3>1. CASE n = k + 1
      <4>1. g[n] = Turn(f[k], n) /\ g[n - 1] = f[k] /\ n # 0
        BY <3>1
      <4> QED BY <4>1
    <3>2. CASE n # k + 1
      <4>1. n \in 0 .. k /\ g[n] = f[n] /\ (n # 0 => g[n - 1] = f[n - 1])
        BY <3>2
      <4> QED BY <2>2, <4>1
    <3> QED BY <3>1, <3>2
  <2>4. g = [n \in 0 .. (k + 1) |-> g[n]]
    OBVIOUS
  <2> HIDE DEF g
  <2>5. Keeps(g, k + 1)
    BY <2>3, <2>4
  <2> QED BY <2>5
<1> HIDE DEF S
<1>3. l \in S
  BY <1>1, <1>2, Induction
<1>4. PICK f : Keeps(f, l)
  BY <1>3 DEF S
<1> QED BY <1>4 DEF KeptOf

(* It depends on these bytes only.                                         *)
LEMMA KeptSame ==
  ASSUME NEW T, NEW s, NEW t, NEW f, NEW g, NEW n \in Nat, NEW m \in Nat,
         KeptOf(f, s, T, n), KeptOf(g, t, T, m),
         NEW k \in Nat, k <= n, k <= m, \A i \in 1 .. k : s[i] = t[i]
  PROVE  f[k] = g[k]
<1> DEFINE S == { j \in Nat : j <= k => f[j] = g[j] }
<1>1. 0 \in S
  BY DEF KeptOf
<1>2. ASSUME NEW j \in Nat, j \in S PROVE j + 1 \in S
  <2> SUFFICES ASSUME j + 1 <= k PROVE f[j + 1] = g[j + 1]
    OBVIOUS
  <2>1. f[j] = g[j] /\ s[j + 1] = t[j + 1]
    BY <1>2
  <2>2. /\ f[j + 1] = IF s[j + 1][1] \in T THEN Append(f[j], s[j + 1]) ELSE f[j]
        /\ g[j + 1] = IF t[j + 1][1] \in T THEN Append(g[j], t[j + 1]) ELSE g[j]
    <3>1. PICK h \in Nat : h = j + 1
      OBVIOUS
    <3>2. h \in 0 .. n /\ h \in 0 .. m /\ h # 0 /\ h - 1 = j
      BY <3>1
    <3>3. f[h] = IF s[h][1] \in T THEN Append(f[h - 1], s[h]) ELSE f[h - 1]
      BY <3>2 DEF KeptOf
    <3>4. g[h] = IF t[h][1] \in T THEN Append(g[h - 1], t[h]) ELSE g[h - 1]
      BY <3>2 DEF KeptOf
    <3> QED BY <3>1, <3>2, <3>3, <3>4
  <2> QED BY <2>1, <2>2
<1> HIDE DEF S
<1>3. k \in S
  BY <1>1, <1>2, Induction
<1> QED BY <1>3 DEF S

(* The one of OfTypes is such a function, by its definition.               *)
LEMMA OfTypesIs ==
  ASSUME NEW s \in Seq(Tok), NEW T
  PROVE  \E f : KeptOf(f, s, T, Len(s)) /\ Vless!OfTypes(s, T) = f[Len(s)]
<1> DEFINE Keeps(f) ==
             f = [i \in 0 .. Len(s) |->
                    IF i = 0 THEN << >>
                    ELSE IF s[i][1] \in T THEN Append(f[i - 1], s[i]) ELSE f[i - 1]]
           chosen == CHOOSE f : Keeps(f)
<1>1. PICK f : KeptOf(f, s, T, Len(s))
  BY KeptExists, LenProperties
<1>2. Keeps(chosen)
  <2>1. Keeps(f)
    BY <1>1 DEF KeptOf
  <2> HIDE DEF Keeps
  <2> QED BY <2>1
<1>3. Vless!OfTypes(s, T) = chosen[Len(s)]
  BY DEF Vless!OfTypes
<1> HIDE DEF chosen
<1> QED BY <1>2, <1>3 DEF KeptOf

(* One byte at a time.                                                     *)
LEMMA OfTypesStep ==
  ASSUME NEW T
  PROVE  /\ Vless!OfTypes(<< >>, T) = << >>
         /\ \A s \in Seq(Tok), e \in Tok :
              Vless!OfTypes(Append(s, e), T) =
                IF e[1] \in T THEN Append(Vless!OfTypes(s, T), e) ELSE Vless!OfTypes(s, T)
<1>1. Vless!OfTypes(<< >>, T) = << >>
  <2>1. << >> \in Seq(Tok) /\ Len(<< >>) = 0
    BY EmptySeq
  <2>2. PICK f : KeptOf(f, << >>, T, 0) /\ Vless!OfTypes(<< >>, T) = f[0]
    BY <2>1, OfTypesIs
  <2>3. 0 \in 0 .. 0
    OBVIOUS
  <2> QED BY <2>2, <2>3 DEF KeptOf
<1>2. ASSUME NEW s \in Seq(Tok), NEW e \in Tok
      PROVE  Vless!OfTypes(Append(s, e), T) =
               IF e[1] \in T THEN Append(Vless!OfTypes(s, T), e) ELSE Vless!OfTypes(s, T)
  <2>0. PICK t : t = Append(s, e)
    OBVIOUS
  <2>1. PICK n \in Nat : n = Len(s)
    BY LenProperties
  <2>2. t \in Seq(Tok) /\ Len(t) = n + 1 /\ t[n + 1] = e /\ \A i \in 1 .. n : t[i] = s[i]
    BY <2>0, <2>1, AppendProperties
  <2>3. PICK m \in Nat : m = n + 1
    OBVIOUS
  <2>4. PICK f : KeptOf(f, s, T, n) /\ Vless!OfTypes(s, T) = f[n]
    BY <2>1, OfTypesIs
  <2>5. PICK g : KeptOf(g, t, T, m) /\ Vless!OfTypes(t, T) = g[m]
    <3>1. Len(t) = m
      BY <2>2, <2>3
    <3> QED BY <2>2, <3>1, OfTypesIs
  <2>6. f[n] = g[n]
    <3>1. n <= n /\ n <= m /\ \A i \in 1 .. n : s[i] = t[i]
      BY <2>2, <2>3
    <3> QED BY <2>4, <2>5, <3>1, KeptSame
  <2>7. g[m] = IF t[m][1] \in T THEN Append(g[m - 1], t[m]) ELSE g[m - 1]
    <3>1. m \in 0 .. m /\ m # 0
      BY <2>3
    <3> QED BY <2>5, <3>1 DEF KeptOf
  <2>8. m - 1 = n /\ t[m] = e
    BY <2>2, <2>3
  <2> QED BY <2>0, <2>4, <2>5, <2>6, <2>7, <2>8
<1> QED BY <1>1, <1>2

(* All of a sequence is kept, or nothing.                                  *)
LEMMA OfTypesAll ==
  ASSUME NEW T, NEW t \in Seq(Tok)
  PROVE  /\ (\A i \in 1 .. Len(t) : t[i][1] \in T) => Vless!OfTypes(t, T) = t
         /\ (\A i \in 1 .. Len(t) : t[i][1] \notin T) => Vless!OfTypes(t, T) = << >>
<1> DEFINE Of(u) == Vless!OfTypes(u, T)
           Good(u) == /\ (\A i \in 1 .. Len(u) : u[i][1] \in T) => Of(u) = u
                      /\ (\A i \in 1 .. Len(u) : u[i][1] \notin T) => Of(u) = << >>
           S == { n \in Nat : \A u \in Seq(Tok) : Len(u) = n => Good(u) }
<1> HIDE DEF Of
<1>1. 0 \in S
  <2>1. \A u \in Seq(Tok) : Len(u) = 0 => u = << >>
    BY EmptySeq
  <2>2. Of(<< >>) = << >>
    BY OfTypesStep DEF Of
  <2> QED BY <2>1, <2>2
<1>2. ASSUME NEW n \in Nat, n \in S PROVE n + 1 \in S
  <2> SUFFICES ASSUME NEW u \in Seq(Tok), Len(u) = n + 1 PROVE Good(u)
    OBVIOUS
  <2>1. u # << >>
    OBVIOUS
  <2>2. PICK v \in Seq(Tok), e \in Tok : u = Append(v, e)
    BY <2>1, SequenceEmptyOrAppend
  <2>3. Len(v) = n /\ u[n + 1] = e /\ \A i \in 1 .. n : u[i] = v[i]
    BY <2>2, AppendProperties, LenProperties
  <2>4. Of(u) = IF e[1] \in T THEN Append(Of(v), e) ELSE Of(v)
    BY <2>2, OfTypesStep DEF Of
  <2>5. Good(v)
    BY <1>2, <2>3
  <2>6. (\A i \in 1 .. Len(u) : u[i][1] \in T) => Of(u) = u
    BY <2>2, <2>3, <2>4, <2>5
  <2>7. (\A i \in 1 .. Len(u) : u[i][1] \notin T) => Of(u) = << >>
    BY <2>2, <2>3, <2>4, <2>5
  <2> QED BY <2>6, <2>7
<1>3. Good(t)
  <2> HIDE DEF S, Good
  <2>1. \A n \in Nat : n \in S
    BY <1>1, <1>2, Induction
  <2> QED BY <2>1, LenProperties DEF S
<1> QED BY <1>3 DEF Of

-----------------------------------------------------------------------------
(* Functions that scan a sequence from the front: f[i] is known where i is *)
(* in D, and found further on, at next[i], elsewhere.                      *)
Scans(f, n, D, next, base, front) ==
  f = [i \in 1 .. n |-> IF i \in D THEN base[i]
                        ELSE [f[next[i]] EXCEPT !.out = front[i] \o @]]

(* There is one such function.                                             *)
LEMMA ScanFacts ==
  ASSUME NEW n \in Nat, NEW D, NEW next, NEW base, NEW front,
         \A i \in 1 .. n : i \notin D => next[i] \in i + 1 .. n
  PROVE  /\ \E f : Scans(f, n, D, next, base, front)
         /\ \A f, g : Scans(f, n, D, next, base, front) /\ Scans(g, n, D, next, base, front)
                        => f = g
<1> DEFINE Turn(x, i) == IF i \in D THEN base[i] ELSE [x EXCEPT !.out = front[i] \o @]
           Is(f, i) == f[i] = Turn(f[next[i]], i)
<1>1. \A f : Scans(f, n, D, next, base, front) <=> f = [i \in 1 .. n |-> Turn(f[next[i]], i)]
  BY DEF Scans
<1>2. \A x, y : \A i \in 1 .. n : i \in D => Turn(x, i) = Turn(y, i)
  OBVIOUS
<1> HIDE DEF Turn
<1>3. \E f : Scans(f, n, D, next, base, front)
  <2> DEFINE R == { k \in Nat : k <= n =>
                      \E f : /\ f = [i \in 1 .. n |-> f[i]]
                             /\ \A i \in 1 .. n : i > n - k => Is(f, i) }
  <2>1. 0 \in R
    <3> DEFINE f == [i \in 1 .. n |-> 0]
    <3>1. f = [i \in 1 .. n |-> f[i]]
      OBVIOUS
    <3>2. \A i \in 1 .. n : ~(i > n - 0)
      OBVIOUS
    <3> HIDE DEF f, Is
    <3> QED BY <3>1, <3>2
  <2>2. ASSUME NEW k \in Nat, k \in R PROVE k + 1 \in R
    <3> SUFFICES ASSUME k + 1 <= n
                 PROVE  \E f : /\ f = [i \in 1 .. n |-> f[i]]
                               /\ \A i \in 1 .. n : i > n - (k + 1) => Is(f, i)
      OBVIOUS
    <3>1. PICK f : /\ f = [i \in 1 .. n |-> f[i]]
                   /\ \A i \in 1 .. n : i > n - k => Is(f, i)
      BY <2>2
    <3>2. PICK j \in 1 .. n : j = n - k
      OBVIOUS
    <3> DEFINE g == [i \in 1 .. n |-> IF i = j THEN Turn(f[next[j]], j) ELSE f[i]]
    <3>3. g = [i \in 1 .. n |-> g[i]]
      OBVIOUS
    <3>4. ASSUME NEW i \in 1 .. n, i > n - (k + 1) PROVE Is(g, i)
      <4>1. i \notin D => next[i] \in 1 .. n /\ next[i] # j
        BY <3>2, <3>4
      <4>2. i \notin D => g[next[i]] = f[next[i]]
        BY <4>1
      <4>3. Turn(g[next[i]], i) = Turn(f[next[i]], i)
        <5> HIDE DEF g
        <5> QED BY <1>2, <4>2
      <4>4. CASE i = j
        BY <4>3, <4>4
      <4>5. CASE i # j
        <5>1. g[i] = f[i]
          BY <4>5
        <5>2. i > n - k
          BY <3>2, <3>4, <4>5
        <5>3. Is(f, i)
          <6> HIDE DEF Is
          <6> QED BY <3>1, <5>2
        <5> HIDE DEF g
        <5> QED BY <4>3, <5>1, <5>3
      <4> QED BY <4>4, <4>5
    <3> HIDE DEF g, Is
    <3> QED BY <3>3, <3>4
  <2> HIDE DEF R
  <2>3. n \in R
    BY <2>1, <2>2, Induction
  <2>4. PICK f : /\ f = [i \in 1 .. n |-> f[i]]
                 /\ \A i \in 1 .. n : i > n - n => Is(f, i)
    BY <2>3 DEF R
  <2>5. \A i \in 1 .. n : f[i] = Turn(f[next[i]], i)
    <3>1. \A i \in 1 .. n : i > n - n
      OBVIOUS
    <3> QED BY <2>4, <3>1
  <2>6. f = [i \in 1 .. n |-> Turn(f[next[i]], i)]
    BY <2>4, <2>5
  <2> QED BY <1>1, <2>6
<1>4. ASSUME NEW f, NEW g, Scans(f, n, D, next, base, front),
             Scans(g, n, D, next, base, front)
      PROVE  f = g
  <2>1. /\ f = [i \in 1 .. n |-> Turn(f[next[i]], i)]
        /\ g = [i \in 1 .. n |-> Turn(g[next[i]], i)]
    BY <1>1, <1>4
  <2> DEFINE R == { k \in Nat : k <= n => \A i \in 1 .. n : i > n - k => f[i] = g[i] }
  <2>2. 0 \in R
    OBVIOUS
  <2>3. ASSUME NEW k \in Nat, k \in R PROVE k + 1 \in R
    <3> SUFFICES ASSUME k + 1 <= n, NEW i \in 1 .. n, i > n - (k + 1) PROVE f[i] = g[i]
      OBVIOUS
    <3>1. i \notin D => next[i] \in 1 .. n /\ next[i] > n - k
      OBVIOUS
    <3>2. i \notin D => f[next[i]] = g[next[i]]
      BY <2>3, <3>1
    <3>3. Turn(f[next[i]], i) = Turn(g[next[i]], i)
      BY <1>2, <3>2
    <3>4. f[i] = Turn(f[next[i]], i)
      BY <2>1
    <3>5. g[i] = Turn(g[next[i]], i)
      BY <2>1
    <3> QED BY <3>3, <3>4, <3>5
  <2> HIDE DEF R
  <2>4. n \in R
    BY <2>2, <2>3, Induction
  <2>5. \A i \in 1 .. n : i > n - n => f[i] = g[i]
    BY <2>4 DEF R
  <2>6. \A i \in 1 .. n : f[i] = g[i]
    BY <2>5
  <2> QED BY <2>1, <2>6
<1> QED BY <1>3, <1>4

(* The rest of a rest.                                                     *)
LEMMA FromFrom ==
  ASSUME NEW s \in Seq(Tok), NEW p \in Nat, NEW i, i = p + 1, p <= Len(s),
         NEW r \in Nat, p <= r, r <= Len(s), NEW m, m = r - p + 1, NEW k, k = r + 1
  PROVE  /\ Vless!From(s, i) \in Seq(Tok) /\ Len(Vless!From(s, i)) = Len(s) - p
         /\ Vless!From(Vless!From(s, i), m) = Vless!From(s, k)
<1>1. PICK l \in Nat : l = Len(s)
  BY LenProperties
<1>2. p <= l /\ l <= Len(s) /\ r \in p .. l
  BY <1>1
<1>3. Win(s, p, l) \in Seq(Tok) /\ Len(Win(s, p, l)) = l - p
  BY <1>2, WinFacts
<1>4. PICK n : n = r - p
  OBVIOUS
<1>5. m = n + 1
  BY <1>4
<1>6. Vless!From(Win(s, p, l), m) = Win(s, r, l)
  BY <1>2, <1>4, <1>5, WinRead
<1>7. Vless!From(s, i) = Win(s, p, l) /\ Vless!From(s, k) = Win(s, r, l)
  BY <1>1 DEF Win, Vless!From
<1> QED BY <1>1, <1>3, <1>6, <1>7

(* The rest of a sequence, and the rest of that.                           *)
LEMMA FromFacts ==
  ASSUME NEW s \in Seq(Tok), NEW i \in 1 .. Len(s) + 1
  PROVE  /\ Vless!From(s, i) \in Seq(Tok) /\ Len(Vless!From(s, i)) = Len(s) + 1 - i
         /\ Vless!From(s, 1) = s
         /\ \A j \in 1 .. Len(s) + 2 - i : Vless!From(Vless!From(s, i), j) = Vless!From(s, i + j - 1)
<1>1. Len(s) \in Nat
  BY LenProperties
<1>2. PICK p \in Nat : i = p + 1 /\ p <= Len(s) /\ Len(s) - p = Len(s) + 1 - i
  <2>1. i - 1 \in Nat /\ i = i - 1 + 1
    BY <1>1
  <2> QED BY <1>1, <2>1
<1>3. Vless!From(s, i) \in Seq(Tok) /\ Len(Vless!From(s, i)) = Len(s) + 1 - i
  <2>1. PICK m, k : m = p - p + 1 /\ k = p + 1
    OBVIOUS
  <2>2. p <= p
    OBVIOUS
  <2>3. Vless!From(s, i) \in Seq(Tok) /\ Len(Vless!From(s, i)) = Len(s) - p
    BY <1>2, <2>1, <2>2, FromFrom
  <2> QED BY <1>2, <2>3
<1>4. Vless!From(s, 1) = s
  BY SubSeqFull DEF Vless!From
<1>5. ASSUME NEW j \in 1 .. Len(s) + 2 - i
      PROVE  Vless!From(Vless!From(s, i), j) = Vless!From(s, i + j - 1)
  <2>1. PICK r \in Nat : r = p + j - 1
    BY <1>2
  <2>2. PICK k : k = r + 1
    OBVIOUS
  <2>3. p <= r /\ r <= Len(s) /\ j = r - p + 1 /\ k = i + j - 1
    BY <1>1, <1>2, <2>1, <2>2
  <2>4. Vless!From(Vless!From(s, i), j) = Vless!From(s, k)
    BY <1>2, <2>2, <2>3, FromFrom
  <2> QED BY <2>3, <2>4
<1> QED BY <1>3, <1>4, <1>5

(* A block of Vision: whether r begins with one that is not the last, what *)
(* is in it, and what there is when it does not.                           *)
Stops(r) ==
  \/ Len(r) < 3 \/ r[1][1] # "command" \/ r[1][2] > 2
  \/ Len(r) < Vless!BlockLength(r) \/ r[1][2] # 0
Content(r) == SubSeq(r, 4, 3 + r[2][2])
Behind(r) == Vless!From(r, 1 + Vless!BlockLength(r))
Stopped(r) ==
  IF Len(r) < 3 THEN Vless!Push("padding", r, << >>)
  ELSE IF r[1][1] # "command" \/ r[1][2] > 2 THEN Vless!Push("raw", << >>, r)
  ELSE IF Len(r) < Vless!BlockLength(r) THEN Vless!Push("padding", r, << >>)
  ELSE Vless!Push("raw", << >>, Content(r) \o Behind(r))

(* The parts of a block.                                                   *)
LEMMA BlockFacts ==
  ASSUME NEW r \in Seq(Tok), Len(r) >= 3
  PROVE  /\ r[1] \in Tok /\ r[2] \in Tok /\ r[3] \in Tok
         /\ r[2][2] \in Nat /\ r[3][2] \in Nat
         /\ Vless!BlockLength(r) \in Nat /\ Vless!BlockLength(r) = 3 + r[2][2] + r[3][2]
         /\ Vless!BlockLength(r) <= Len(r) =>
              /\ Behind(r) \in Seq(Tok) /\ Len(Behind(r)) = Len(r) - Vless!BlockLength(r)
              /\ Content(r) \in Seq(Tok) /\ Len(Content(r)) = r[2][2]
              /\ \A i \in 1 .. r[2][2] : Content(r)[i] = r[3 + i]
<1>1. Len(r) \in Nat /\ 1 \in 1 .. Len(r) /\ 2 \in 1 .. Len(r) /\ 3 \in 1 .. Len(r)
  BY LenProperties
<1>2. r[1] \in Tok /\ r[2] \in Tok /\ r[3] \in Tok
  BY <1>1, ElementOfSeq
<1>3. r[2][2] \in Nat /\ r[3][2] \in Nat
  BY <1>2 DEF Tok
<1>4. Vless!BlockLength(r) \in Nat /\ Vless!BlockLength(r) = 3 + r[2][2] + r[3][2]
  BY <1>3 DEF Vless!BlockLength
<1>5. ASSUME Vless!BlockLength(r) <= Len(r)
      PROVE  /\ Behind(r) \in Seq(Tok) /\ Len(Behind(r)) = Len(r) - Vless!BlockLength(r)
             /\ Content(r) \in Seq(Tok) /\ Len(Content(r)) = r[2][2]
             /\ \A i \in 1 .. r[2][2] : Content(r)[i] = r[3 + i]
  <2>1. PICK b \in Nat, j \in 1 .. Len(r) + 1 : b = Vless!BlockLength(r) /\ j = 1 + b
    BY <1>1, <1>4, <1>5
  <2>2. /\ Vless!From(r, j) \in Seq(Tok) /\ Len(Vless!From(r, j)) = Len(r) + 1 - j
    BY FromFacts
  <2>3. Behind(r) \in Seq(Tok) /\ Len(Behind(r)) = Len(r) - Vless!BlockLength(r)
    BY SMTT(40), <1>1, <2>1, <2>2 DEF Behind
  <2>4. PICK c \in Nat, e \in Nat : c = r[2][2] /\ e = 3 + c
    BY <1>3
  <2>5. 3 <= e /\ e <= Len(r) /\ e - 3 = c
    <3>1. PICK m \in Nat, d \in Nat : m = Len(r) /\ d = r[3][2]
      BY <1>1, <1>3
    <3>2. 3 + c + d <= m
      BY <1>4, <1>5, <2>4, <3>1
    <3>3. e <= m
      BY SMTT(40), <2>4, <3>2
    <3> QED BY <2>4, <3>1, <3>3
  <2>6. /\ Win(r, 3, e) \in Seq(Tok) /\ Len(Win(r, 3, e)) = e - 3
        /\ \A i \in 1 .. e - 3 : Win(r, 3, e)[i] = r[3 + i]
    BY <2>5, WinFacts
  <2>7. Win(r, 3, e) = Content(r)
    BY <2>4 DEF Win, Content
  <2> QED BY <2>3, <2>4, <2>5, <2>6, <2>7
<1> QED BY <1>2, <1>3, <1>4, <1>5

(* One block at a time.                                                    *)
UnpadScan(f, s) ==
  f = [i \in 1 .. Len(s) + 1 |->
         LET r == Vless!From(s, i) IN
         IF Stops(r) THEN Stopped(r)
         ELSE [f[i + Vless!BlockLength(r)] EXCEPT !.out = Content(r) \o @]]

(* There is one such function.                                             *)
LEMMA UnpadScanFacts ==
  ASSUME NEW s \in Seq(Tok)
  PROVE  /\ \E f : UnpadScan(f, s)
         /\ \A f, g : UnpadScan(f, s) /\ UnpadScan(g, s) => f = g
         /\ \A i \in 1 .. Len(s) + 1 : ~Stops(Vless!From(s, i)) =>
              i + Vless!BlockLength(Vless!From(s, i)) \in i + 1 .. Len(s) + 1
<1> DEFINE n == Len(s) + 1
           D == { i \in 1 .. n : Stops(Vless!From(s, i)) }
           next == [i \in 1 .. n |-> i + Vless!BlockLength(Vless!From(s, i))]
           base == [i \in 1 .. n |-> Stopped(Vless!From(s, i))]
           front == [i \in 1 .. n |-> Content(Vless!From(s, i))]
<1>1. n \in Nat
  BY LenProperties
<1>2. \A f : UnpadScan(f, s) <=> Scans(f, n, D, next, base, front)
  <2> SUFFICES ASSUME NEW f
               PROVE  UnpadScan(f, s) <=> Scans(f, n, D, next, base, front)
    OBVIOUS
  <2> DEFINE r(i) == Vless!From(s, i)
             a == [i \in 1 .. n |->
                     IF Stops(r(i)) THEN Stopped(r(i))
                     ELSE [f[i + Vless!BlockLength(r(i))] EXCEPT !.out = Content(r(i)) \o @]]
             b == [i \in 1 .. n |-> IF i \in D THEN base[i]
                                    ELSE [f[next[i]] EXCEPT !.out = front[i] \o @]]
  <2>1. UnpadScan(f, s) <=> f = a
    BY DEF UnpadScan
  <2>2. Scans(f, n, D, next, base, front) <=> f = b
    BY DEF Scans
  <2>3. a = b
    <3> HIDE DEF n
    <3>1. \A i \in 1 .. n : (i \in D <=> Stops(r(i))) /\ base[i] = Stopped(r(i))
            /\ next[i] = i + Vless!BlockLength(r(i)) /\ front[i] = Content(r(i))
      OBVIOUS
    <3> HIDE DEF D, base, next, front, r
    <3> QED BY <3>1
  <2> QED BY <2>1, <2>2, <2>3
<1>3. ASSUME NEW i \in 1 .. n, ~Stops(Vless!From(s, i))
      PROVE  i + Vless!BlockLength(Vless!From(s, i)) \in i + 1 .. n
  <2>1. PICK r \in Seq(Tok) : r = Vless!From(s, i) /\ Len(r) = n - i
    BY <1>1, FromFacts
  <2>2. Len(r) \in Nat /\ ~(Len(r) < 3) /\ ~(Len(r) < Vless!BlockLength(r))
    BY <1>3, <2>1, LenProperties DEF Stops
  <2>3. Vless!BlockLength(r) \in Nat /\ Vless!BlockLength(r) >= 3
    BY <2>2, BlockFacts
  <2>4. i + Vless!BlockLength(r) \in i + 1 .. n
    BY <1>1, <2>1, <2>2, <2>3
  <2> QED BY <2>1, <2>4
<1>4. \A i \in 1 .. n : i \notin D => next[i] \in i + 1 .. n
  BY <1>3
<1> HIDE DEF n, D, next, base, front
<1>5. /\ \E f : Scans(f, n, D, next, base, front)
      /\ \A f, g : Scans(f, n, D, next, base, front) /\ Scans(g, n, D, next, base, front)
                     => f = g
  BY <1>1, <1>4, ScanFacts
<1>6. \A i \in 1 .. n : ~Stops(Vless!From(s, i)) =>
        i + Vless!BlockLength(Vless!From(s, i)) \in i + 1 .. n
  BY <1>3
<1> QED BY <1>2, <1>5, <1>6 DEF n

(* A scan of the rest is the rest of the scan.                             *)
LEMMA UnpadScanShift ==
  ASSUME NEW s \in Seq(Tok), NEW j \in 1 .. Len(s) + 1, NEW f, NEW g, UnpadScan(f, s),
         UnpadScan(g, Vless!From(s, j))
  PROVE  f[j] = g[1]
<1>1. PICK t \in Seq(Tok), n \in Nat, m \in Nat :
        /\ t = Vless!From(s, j) /\ n = Len(s) + 1 /\ m = Len(t) + 1 /\ m = n - j + 1
  BY FromFacts, LenProperties
<1> DEFINE h == [i \in 1 .. m |-> f[j + i - 1]]
<1>2. UnpadScan(h, t)
  <2>1. ASSUME NEW i \in 1 .. m
        PROVE  h[i] = LET r == Vless!From(t, i) IN
                      IF Stops(r) THEN Stopped(r)
                      ELSE [h[i + Vless!BlockLength(r)] EXCEPT !.out = Content(r) \o @]
    <3>1. PICK k \in 1 .. n : k = j + i - 1
      BY <1>1
    <3>2. PICK r : r = Vless!From(t, i) /\ r = Vless!From(s, k)
      <4>1. i \in 1 .. Len(s) + 2 - j
        BY <1>1
      <4>2. Vless!From(Vless!From(s, j), i) = Vless!From(s, j + i - 1)
        BY <4>1, FromFacts
      <4> QED BY <1>1, <3>1, <4>2
    <3>3. f[k] = IF Stops(r) THEN Stopped(r)
                 ELSE [f[k + Vless!BlockLength(r)] EXCEPT !.out = Content(r) \o @]
      BY ZenonT(60), <1>1, <3>2 DEF UnpadScan
    <3>4. h[i] = f[k]
      BY <3>1
    <3>5. ~Stops(r) => h[i + Vless!BlockLength(r)] = f[k + Vless!BlockLength(r)]
      <4> SUFFICES ASSUME ~Stops(r)
                   PROVE  h[i + Vless!BlockLength(r)] = f[k + Vless!BlockLength(r)]
        OBVIOUS
      <4>1. i + Vless!BlockLength(r) \in i + 1 .. m
        BY <1>1, <3>2, UnpadScanFacts
      <4>2. PICK b \in Int : b = Vless!BlockLength(r)
        <5>1. k + Vless!BlockLength(r) \in k + 1 .. n
          BY <1>1, <3>2, UnpadScanFacts
        <5>2. r \in Seq(Tok)
          BY <1>1, <3>2, FromFacts
        <5>3. ~(Len(r) < 3)
          BY DEF Stops
        <5>4. Len(r) \in Nat
          BY <5>2, LenProperties
        <5>5. Len(r) >= 3
          BY <5>3, <5>4
        <5> QED BY <5>2, <5>5, BlockFacts
      <4>3. i + b \in 1 .. m /\ j + (i + b) - 1 = k + b
        BY <3>1, <4>1, <4>2
      <4>4. h[i + b] = f[k + b]
        BY <4>3
      <4> QED BY <4>2, <4>4
    <3> HIDE DEF h
    <3> QED BY <3>2, <3>3, <3>4, <3>5
  <2>2. h = [i \in 1 .. m |-> h[i]]
    OBVIOUS
  <2> HIDE DEF h
  <2>3. h = [i \in 1 .. m |-> LET r == Vless!From(t, i) IN
                      IF Stops(r) THEN Stopped(r)
                      ELSE [h[i + Vless!BlockLength(r)] EXCEPT !.out = Content(r) \o @]]
    BY <2>1, <2>2
  <2> QED BY <1>1, <2>3 DEF UnpadScan
<1> HIDE DEF h
<1>3. h = g
  BY <1>1, <1>2, UnpadScanFacts
<1>4. h[1] = f[j]
  <2>1. 1 \in 1 .. m /\ j + 1 - 1 = j
    BY <1>1, LenProperties
  <2> QED BY <2>1 DEF h
<1> QED BY <1>3, <1>4

(* What the loop of UnpadBlocks computes is the one such function, at 1.   *)
LEMMA UnpadIsScan ==
  ASSUME NEW s \in Seq(Tok)
  PROVE  \E f : UnpadScan(f, s) /\ Vless!UnpadBlocks(s) = f[1]
<1> DEFINE Orig(f) ==
             f = [i \in 1 .. Len(s) + 1 |->
        LET rest == Vless!From(s, i) IN
        IF Len(rest) < 3 THEN Vless!Push("padding", rest, << >>)
        ELSE IF rest[1][1] # "command" \/ rest[1][2] > 2
        THEN Vless!Push("raw", << >>, rest)
        ELSE IF Len(rest) < Vless!BlockLength(rest) THEN Vless!Push("padding", rest, << >>)
        ELSE LET content == SubSeq(rest, 4, 3 + rest[2][2])
                 next == i + Vless!BlockLength(rest)
             IN IF rest[1][2] # 0 THEN Vless!Push("raw", << >>, content \o Vless!From(s, next))
                ELSE [f[next] EXCEPT !.out = content \o @]]
           scanned == CHOOSE f : Orig(f)
<1>1. Vless!UnpadBlocks(s) = scanned[1]
  BY DEF Vless!UnpadBlocks
<1>2. ASSUME NEW f PROVE Orig(f) <=> UnpadScan(f, s)
  <2> DEFINE orig(i) ==
        LET rest == Vless!From(s, i) IN
        IF Len(rest) < 3 THEN Vless!Push("padding", rest, << >>)
        ELSE IF rest[1][1] # "command" \/ rest[1][2] > 2
        THEN Vless!Push("raw", << >>, rest)
        ELSE IF Len(rest) < Vless!BlockLength(rest) THEN Vless!Push("padding", rest, << >>)
        ELSE LET content == SubSeq(rest, 4, 3 + rest[2][2])
                 next == i + Vless!BlockLength(rest)
             IN IF rest[1][2] # 0 THEN Vless!Push("raw", << >>, content \o Vless!From(s, next))
                ELSE [f[next] EXCEPT !.out = content \o @]
             mine(i) ==
        LET r == Vless!From(s, i) IN
         IF Stops(r) THEN Stopped(r)
         ELSE [f[i + Vless!BlockLength(r)] EXCEPT !.out = Content(r) \o @]
  <2>1. ASSUME NEW i \in 1 .. Len(s) + 1 PROVE orig(i) = mine(i)
    <3>1. PICK r \in Seq(Tok) : r = Vless!From(s, i) /\ Len(r) = Len(s) + 1 - i
      BY FromFacts
    <3>2. Len(r) \in Nat /\ Len(s) \in Nat
      BY LenProperties
    <3>3. orig(i) = IF Len(r) < 3 THEN Vless!Push("padding", r, << >>)
        ELSE IF r[1][1] # "command" \/ r[1][2] > 2
        THEN Vless!Push("raw", << >>, r)
        ELSE IF Len(r) < Vless!BlockLength(r) THEN Vless!Push("padding", r, << >>)
        ELSE IF r[1][2] # 0
        THEN Vless!Push("raw", << >>, Content(r) \o Vless!From(s, i + Vless!BlockLength(r)))
        ELSE [f[i + Vless!BlockLength(r)] EXCEPT !.out = Content(r) \o @]
      BY <3>1 DEF Content
    <3>4. mine(i) = IF Stops(r) THEN Stopped(r)
                    ELSE [f[i + Vless!BlockLength(r)] EXCEPT !.out = Content(r) \o @]
      BY <3>1
    <3> HIDE DEF orig, mine
    <3>5. CASE Len(r) < 3 \/ r[1][1] # "command" \/ r[1][2] > 2
                \/ Len(r) < Vless!BlockLength(r)
      BY <3>3, <3>4, <3>5 DEF Stops, Stopped
    <3>6. CASE ~(Len(r) < 3 \/ r[1][1] # "command" \/ r[1][2] > 2
                  \/ Len(r) < Vless!BlockLength(r))
      <4>1. PICK b \in Nat : b = Vless!BlockLength(r) /\ b <= Len(r)
        <5>1. Len(r) >= 3
          BY <3>2, <3>6
        <5>2. Vless!BlockLength(r) \in Nat
          BY <5>1, BlockFacts
        <5> QED BY <3>2, <3>6, <5>2
      <4>2. Vless!From(s, i + b) = Behind(r)
        <5>1. PICK j \in 1 .. Len(s) + 2 - i : j = 1 + b
          BY <3>1, <3>2, <4>1
        <5>2. Vless!From(Vless!From(s, i), j) = Vless!From(s, i + j - 1)
          BY FromFacts
        <5>3. i + j - 1 = i + b
          BY <5>1
        <5> QED BY <3>1, <4>1, <5>1, <5>2, <5>3 DEF Behind
      <4>3. CASE r[1][2] # 0
        <5>1. orig(i) = Vless!Push("raw", << >>, Content(r) \o Behind(r))
          BY <3>3, <3>6, <4>1, <4>2, <4>3
        <5>2. Stopped(r) = Vless!Push("raw", << >>, Content(r) \o Behind(r)) /\ Stops(r)
          BY <3>6, <4>3 DEF Stopped, Stops
        <5> QED BY <3>4, <5>1, <5>2
      <4>4. CASE r[1][2] = 0
        BY <3>3, <3>4, <3>6, <4>4 DEF Stops
      <4> QED BY <4>3, <4>4
    <3> QED BY <3>5, <3>6
  <2> HIDE DEF orig, mine
  <2>2. [i \in 1 .. Len(s) + 1 |-> orig(i)] = [i \in 1 .. Len(s) + 1 |-> mine(i)]
    BY <2>1
  <2>3. Orig(f) <=> f = [i \in 1 .. Len(s) + 1 |-> orig(i)]
    BY DEF orig
  <2>4. UnpadScan(f, s) <=> f = [i \in 1 .. Len(s) + 1 |-> mine(i)]
    BY DEF mine, UnpadScan
  <2> QED BY <2>2, <2>3, <2>4
<1>3. Orig(scanned)
  <2>1. PICK f : UnpadScan(f, s)
    BY UnpadScanFacts
  <2>2. Orig(f)
    BY <1>2, <2>1
  <2> HIDE DEF Orig
  <2> QED BY <2>2
<1> HIDE DEF Orig, scanned
<1> QED BY <1>1, <1>2, <1>3

(* UnpadBlocks, as a recursion on what is left.                            *)
LEMMA UnpadStep ==
  ASSUME NEW s \in Seq(Tok)
  PROVE  Vless!UnpadBlocks(s) =
           IF Stops(s) THEN Stopped(s)
           ELSE [Vless!UnpadBlocks(Behind(s)) EXCEPT !.out = Content(s) \o @]
<1>1. PICK f : UnpadScan(f, s) /\ Vless!UnpadBlocks(s) = f[1]
  BY UnpadIsScan
<1>2. 1 \in 1 .. Len(s) + 1 /\ Len(s) \in Nat
  BY LenProperties
<1>3. Vless!From(s, 1) = s
  BY <1>2, FromFacts
<1>4. f[1] = IF Stops(s) THEN Stopped(s)
             ELSE [f[1 + Vless!BlockLength(s)] EXCEPT !.out = Content(s) \o @]
  BY <1>1, <1>2, <1>3 DEF UnpadScan
<1>5. ASSUME ~Stops(s) PROVE f[1 + Vless!BlockLength(s)] = Vless!UnpadBlocks(Behind(s))
  <2>1. PICK j \in 1 .. Len(s) + 1 : j = 1 + Vless!BlockLength(s)
    BY <1>2, <1>3, <1>5, UnpadScanFacts
  <2>2. Vless!From(s, j) \in Seq(Tok) /\ Behind(s) = Vless!From(s, j)
    BY <2>1, FromFacts DEF Behind
  <2>3. PICK g : UnpadScan(g, Vless!From(s, j)) /\ Vless!UnpadBlocks(Vless!From(s, j)) = g[1]
    BY <2>2, UnpadIsScan
  <2>4. f[j] = g[1]
    BY <1>1, <2>3, UnpadScanShift
  <2> QED BY <2>1, <2>2, <2>3, <2>4
<1> QED BY <1>1, <1>4, <1>5

(* The blocks at the front do not change with what comes behind them.      *)
LEMMA FrontOfConcat ==
  ASSUME NEW s \in Seq(Tok), NEW t \in Seq(Tok), NEW p \in Nat, NEW q \in Nat,
         p <= q, q <= Len(s)
  PROVE  Win(s \o t, p, q) = Win(s, p, q)
<1>1. Len(s) \in Nat /\ Len(t) \in Nat
  BY LenProperties
<1>2. PICK u : u = s \o t
  OBVIOUS
<1>3. /\ u \in Seq(Tok) /\ Len(u) = Len(s) + Len(t)
      /\ \A i \in 1 .. Len(s) + Len(t) : u[i] = IF i <= Len(s) THEN s[i] ELSE t[i - Len(s)]
  BY <1>2, ConcatProperties
<1> DEFINE v == Win(u, p, q)
           w == Win(s, p, q)
<1>5. w \in Seq(Tok) /\ Len(w) = q - p /\ \A i \in 1 .. q - p : w[i] = s[p + i]
  BY WinFacts
<1>6. u \in Seq(Tok) /\ q <= Len(u)
  BY <1>1, <1>3
<1>7. v \in Seq(Tok) /\ Len(v) = q - p /\ \A i \in 1 .. q - p : v[i] = u[p + i]
  BY <1>6, WinFacts
<1> HIDE DEF v, w
<1>8. ASSUME NEW i \in 1 .. q - p PROVE v[i] = w[i]
  <2>1. v[i] = u[p + i] /\ w[i] = s[p + i]
    BY <1>5, <1>7
  <2>2. p + i \in 1 .. Len(s) + Len(t) /\ p + i <= Len(s)
    BY <1>1
  <2>3. u[p + i] = s[p + i]
    BY <1>3, <2>2
  <2> QED BY <2>1, <2>3
<1>9. v = w
  BY <1>5, <1>7, <1>8, SeqEqual
<1> QED BY <1>2, <1>9 DEF v, w

(* What is left of a longer sequence.                                      *)
LEMMA RestOfConcat ==
  ASSUME NEW s \in Seq(Tok), NEW t \in Seq(Tok), NEW p \in Nat, p <= Len(s), NEW j, j = p + 1
  PROVE  Vless!From(s \o t, j) = Vless!From(s, j) \o t
<1>1. PICK m \in Nat, n \in Nat : m = Len(s) /\ n = Len(t)
  BY LenProperties
<1>2. PICK k \in Nat : k = m + n
  OBVIOUS
<1> DEFINE u == s \o t
<1>3. /\ u \in Seq(Tok) /\ Len(u) = k
      /\ \A i \in 1 .. k : u[i] = IF i <= m THEN s[i] ELSE t[i - m]
  BY <1>1, <1>2, ConcatProperties
<1> HIDE DEF u
<1>4. PICK a, b : a = k - p /\ b = m - p
  OBVIOUS
<1> DEFINE v == Win(u, p, k)
           w == Win(s, p, m)
<1>5. p <= k /\ k <= Len(u) /\ p <= m /\ m <= Len(s)
  BY <1>1, <1>2, <1>3
<1>6. v \in Seq(Tok) /\ Len(v) = a /\ \A i \in 1 .. a : v[i] = u[p + i]
  <2>1. u \in Seq(Tok)
    BY <1>3
  <2>2. v \in Seq(Tok) /\ Len(v) = k - p /\ \A i \in 1 .. k - p : v[i] = u[p + i]
    BY <1>5, <2>1, WinFacts
  <2> QED BY <1>4, <2>2
<1>7. w \in Seq(Tok) /\ Len(w) = b /\ \A i \in 1 .. b : w[i] = s[p + i]
  <2>1. w \in Seq(Tok) /\ Len(w) = m - p /\ \A i \in 1 .. m - p : w[i] = s[p + i]
    BY <1>5, WinFacts
  <2> QED BY <1>4, <2>1
<1> HIDE DEF v, w
<1>8. /\ w \o t \in Seq(Tok) /\ Len(w \o t) = b + n
      /\ \A i \in 1 .. b + n : (w \o t)[i] = IF i <= b THEN w[i] ELSE t[i - b]
  BY <1>1, <1>7, ConcatProperties
<1>9. a = b + n /\ a \in Nat /\ b \in Nat
  BY <1>1, <1>2, <1>4, <1>5
<1>10. ASSUME NEW i \in 1 .. a PROVE v[i] = (w \o t)[i]
  <2>1. v[i] = u[p + i] /\ (w \o t)[i] = IF i <= b THEN w[i] ELSE t[i - b]
    BY <1>6, <1>8, <1>9
  <2>2. u[p + i] = IF p + i <= m THEN s[p + i] ELSE t[p + i - m]
    <3>1. p + i \in 1 .. k
      BY <1>2, <1>4, <1>5
    <3> QED BY <1>3, <3>1
  <2>3. CASE i <= b
    <3>1. p + i <= m /\ w[i] = s[p + i]
      BY <1>4, <1>7, <2>3
    <3> QED BY <2>1, <2>2, <2>3, <3>1
  <2>4. CASE ~(i <= b)
    <3>1. ~(p + i <= m) /\ p + i - m = i - b
      BY <1>4, <2>4
    <3> QED BY <2>1, <2>2, <2>4, <3>1
  <2> QED BY <2>3, <2>4
<1>11. v = w \o t
  BY <1>6, <1>8, <1>9, <1>10, SeqEqual
<1>12. Vless!From(u, j) = v /\ Vless!From(s, j) = w
  BY <1>1, <1>3 DEF Win, Vless!From, v, w
<1> QED BY <1>11, <1>12 DEF u

(* A block that is there as a whole is not changed by what comes after it. *)
LEMMA BlockOfConcat ==
  ASSUME NEW s \in Seq(Tok), NEW t \in Seq(Tok), Len(s) >= 3
  PROVE  /\ s \o t \in Seq(Tok) /\ Len(s \o t) >= 3
         /\ (s \o t)[1] = s[1]
         /\ Vless!BlockLength(s \o t) = Vless!BlockLength(s)
         /\ Vless!BlockLength(s) <= Len(s) =>
              /\ Vless!BlockLength(s) <= Len(s \o t)
              /\ Content(s \o t) = Content(s)
              /\ Behind(s \o t) = Behind(s) \o t
<1>1. PICK u : u = s \o t
  OBVIOUS
<1>2. /\ u \in Seq(Tok) /\ Len(u) = Len(s) + Len(t)
      /\ \A i \in 1 .. Len(s) + Len(t) : u[i] = IF i <= Len(s) THEN s[i] ELSE t[i - Len(s)]
  BY <1>1, ConcatProperties
<1>3. Len(s) \in Nat /\ Len(t) \in Nat
  BY LenProperties
<1>4. u[1] = s[1] /\ u[2] = s[2] /\ u[3] = s[3] /\ Len(u) >= 3
  BY <1>2, <1>3
<1>5. Vless!BlockLength(u) = Vless!BlockLength(s)
  BY <1>4 DEF Vless!BlockLength
<1>6. ASSUME Vless!BlockLength(s) <= Len(s)
      PROVE  /\ Vless!BlockLength(s) <= Len(u)
             /\ Content(u) = Content(s)
             /\ Behind(u) = Behind(s) \o t
  <2>1. PICK b \in Nat, c \in Nat, d \in Nat :
          b = Vless!BlockLength(s) /\ c = s[2][2] /\ d = s[3][2] /\ b = 3 + c + d
    BY SMTT(30), BlockFacts
  <2>2. b <= Len(s) /\ b <= Len(u)
    BY <1>2, <1>3, <1>6, <2>1
  <2>3. PICK e \in Nat, j \in Nat : e = 3 + c /\ j = b + 1
    OBVIOUS
  <2>4. 3 <= e /\ e <= Len(s) /\ 3 \in Nat
    <3>1. e <= b
      BY SMTT(30), <2>1, <2>3
    <3>2. PICK m \in Nat : m = Len(s)
      BY <1>3
    <3>3. b <= m
      BY <2>2, <3>2
    <3> QED BY <2>3, <3>1, <3>2, <3>3
  <2>5. Win(s \o t, 3, e) = Win(s, 3, e)
    BY <2>4, FrontOfConcat
  <2>6. Content(u) = Win(u, 3, e) /\ Content(s) = Win(s, 3, e)
    BY <1>4, <2>1, <2>3 DEF Content, Win
  <2>7. Vless!From(s \o t, j) = Vless!From(s, j) \o t
    BY <2>2, <2>3, RestOfConcat
  <2>8. Behind(u) = Vless!From(u, j) /\ Behind(s) = Vless!From(s, j)
    <3>1. j = 1 + b
      BY <2>3
    <3> QED BY <1>5, <2>1, <3>1 DEF Behind
  <2> QED BY <1>1, <2>1, <2>2, <2>5, <2>6, <2>7, <2>8
<1> QED BY <1>1, <1>2, <1>4, <1>5, <1>6

(* What unpadding returns: nothing is kept once the padding has ended.     *)
UnpadResult ==
  { x \in [state : [mode : {"padding", "raw"}, pending : Seq(Tok)], out : Seq(Tok)] :
      x.state.mode = "raw" => x.state.pending = << >> }

(* The parts of a result.                                                  *)
LEMMA PushIs ==
  ASSUME NEW mode, NEW pending, NEW out
  PROVE  /\ Vless!Push(mode, pending, out).state = [mode |-> mode, pending |-> pending]
         /\ Vless!Push(mode, pending, out).state.mode = mode
         /\ Vless!Push(mode, pending, out).state.pending = pending
         /\ Vless!Push(mode, pending, out).out = out
         /\ /\ mode \in {"padding", "raw"} /\ pending \in Seq(Tok) /\ out \in Seq(Tok)
            /\ mode = "raw" => pending = << >>
            => Vless!Push(mode, pending, out) \in UnpadResult
  BY DEF Vless!Push, UnpadResult

(* Where the loop ends.                                                    *)
LEMMA StoppedType ==
  ASSUME NEW r \in Seq(Tok), Stops(r)
  PROVE  Stopped(r) \in UnpadResult
<1>1. << >> \in Seq(Tok) /\ Len(r) \in Nat
  BY EmptySeq, LenProperties
<1>2. CASE Len(r) < 3 \/ r[1][1] # "command" \/ r[1][2] > 2 \/ Len(r) < Vless!BlockLength(r)
  BY <1>1, <1>2, PushIs DEF Stopped
<1>3. CASE ~(Len(r) < 3 \/ r[1][1] # "command" \/ r[1][2] > 2
               \/ Len(r) < Vless!BlockLength(r))
  <2>1. Len(r) >= 3
    BY <1>1, <1>3
  <2>2. Content(r) \in Seq(Tok) /\ Behind(r) \in Seq(Tok)
    BY <1>1, <1>3, <2>1, BlockFacts
  <2>3. Content(r) \o Behind(r) \in Seq(Tok)
    BY <2>2, ConcatProperties
  <2>4. PICK x \in Seq(Tok) : x = Content(r) \o Behind(r)
    BY <2>3
  <2>5. Stopped(r) = Vless!Push("raw", << >>, x)
    BY <1>3, <2>4 DEF Stopped
  <2>6. << >> \in Seq(Tok)
    BY <1>1
  <2> QED BY <2>5, <2>6 DEF Vless!Push, UnpadResult
<1> QED BY <1>2, <1>3

(* A block that is not the last leaves fewer bytes to look at.             *)
LEMMA GoesOn ==
  ASSUME NEW r \in Seq(Tok), ~Stops(r)
  PROVE  /\ Len(r) >= 3 /\ Vless!BlockLength(r) <= Len(r)
         /\ Content(r) \in Seq(Tok) /\ Behind(r) \in Seq(Tok) /\ Len(Behind(r)) < Len(r)
<1>1. Len(r) \in Nat
  BY LenProperties
<1>2. Len(r) >= 3
  BY <1>1 DEF Stops
<1>3. PICK b \in Nat : b = Vless!BlockLength(r) /\ b >= 3 /\ b <= Len(r)
  <2>1. Vless!BlockLength(r) \in Nat /\ Vless!BlockLength(r) >= 3
    BY <1>2, BlockFacts
  <2> QED BY <1>1, <2>1 DEF Stops
<1>4. /\ Content(r) \in Seq(Tok) /\ Behind(r) \in Seq(Tok)
      /\ Len(Behind(r)) = Len(r) - b
  BY <1>2, <1>3, BlockFacts
<1> QED BY <1>1, <1>2, <1>3, <1>4

(* What UnpadBlocks returns.                                               *)
LEMMA UnpadType ==
  ASSUME NEW s \in Seq(Tok)
  PROVE  Vless!UnpadBlocks(s) \in UnpadResult
<1> DEFINE Good(r) == Vless!UnpadBlocks(r) \in UnpadResult
           S == { n \in Nat : \A r \in Seq(Tok) : Len(r) <= n => Good(r) }
<1> HIDE DEF Good
<1>1. ASSUME NEW r \in Seq(Tok), ~Stops(r) => Good(Behind(r)) PROVE Good(r)
  <2>1. CASE Stops(r)
    BY <2>1, UnpadStep, StoppedType DEF Good
  <2>2. CASE ~Stops(r)
    <3>1. PICK x \in UnpadResult : x = Vless!UnpadBlocks(Behind(r))
      BY <1>1, <2>2 DEF Good
    <3>2. PICK c \in Seq(Tok) : c = Content(r)
      BY <2>2, GoesOn
    <3>3. c \o x.out \in Seq(Tok)
      <4>1. x.out \in Seq(Tok)
        BY DEF UnpadResult
      <4> QED BY <4>1, ConcatProperties
    <3>4. [x EXCEPT !.out = c \o @] \in UnpadResult
      BY <3>3 DEF UnpadResult
    <3> QED BY <2>2, <3>1, <3>2, <3>4, UnpadStep DEF Good
  <2> QED BY <2>1, <2>2
<1>2. 0 \in S
  <2> SUFFICES ASSUME NEW r \in Seq(Tok), Len(r) <= 0 PROVE Good(r)
    OBVIOUS
  <2>1. Stops(r)
    BY LenProperties DEF Stops
  <2> QED BY <1>1, <2>1
<1>3. ASSUME NEW n \in Nat, n \in S PROVE n + 1 \in S
  <2> SUFFICES ASSUME NEW r \in Seq(Tok), Len(r) <= n + 1 PROVE Good(r)
    OBVIOUS
  <2>1. ~Stops(r) => Good(Behind(r))
    <3> SUFFICES ASSUME ~Stops(r) PROVE Good(Behind(r))
      OBVIOUS
    <3>1. Behind(r) \in Seq(Tok) /\ Len(Behind(r)) < Len(r)
      BY GoesOn
    <3>2. Len(Behind(r)) <= n
      BY <3>1, LenProperties
    <3> QED BY <1>3, <3>1, <3>2
  <2> QED BY <1>1, <2>1
<1> HIDE DEF S
<1>4. Len(s) \in Nat /\ Len(s) \in S
  BY <1>2, <1>3, Induction, LenProperties
<1> QED BY <1>4 DEF S, Good

-----------------------------------------------------------------------------
(* A later read, after what has been decoded to x.                         *)
Ahead(x, c) == [x EXCEPT !.out = c \o @]
Then(x, c) == [x EXCEPT !.out = @ \o c]
BlocksThen(x, t) ==
  IF x.state.mode = "raw" THEN Then(x, t)
  ELSE Ahead(Vless!UnpadBlocks(x.state.pending \o t), x.out)

(* Output before and behind what has been decoded.                         *)
LEMMA OutIs ==
  ASSUME NEW m, NEW p, NEW o, NEW c
  PROVE  /\ Ahead(Vless!Push(m, p, o), c) = Vless!Push(m, p, c \o o)
         /\ Then(Vless!Push(m, p, o), c) = Vless!Push(m, p, o \o c)
<1>1. PICK a, b, st : a = c \o o /\ b = o \o c /\ st = [mode |-> m, pending |-> p]
  OBVIOUS
<1>2. PICK x : x = [state |-> st, out |-> o] /\ x = Vless!Push(m, p, o)
  BY <1>1 DEF Vless!Push
<1>3. x.out = o
  BY <1>2
<1>4. [x EXCEPT !.out = a] = [state |-> st, out |-> a]
  BY <1>2
<1>5. [x EXCEPT !.out = b] = [state |-> st, out |-> b]
  BY <1>2
<1>6. Vless!Push(m, p, a) = [state |-> st, out |-> a] /\ Vless!Push(m, p, b) = [state |-> st, out |-> b]
  BY <1>1 DEF Vless!Push
<1>7. Ahead(x, c) = [x EXCEPT !.out = a]
  BY <1>1, <1>3 DEF Ahead
<1>8. Then(x, c) = [x EXCEPT !.out = b]
  BY <1>1, <1>3 DEF Then
<1> QED BY <1>1, <1>2, <1>4, <1>5, <1>6, <1>7, <1>8

(* Behind the end of the padding all bytes are payload.                    *)
LEMMA ThenRaw ==
  ASSUME NEW p, NEW o, NEW t
  PROVE  BlocksThen(Vless!Push("raw", p, o), t) = Vless!Push("raw", p, o \o t)
<1>1. PICK x : x = Vless!Push("raw", p, o)
  OBVIOUS
<1>2. x.state.mode = "raw"
  BY <1>1 DEF Vless!Push
<1>3. BlocksThen(x, t) = Then(x, t)
  BY <1>2 DEF BlocksThen
<1> QED BY <1>1, <1>3, OutIs

(* Before it they are blocks, behind the one that is not complete.         *)
LEMMA ThenBlocks ==
  ASSUME NEW p, NEW t, NEW n, NEW q, NEW r, Vless!UnpadBlocks(p \o t) = Vless!Push(n, q, r), NEW o
  PROVE  BlocksThen(Vless!Push("padding", p, o), t) = Vless!Push(n, q, o \o r)
<1>1. PICK x : x = Vless!Push("padding", p, o)
  OBVIOUS
<1>2. x.state.mode = "padding" /\ x.state.pending = p /\ x.out = o
  BY <1>1 DEF Vless!Push
<1>3. BlocksThen(x, t) = Ahead(Vless!UnpadBlocks(p \o t), o)
  BY <1>2 DEF BlocksThen
<1>4. Ahead(Vless!Push(n, q, r), o) = Vless!Push(n, q, o \o r)
  BY OutIs
<1> QED BY <1>1, <1>3, <1>4

(* A result has its three parts.                                           *)
LEMMA ResultIsPush ==
  ASSUME NEW x \in UnpadResult
  PROVE  \E m \in {"padding", "raw"}, p \in Seq(Tok), o \in Seq(Tok) :
           x = Vless!Push(m, p, o) /\ (m = "raw" => p = << >>)
<1>1. x = [state |-> [mode |-> x.state.mode, pending |-> x.state.pending], out |-> x.out]
  BY DEF UnpadResult
<1>2. /\ x.state.mode \in {"padding", "raw"} /\ x.state.pending \in Seq(Tok)
      /\ x.out \in Seq(Tok) /\ (x.state.mode = "raw" => x.state.pending = << >>)
  BY DEF UnpadResult
<1> QED BY <1>1, <1>2 DEF Vless!Push

(* Concatenation, for the SMT solver.                                      *)
LEMMA Associative ==
  ASSUME NEW a \in Seq(Tok), NEW b \in Seq(Tok), NEW c \in Seq(Tok)
  PROVE  (a \o b) \o c = a \o (b \o c)
BY ConcatAssociative

(* The same by a name, for the provers.                                    *)
Regroups(a, b, c) == (a \o b) \o c = a \o (b \o c)

LEMMA Regroup ==
  ASSUME NEW a \in Seq(Tok), NEW b \in Seq(Tok), NEW c \in Seq(Tok)
  PROVE  Regroups(a, b, c)
BY ConcatAssociative DEF Regroups

(* Nothing, before or behind a sequence.                                   *)
LEMMA ConcatEmpty ==
  ASSUME NEW S, NEW s \in Seq(S)
  PROVE  s \o << >> = s /\ << >> \o s = s /\ << >> \in Seq(S)
BY ConcatEmptySeq, EmptySeq

(* Reads may split a padded stream anywhere.                               *)
LEMMA UnpadConcat ==
  ASSUME NEW s \in Seq(Tok), NEW t \in Seq(Tok)
  PROVE  Vless!UnpadBlocks(s \o t) = BlocksThen(Vless!UnpadBlocks(s), t)
<1> DEFINE Good(r) == Vless!UnpadBlocks(r \o t) = BlocksThen(Vless!UnpadBlocks(r), t)
<1>1. ASSUME NEW r \in Seq(Tok), ~Stops(r) => Good(Behind(r)) PROVE Good(r)
  <2>1. Vless!UnpadBlocks(r) = IF Stops(r) THEN Stopped(r)
                ELSE Ahead(Vless!UnpadBlocks(Behind(r)), Content(r))
    BY UnpadStep DEF Ahead
  <2>2. r \o t \in Seq(Tok) /\ Len(r) \in Nat
    BY ConcatProperties, LenProperties
  <2>3. Vless!UnpadBlocks(r \o t) = IF Stops(r \o t) THEN Stopped(r \o t)
                ELSE Ahead(Vless!UnpadBlocks(Behind(r \o t)), Content(r \o t))
    BY <2>2, UnpadStep DEF Ahead
  <2>4. Vless!UnpadBlocks(r \o t) \in UnpadResult
    BY <2>2, UnpadType
  <2>5. CASE \/ Len(r) < 3
             \/ Len(r) >= 3 /\ r[1][1] = "command" /\ ~(r[1][2] > 2)
                  /\ Len(r) < Vless!BlockLength(r)
    <3>1. Vless!UnpadBlocks(r) = Vless!Push("padding", r, << >>)
      BY <2>1, <2>2, <2>5 DEF Stops, Stopped
    <3>2. PICK n, q, o : o \in Seq(Tok) /\ Vless!UnpadBlocks(r \o t) = Vless!Push(n, q, o)
      BY <2>4, ResultIsPush
    <3>3. << >> \o o = o
      BY <3>2, ConcatEmpty
    <3>4. PICK none : none = << >>
      OBVIOUS
    <3>5. Vless!UnpadBlocks(r \o t) = Vless!Push(n, q, o)
      BY <3>2
    <3>6. BlocksThen(Vless!Push("padding", r, none), t) = Vless!Push(n, q, none \o o)
      BY <3>5, ThenBlocks
    <3> QED BY <3>1, <3>2, <3>3, <3>4, <3>6
  <2>6. CASE Len(r) >= 3 /\ (r[1][1] # "command" \/ r[1][2] > 2)
    <3>1. Vless!UnpadBlocks(r) = Vless!Push("raw", << >>, r)
      BY <2>1, <2>2, <2>6 DEF Stops, Stopped
    <3>2. (r \o t)[1] = r[1] /\ Len(r \o t) >= 3 /\ Len(r \o t) \in Nat
      BY <2>2, <2>6, BlockOfConcat, LenProperties
    <3>3. Vless!UnpadBlocks(r \o t) = Vless!Push("raw", << >>, r \o t)
      BY <2>3, <2>6, <3>2 DEF Stops, Stopped
    <3> QED BY <3>1, <3>3, ThenRaw
  <2>7. CASE /\ Len(r) >= 3 /\ ~(r[1][1] # "command" \/ r[1][2] > 2)
             /\ ~(Len(r) < Vless!BlockLength(r))
    <3>1. Vless!BlockLength(r) \in Nat /\ Vless!BlockLength(r) <= Len(r)
      BY <2>2, <2>7, BlockFacts
    <3>2. /\ Content(r) \in Seq(Tok) /\ Behind(r) \in Seq(Tok)
      BY <2>7, <3>1, BlockFacts
    <3>3. PICK w : w = r \o t
      OBVIOUS
    <3>4. /\ w[1] = r[1] /\ Len(w) >= 3 /\ Vless!BlockLength(w) = Vless!BlockLength(r)
          /\ Vless!BlockLength(r) <= Len(w)
          /\ Content(w) = Content(r) /\ Behind(w) = Behind(r) \o t
      BY <2>7, <3>1, <3>3, BlockOfConcat
    <3>5. PICK c \in Seq(Tok), b \in Seq(Tok) : c = Content(r) /\ b = Behind(r)
      BY <3>2
    <3>6. Len(w) \in Nat /\ ~(Len(w) < 3) /\ ~(Len(w) < Vless!BlockLength(w))
      BY <2>2, <3>1, <3>3, <3>4, LenProperties
    <3>7. CASE r[1][2] # 0
      <4>1. Vless!UnpadBlocks(r) = Vless!Push("raw", << >>, c \o b)
        BY <2>1, <2>2, <2>7, <3>5, <3>7 DEF Stops, Stopped
      <4>2. Stops(w) /\ Stopped(w) = Vless!Push("raw", << >>, c \o (b \o t))
        BY <2>7, <3>4, <3>5, <3>6, <3>7 DEF Stops, Stopped
      <4>3. (c \o b) \o t = c \o (b \o t)
        <5>1. Regroups(c, b, t)
          BY Regroup
        <5> QED BY <5>1 DEF Regroups
      <4>4. BlocksThen(Vless!UnpadBlocks(r), t) = Vless!Push("raw", << >>, (c \o b) \o t)
        BY <4>1, ThenRaw
      <4> QED BY <2>3, <3>3, <4>2, <4>3, <4>4
    <3>8. CASE r[1][2] = 0
      <4>1. ~Stops(r)
        BY <2>2, <2>7, <3>8 DEF Stops
      <4>2. ~Stops(w)
        BY <2>7, <3>4, <3>6, <3>8 DEF Stops
      <4>3. PICK x : x \in UnpadResult /\ x = Vless!UnpadBlocks(b)
        BY <3>5, UnpadType
      <4>4. Vless!UnpadBlocks(r) = Ahead(x, c)
        BY <2>1, <3>5, <4>1, <4>3
      <4>5. Vless!UnpadBlocks(b \o t) = BlocksThen(x, t)
        BY <1>1, <3>5, <4>1, <4>3
      <4>6. Vless!UnpadBlocks(w) = Ahead(BlocksThen(x, t), c)
        BY <2>3, <3>3, <3>4, <3>5, <4>2, <4>5
      <4>7. PICK m \in {"padding", "raw"}, p \in Seq(Tok), o \in Seq(Tok) :
              x = Vless!Push(m, p, o)
        BY <4>3, ResultIsPush
      <4>8. Vless!UnpadBlocks(r) = Vless!Push(m, p, c \o o)
        BY <4>4, <4>7, OutIs
      <4>9. CASE m = "raw"
        <5>1. BlocksThen(x, t) = Vless!Push(m, p, o \o t)
          BY <4>7, <4>9, ThenRaw
        <5>2. Vless!UnpadBlocks(w) = Vless!Push(m, p, c \o (o \o t))
          BY <4>6, <5>1, OutIs
        <5>3. BlocksThen(Vless!UnpadBlocks(r), t) = Vless!Push(m, p, (c \o o) \o t)
          BY <4>8, <4>9, ThenRaw
        <5>4. (c \o o) \o t = c \o (o \o t)
          <6>1. \A x1, x2, x3 \in Seq(Tok) : (x1 \o x2) \o x3 = x1 \o (x2 \o x3)
            BY Associative
          <6>2. \A x3 \in Seq(Tok) : (c \o o) \o x3 = c \o (o \o x3)
            BY <6>1
          <6> QED BY <6>2
        <5> QED BY <3>3, <5>2, <5>3, <5>4
      <4>10. CASE m = "padding"
        <5>1. p \o t \in Seq(Tok)
          BY ConcatProperties
        <5>2. PICK n \in {"padding", "raw"}, q \in Seq(Tok), v \in Seq(Tok) :
                Vless!UnpadBlocks(p \o t) = Vless!Push(n, q, v)
          <6>1. PICK y \in UnpadResult : y = Vless!UnpadBlocks(p \o t)
            BY <5>1, UnpadType
          <6> QED BY <6>1, ResultIsPush
        <5>3. BlocksThen(x, t) = Vless!Push(n, q, o \o v)
          BY <4>7, <4>10, <5>2, ThenBlocks
        <5>4. Vless!UnpadBlocks(w) = Vless!Push(n, q, c \o (o \o v))
          BY <4>6, <5>3, OutIs
        <5>5. BlocksThen(Vless!UnpadBlocks(r), t) = Vless!Push(n, q, (c \o o) \o v)
          BY <4>8, <4>10, <5>2, ThenBlocks
        <5>6. (c \o o) \o v = c \o (o \o v)
          <6>1. Regroups(c, o, v)
            BY Regroup
          <6> QED BY <6>1 DEF Regroups
        <5> QED BY <3>3, <5>4, <5>5, <5>6
      <4> QED BY <4>9, <4>10
    <3> QED BY <3>7, <3>8
  <2> QED BY <2>2, <2>5, <2>6, <2>7
<1> DEFINE S == { n \in Nat : \A r \in Seq(Tok) : Len(r) <= n => Good(r) }
<1> HIDE DEF Good
<1>2. 0 \in S
  <2> SUFFICES ASSUME NEW r \in Seq(Tok), Len(r) <= 0 PROVE Good(r)
    OBVIOUS
  <2>1. Stops(r)
    BY LenProperties DEF Stops
  <2> QED BY <1>1, <2>1
<1>3. ASSUME NEW n \in Nat, n \in S PROVE n + 1 \in S
  <2> SUFFICES ASSUME NEW r \in Seq(Tok), Len(r) <= n + 1 PROVE Good(r)
    OBVIOUS
  <2>1. ~Stops(r) => Good(Behind(r))
    <3> SUFFICES ASSUME ~Stops(r) PROVE Good(Behind(r))
      OBVIOUS
    <3>1. Behind(r) \in Seq(Tok) /\ Len(Behind(r)) < Len(r)
      BY GoesOn
    <3>2. Len(Behind(r)) <= n
      BY <3>1, LenProperties
    <3> QED BY <1>3, <3>1, <3>2
  <2> QED BY <1>1, <2>1
<1> HIDE DEF S
<1>4. Len(s) \in Nat /\ Len(s) \in S
  BY <1>2, <1>3, Induction, LenProperties
<1> QED BY <1>4 DEF S, Good

-----------------------------------------------------------------------------
(* Unpadding from the first read on: without a uuid there is no padding.   *)
Start(k) ==
  IF Len(k) < 2 THEN Vless!Push("unknown", k, << >>)
  ELSE IF SubSeq(k, 1, 2) = Vless!Uuid THEN Vless!UnpadBlocks(Vless!From(k, 3))
  ELSE Vless!Push("raw", << >>, k)

(* A read, after what has been decoded to x.                               *)
Pushed(x, data) == Ahead(Vless!PushDownlink(x.state, data), x.out)

(* The two loops of push agree on what they read.                          *)
LEMMA PushDownlinkIs ==
  ASSUME NEW p \in Seq(Tok), NEW d \in Seq(Tok)
  PROVE  /\ Vless!PushDownlink([mode |-> "raw", pending |-> p], d)
              = Vless!Push("raw", << >>, d)
         /\ Vless!PushDownlink([mode |-> "padding", pending |-> p], d)
              = Vless!UnpadBlocks(p \o d)
         /\ Vless!PushDownlink([mode |-> "unknown", pending |-> p], d) = Start(p \o d)
<1>1. CASE p = << >>
  <2>1. p \o d = d
    BY <1>1, ConcatEmpty
  <2> QED BY <1>1, <2>1 DEF Vless!PushDownlink, Vless!PushWhole, Start
<1>2. CASE p # << >>
  <2>1. PICK k \in Seq(Tok) : k = p \o d
    BY ConcatProperties
  <2>2. Len(k) \in Nat
    BY LenProperties
  <2> QED BY <1>2, <2>1, <2>2 DEF Vless!PushDownlink, Start
<1> QED BY <1>1, <1>2

(* ... and may split what has been kept and what is read.                  *)
LEMMA StartConcat ==
  ASSUME NEW s \in Seq(Tok), NEW t \in Seq(Tok)
  PROVE  Start(s \o t) = Pushed(Start(s), t)
<1>1. Len(s) \in Nat /\ s \o t \in Seq(Tok) /\ Len(s \o t) >= Len(s) /\ Len(s \o t) \in Nat
  BY LenProperties, ConcatProperties
<1>2. CASE Len(s) < 2
  <2>1. PICK none : none = << >>
    OBVIOUS
  <2>2. Start(s) = Vless!Push("unknown", s, none)
    BY <1>2, <2>1 DEF Start
  <2>3. /\ Start(s).state = [mode |-> "unknown", pending |-> s] /\ Start(s).out = none
    BY <2>2 DEF Vless!Push
  <2>4. Pushed(Start(s), t) = Ahead(Start(s \o t), none)
    BY <2>3, PushDownlinkIs DEF Pushed
  <2>5. PICK m, q, o : o \in Seq(Tok) /\ Start(s \o t) = Vless!Push(m, q, o)
    <3>1. PICK k \in Seq(Tok) : k = s \o t
      BY <1>1
    <3>2. CASE Len(k) < 2
      BY <3>1, <3>2, EmptySeq DEF Start
    <3>3. CASE Len(k) >= 2 /\ SubSeq(k, 1, 2) = Vless!Uuid
      <4>1. Vless!From(k, 3) \in Seq(Tok)
        <5>1. 3 \in 1 .. Len(k) + 1
          BY <1>1, <3>1, <3>3
        <5> QED BY <5>1, FromFacts
      <4>2. Vless!UnpadBlocks(Vless!From(k, 3)) \in UnpadResult
        BY <4>1, UnpadType
      <4>3. Start(k) = Vless!UnpadBlocks(Vless!From(k, 3))
        BY <1>1, <3>1, <3>3 DEF Start
      <4>4. PICK y \in UnpadResult : y = Start(k)
        BY <4>2, <4>3
      <4> QED BY <3>1, <4>4, ResultIsPush
    <3>4. CASE Len(k) >= 2 /\ SubSeq(k, 1, 2) # Vless!Uuid
      <4>1. Start(k) = Vless!Push("raw", << >>, k)
        BY <1>1, <3>1, <3>4 DEF Start
      <4> QED BY <3>1, <4>1
    <3> QED BY <1>1, <3>1, <3>2, <3>3, <3>4
  <2>6. none \o o = o
    BY <2>1, ConcatEmpty
  <2>7. Ahead(Vless!Push(m, q, o), none) = Vless!Push(m, q, none \o o)
    BY OutIs
  <2> QED BY <2>4, <2>5, <2>6, <2>7
<1>3. CASE Len(s) >= 2
  <2>1. SubSeq(s \o t, 1, 2) = SubSeq(s, 1, 2)
    <3>1. PICK a \in Nat, b \in Nat : a = 0 /\ b = 2
      OBVIOUS
    <3>2. a <= b /\ b <= Len(s)
      BY <1>3, <3>1
    <3>3. Win(s \o t, a, b) = Win(s, a, b)
      BY <3>2, FrontOfConcat
    <3>4. a + 1 = 1
      BY <3>1
    <3> QED BY <3>1, <3>3, <3>4 DEF Win
  <2>2. CASE SubSeq(s, 1, 2) # Vless!Uuid
    <3>1. PICK none : none = << >> /\ none \in Seq(Tok)
      BY EmptySeq
    <3>2. Start(s) = Vless!Push("raw", none, s) /\ Start(s \o t) = Vless!Push("raw", none, s \o t)
      BY <1>1, <1>3, <2>1, <2>2, <3>1 DEF Start
    <3>3. Start(s).state = [mode |-> "raw", pending |-> none] /\ Start(s).out = s
      BY <3>2 DEF Vless!Push
    <3>4. Pushed(Start(s), t) = Ahead(Vless!Push("raw", none, t), s)
      BY <3>1, <3>3, PushDownlinkIs DEF Pushed
    <3> QED BY <3>2, <3>4, OutIs
  <2>3. CASE SubSeq(s, 1, 2) = Vless!Uuid
    <3>1. Vless!From(s, 3) \in Seq(Tok) /\ Vless!From(s \o t, 3) = Vless!From(s, 3) \o t
      <4>1. 3 \in 1 .. Len(s) + 1
        BY <1>1, <1>3
      <4>2. Vless!From(s, 3) \in Seq(Tok)
        BY <4>1, FromFacts
      <4>3. PICK p \in Nat, j \in Nat : p = 2 /\ j = p + 1 /\ j = 3
        OBVIOUS
      <4>4. p <= Len(s)
        BY <1>3, <4>3
      <4>5. j = p + 1
        BY <4>3
      <4>6. Vless!From(s \o t, j) = Vless!From(s, j) \o t
        BY <4>4, <4>5, RestOfConcat
      <4> QED BY <4>2, <4>3, <4>6
    <3>2. PICK b \in Seq(Tok) : b = Vless!From(s, 3)
      BY <3>1
    <3>3. PICK x \in UnpadResult : x = Vless!UnpadBlocks(b)
      BY <3>2, UnpadType
    <3>4. Start(s) = x /\ Start(s \o t) = BlocksThen(x, t)
      <4>1. Start(s) = x
        BY <1>1, <1>3, <2>3, <3>2, <3>3 DEF Start
      <4>2. Start(s \o t) = Vless!UnpadBlocks(b \o t)
        <5>1. ~(Len(s \o t) < 2) /\ SubSeq(s \o t, 1, 2) = Vless!Uuid
          BY <1>1, <1>3, <2>1, <2>3
        <5>2. Vless!From(s \o t, 3) = b \o t
          BY <3>1, <3>2
        <5> QED BY <5>1, <5>2 DEF Start
      <4>3. Vless!UnpadBlocks(b \o t) = BlocksThen(Vless!UnpadBlocks(b), t)
        BY UnpadConcat
      <4> QED BY <3>3, <4>1, <4>2, <4>3
    <3>5. PICK m \in {"padding", "raw"}, p \in Seq(Tok), o \in Seq(Tok) :
            x = Vless!Push(m, p, o) /\ (m = "raw" => p = << >>)
      BY ResultIsPush
    <3>6. x.state = [mode |-> m, pending |-> p] /\ x.state.mode = m
          /\ x.state.pending = p /\ x.out = o
      BY <3>5, PushIs
    <3>7. CASE m = "raw"
      <4>1. Pushed(x, t) = Ahead(Vless!Push("raw", p, t), o)
        <5>1. x.state = [mode |-> "raw", pending |-> p] /\ p = << >>
          BY <3>5, <3>6, <3>7
        <5>2. Vless!PushDownlink([mode |-> "raw", pending |-> p], t) = Vless!Push("raw", << >>, t)
          BY PushDownlinkIs
        <5>3. Pushed(x, t) = Ahead(Vless!PushDownlink(x.state, t), o)
          BY <3>6 DEF Pushed
        <5> QED BY <5>1, <5>2, <5>3
      <4>2. BlocksThen(x, t) = Vless!Push("raw", p, o \o t)
        BY <3>5, <3>7, ThenRaw
      <4>3. Ahead(Vless!Push("raw", p, t), o) = Vless!Push("raw", p, o \o t)
        BY OutIs
      <4> QED BY <3>4, <4>1, <4>2, <4>3
    <3>8. CASE m = "padding"
      <4>1. Pushed(x, t) = Ahead(Vless!UnpadBlocks(p \o t), o)
        <5>1. x.state = [mode |-> "padding", pending |-> p]
          BY <3>6, <3>8
        <5>2. Vless!PushDownlink([mode |-> "padding", pending |-> p], t) = Vless!UnpadBlocks(p \o t)
          BY PushDownlinkIs
        <5>3. Pushed(x, t) = Ahead(Vless!PushDownlink(x.state, t), o)
          BY <3>6 DEF Pushed
        <5> QED BY <5>1, <5>2, <5>3
      <4>2. BlocksThen(x, t) = Ahead(Vless!UnpadBlocks(p \o t), o)
        BY <3>6, <3>8 DEF BlocksThen
      <4> QED BY <3>4, <4>1, <4>2
    <3> QED BY <3>7, <3>8
  <2> QED BY <2>2, <2>3
<1> QED BY <1>1, <1>2, <1>3

(* The unpadding, from its beginning.                                      *)
LEMMA FirstPush ==
  ASSUME NEW d \in Seq(Tok)
  PROVE  Vless!PushDownlink(Vless!FirstUnpadding, d) = Start(d)
<1>1. PICK none \in Seq(Tok) : none = << >>
  BY EmptySeq
<1>2. Vless!FirstUnpadding = [mode |-> "unknown", pending |-> none]
  BY <1>1 DEF Vless!FirstUnpadding
<1>3. none \o d = d
  BY <1>1, ConcatEmpty
<1>4. Vless!PushDownlink([mode |-> "unknown", pending |-> none], d) = Start(none \o d)
  BY PushDownlinkIs
<1> QED BY <1>2, <1>3, <1>4

(* VisionUnpaddingState.push may get the peer's bytes split over any number*)
(* of reads: what it returns, and what it keeps, is what one               *)
(* call with all of them would have returned and kept.                     *)
THEOREM UnpaddingIsIncremental ==
  ASSUME NEW s \in Seq(Tok), NEW t \in Seq(Tok)
  PROVE  LET First == Vless!PushDownlink(Vless!FirstUnpadding, s)
             Second == Vless!PushDownlink(First.state, t)
         IN  Vless!PushDownlink(Vless!FirstUnpadding, s \o t)
               = [Second EXCEPT !.out = First.out \o @]
<1>1. \A d \in Seq(Tok) : Vless!PushDownlink(Vless!FirstUnpadding, d) = Start(d)
  BY FirstPush
<1>2. s \o t \in Seq(Tok)
  BY ConcatProperties
<1>3. PICK x : x = Start(s) /\ x = Vless!PushDownlink(Vless!FirstUnpadding, s)
  BY <1>1
<1>4. Vless!PushDownlink(Vless!FirstUnpadding, s \o t) = Pushed(x, t)
  BY <1>1, <1>2, <1>3, StartConcat
<1> QED BY <1>3, <1>4 DEF Pushed, Ahead

-----------------------------------------------------------------------------
(* A concatenation, element by element.                                    *)
LEMMA ConcatIs ==
  ASSUME NEW S, NEW s \in Seq(S), NEW t \in Seq(S), NEW r \in Seq(S),
         Len(r) = Len(s) + Len(t),
         \A i \in 1 .. Len(s) : r[i] = s[i],
         \A i \in 1 .. Len(t) : r[Len(s) + i] = t[i]
  PROVE  s \o t = r
<1>1. PICK c \in Seq(S) : c = s \o t
  BY ConcatProperties
<1>2. PICK k \in Nat, l \in Nat : k = Len(s) /\ l = Len(t)
  BY LenProperties
<1>3. /\ Len(c) = k + l
      /\ \A i \in 1 .. k + l : c[i] = IF i <= k THEN s[i] ELSE t[i - k]
  BY <1>1, <1>2, ConcatProperties
<1>4. ASSUME NEW i \in 1 .. k + l PROVE c[i] = r[i]
  <2>1. CASE i <= k
    BY <1>2, <1>3, <2>1
  <2>2. CASE i > k
    <3>1. PICK j \in 1 .. l : j = i - k
      <4>1. i - k \in 1 .. l
        BY <2>2
      <4> QED BY <4>1
    <3>2. r[k + j] = t[j] /\ k + j = i
      BY <1>2, <3>1
    <3> QED BY <1>2, <1>3, <2>2, <3>1, <3>2
  <2> QED BY <1>2, <2>1, <2>2
<1>5. Len(r) = k + l /\ Len(c) = k + l
  BY <1>2, <1>3
<1>6. c = r
  BY <1>4, <1>5, SeqEqual
<1> QED BY <1>1, <1>6

(* What bridge_vless_stream reads from the bridge of a transport.          *)
Logical == Vless!Response \o Vless!Plain(1, 2)

(* It has five bytes.                                                      *)
LEMMA LogicalIs ==
  /\ Logical = <<<<"version", 0>>, <<"addons", 1>>, <<"addon", 0>>, <<"plain", 1>>,
                 <<"plain", 2>>>>
  /\ Logical \in Seq(Tok) /\ Len(Logical) = 5
<1>1. PICK v \in Tok, w \in Tok, x \in Tok, y \in Tok, z \in Tok :
        /\ v = <<"version", 0>> /\ w = <<"addons", 1>> /\ x = <<"addon", 0>>
        /\ y = <<"plain", 1>> /\ z = <<"plain", 2>>
  BY DEF Tok, Types, Vless!Classes
<1>2. Vless!Response = <<v, w, x>>
  BY <1>1 DEF Vless!Response
<1>3. Vless!Plain(1, 2) = <<y, z>>
  BY <1>1 DEF Vless!Plain
<1> HIDE <1>1
<1>4. PICK a \in Seq(Tok), b \in Seq(Tok), r \in Seq(Tok) :
         a = <<v, w, x>> /\ b = <<y, z>> /\ r = <<v, w, x, y, z>>
  <2>1. <<v, w, x>> \in Seq(Tok)
    OBVIOUS
  <2>2. <<y, z>> \in Seq(Tok)
    OBVIOUS
  <2>3. <<v, w, x, y, z>> \in Seq(Tok)
    OBVIOUS
  <2> QED BY <2>1, <2>2, <2>3
<1>5. /\ Len(a) = 3 /\ Len(b) = 2 /\ Len(r) = 5
      /\ \A i \in 1 .. 3 : r[i] = a[i]
      /\ \A i \in 1 .. 2 : r[3 + i] = b[i]
  BY <1>4
<1>6. a \o b = r
  <2>1. Len(r) = Len(a) + Len(b)
    BY <1>5
  <2>2. /\ \A i \in 1 .. Len(a) : r[i] = a[i]
        /\ \A i \in 1 .. Len(b) : r[Len(a) + i] = b[i]
    BY <1>5
  <2> QED BY <2>1, <2>2, ConcatIs
<1> QED BY <1>1, <1>2, <1>3, <1>4, <1>5, <1>6 DEF Logical

-----------------------------------------------------------------------------
(* The empty sequence, by a name the provers can instantiate with.         *)
LEMMA NothingToUnpad ==
  ASSUME NEW none, none = << >>
  PROVE  /\ Vless!UnpadBlocks(none) = Vless!Push("padding", none, none)
         /\ Start(none) = Vless!Push("unknown", none, none)
<1>1. none \in Seq(Tok) /\ Len(none) = 0
  BY EmptySeq
<1>2. Stops(none) /\ Stopped(none) = Vless!Push("padding", none, none)
  BY <1>1 DEF Stops, Stopped
<1>3. Vless!UnpadBlocks(none) = Vless!Push("padding", none, none)
  BY <1>1, <1>2, UnpadStep
<1>4. Start(none) = Vless!Push("unknown", none, none)
  BY <1>1 DEF Start
<1> QED BY <1>3, <1>4

(* What a length field can tell apart.                                     *)
LEMMA WidthIs == Width \in Nat /\ Width > 1
BY BridgesAssumption DEF Vless!VisionAssumption

LEMMA Fits ==
  ASSUME NEW n \in Nat, n < Width
  PROVE  n % Width = n
<1>1. PICK W \in Nat \ {0} : W = Width
  BY WidthIs
<1>6. PICK z \in Int, t \in 0 .. W - 1 : z = 0 /\ t = n
  BY <1>1
<1>2. PICK q \in Int, r \in 0 .. W - 1 : r = n % W /\ n = W * q + r
  BY Division
<1>3. W * z = z
  BY <1>6
<1>4. W * q + r + W * z = W * z + t
  BY <1>2, <1>3, <1>6
<1>5. r = t
  BY <1>4, SameRemainder
<1> QED BY <1>1, <1>2, <1>5, <1>6

(* xtls_padding makes one block of what its length field can tell.         *)
LEMMA PaddedIs ==
  ASSUME NEW content \in Seq(Tok), NEW command \in 0 .. 2, Len(content) < Width
  PROVE  \E b \in Seq(Tok), k \in 0 .. 1 :
           /\ Vless!Padded(content, command, FALSE) = b
           /\ Len(b) = 3 + Len(content) + k
           /\ b[1] = <<"command", command>> /\ b[2] = <<"content", Len(content)>>
           /\ b[3] = <<"padding", k>>
           /\ \A i \in 1 .. Len(content) : b[3 + i] = content[i]
           /\ \A i \in 4 + Len(content) .. 3 + Len(content) + k : b[i] = <<"zero", 0>>
<1>1. PICK l \in Nat : l = Len(content)
  BY LenProperties
<1>2. PICK pad \in Seq(Tok), k \in 0 .. 1 :
        /\ pad = IF l < 2 THEN <<<<"zero", 0>>>> ELSE << >>
        /\ Len(pad) = k /\ \A i \in 1 .. k : pad[i] = <<"zero", 0>>
  <2>1. CASE l < 2
    <3>1. PICK z \in Tok : z = <<"zero", 0>>
      BY DEF Tok, Types
    <3>2. <<z>> \in Seq(Tok) /\ Len(<<z>>) = 1 /\ <<z>>[1] = z
      OBVIOUS
    <3>3. PICK p \in Seq(Tok) : p = <<z>>
      BY <3>2
    <3>4. Len(p) = 1 /\ 1 \in 0 .. 1 /\ \A i \in 1 .. 1 : p[i] = z
      BY <3>2, <3>3
    <3> QED BY <2>1, <3>1, <3>3, <3>4
  <2>2. CASE ~(l < 2)
    <3>1. << >> \in Seq(Tok) /\ Len(<< >>) = 0 /\ 0 \in 0 .. 1 /\ \A i \in 1 .. 0 : FALSE
      BY EmptySeq
    <3> QED BY <2>2, <3>1
  <2> QED BY <2>1, <2>2
<1>3. PICK hd \in Seq(Tok) :
        /\ hd = Vless!Header(command, l, k) /\ Len(hd) = 3
        /\ hd[1] = <<"command", command>> /\ hd[2] = <<"content", l>>
        /\ hd[3] = <<"padding", k>>
  <2>1. PICK x \in Tok, y \in Tok, z \in Tok :
          x = <<"command", command>> /\ y = <<"content", l>> /\ z = <<"padding", k>>
    <3>1. command \in Nat /\ k \in Nat
      OBVIOUS
    <3>2. <<"command", command>> \in Tok /\ <<"content", l>> \in Tok /\ <<"padding", k>> \in Tok
      BY <3>1 DEF Tok, Types
    <3> QED BY <3>2
  <2>2. <<x, y, z>> \in Seq(Tok)
    OBVIOUS
  <2>3. PICK h \in Seq(Tok) : h = <<x, y, z>>
    BY <2>2
  <2>4. Len(h) = 3 /\ h[1] = x /\ h[2] = y /\ h[3] = z
    BY <2>3
  <2> QED BY <2>1, <2>3, <2>4 DEF Vless!Header
<1>4. PICK s \in Seq(Tok) : s = hd \o content
  BY ConcatProperties
<1>5. PICK b \in Seq(Tok) : b = s \o pad
  BY ConcatProperties
<1>6. /\ Len(s) = 3 + l
      /\ \A i \in 1 .. 3 + l : s[i] = IF i <= 3 THEN hd[i] ELSE content[i - 3]
  <2>1. Len(hd) = 3 /\ Len(content) = l
    BY <1>1, <1>3
  <2>2. /\ Len(s) = Len(hd) + Len(content)
        /\ \A i \in 1 .. Len(hd) + Len(content) :
             s[i] = IF i <= Len(hd) THEN hd[i] ELSE content[i - Len(hd)]
    BY <1>4, ConcatProperties
  <2> QED BY <2>1, <2>2
<1>7. /\ Len(b) = 3 + l + k
      /\ \A i \in 1 .. 3 + l + k : b[i] = IF i <= 3 + l THEN s[i] ELSE pad[i - (3 + l)]
  BY <1>2, <1>5, <1>6, ConcatProperties
<1>8. Vless!Padded(content, command, FALSE) = b
  <2>1. << >> \o hd = hd
    BY ConcatEmpty
  <2>2. l % Width = l
    BY <1>1, Fits
  <2>3. Vless!Padded(content, command, FALSE) = << >> \o hd \o content \o pad
    BY <1>1, <1>2, <1>3, <2>2 DEF Vless!Padded
  <2> QED BY <1>4, <1>5, <2>1, <2>3
<1>9. b[1] = hd[1] /\ b[2] = hd[2] /\ b[3] = hd[3]
  <2>1. \A i \in 1 .. 3 : i \in 1 .. 3 + l /\ i \in 1 .. 3 + l + k /\ i <= 3 + l
    OBVIOUS
  <2>2. \A i \in 1 .. 3 : b[i] = hd[i]
    BY <1>6, <1>7, <2>1
  <2> QED BY <2>2
<1>10. \A i \in 1 .. l : b[3 + i] = content[i]
  <2> SUFFICES ASSUME NEW i \in 1 .. l PROVE b[3 + i] = content[i]
    OBVIOUS
  <2>1. PICK j \in 1 .. 3 + l : j = 3 + i /\ j - 3 = i /\ ~(j <= 3)
    OBVIOUS
  <2>2. j \in 1 .. 3 + l + k /\ j <= 3 + l
    BY <2>1
  <2>3. b[j] = s[j] /\ s[j] = content[j - 3]
    BY <1>6, <1>7, <2>1, <2>2
  <2> QED BY <2>1, <2>3
<1>11. \A i \in 4 + l .. 3 + l + k : b[i] = <<"zero", 0>>
  <2> SUFFICES ASSUME NEW i \in 4 + l .. 3 + l + k PROVE b[i] = <<"zero", 0>>
    OBVIOUS
  <2>1. i \in 1 .. 3 + l + k /\ ~(i <= 3 + l) /\ i - (3 + l) \in 1 .. k
    OBVIOUS
  <2> QED BY <1>2, <1>7, <2>1
<1> QED BY ZenonT(60), <1>1, <1>3, <1>7, <1>8, <1>9, <1>10, <1>11

(* ... and bridge_vless_stream's unpadding gets its content back.          *)
LEMMA PaddedDecodes ==
  ASSUME NEW content \in Seq(Tok), NEW command \in 0 .. 2, NEW none, none = << >>,
         Len(content) < Width
  PROVE  /\ Vless!Padded(content, command, FALSE) \in Seq(Tok)
         /\ Vless!UnpadBlocks(Vless!Padded(content, command, FALSE))
              = Vless!Push(IF command = 0 THEN "padding" ELSE "raw", none, content)
<1>1. PICK b \in Seq(Tok), k \in 0 .. 1 :
        /\ Vless!Padded(content, command, FALSE) = b
        /\ Len(b) = 3 + Len(content) + k
        /\ b[1] = <<"command", command>> /\ b[2] = <<"content", Len(content)>>
        /\ b[3] = <<"padding", k>>
        /\ \A i \in 1 .. Len(content) : b[3 + i] = content[i]
  BY PaddedIs
<1>2. PICK l \in Nat : l = Len(content)
  BY LenProperties
<1>3. /\ Len(b) = 3 + l + k /\ Len(b) >= 3
      /\ b[1][1] = "command" /\ b[1][2] = command /\ b[2][2] = l /\ b[3][2] = k
      /\ ~(command > 2)
  BY <1>1, <1>2
<1>4. Vless!BlockLength(b) = Len(b)
  BY <1>2, <1>3 DEF Vless!BlockLength
<1>5. Len(b) \in Nat
  BY LenProperties
<1>6. /\ Behind(b) \in Seq(Tok) /\ Len(Behind(b)) = 0
      /\ Content(b) \in Seq(Tok) /\ Len(Content(b)) = l
      /\ \A i \in 1 .. l : Content(b)[i] = b[3 + i]
  <2>1. Len(b) >= 3 /\ Vless!BlockLength(b) <= Len(b)
    BY <1>3, <1>4, <1>5
  <2>2. /\ Behind(b) \in Seq(Tok) /\ Len(Behind(b)) = Len(b) - Vless!BlockLength(b)
        /\ Content(b) \in Seq(Tok) /\ Len(Content(b)) = b[2][2]
        /\ \A i \in 1 .. b[2][2] : Content(b)[i] = b[3 + i]
    BY <2>1, BlockFacts
  <2> QED BY <1>3, <1>4, <1>5, <2>2
<1>7. Content(b) = content
  <2>1. \A i \in 1 .. Len(Content(b)) : Content(b)[i] = content[i]
    BY <1>1, <1>2, <1>6
  <2>2. Len(Content(b)) = Len(content)
    BY <1>2, <1>6
  <2> QED BY <1>6, <2>1, <2>2, SeqEqual
<1>8. Behind(b) = none
  BY <1>6, EmptySeq
<1>9. content \o none = content /\ none \in Seq(Tok)
  BY ConcatEmpty
<1>10. ~(Len(b) < 3) /\ ~(Len(b) < Vless!BlockLength(b))
  BY <1>3, <1>4, <1>5
<1>11. CASE command = 0
  <2>1. ~Stops(b)
    BY <1>3, <1>10, <1>11 DEF Stops
  <2>2. Vless!UnpadBlocks(b) = Ahead(Vless!UnpadBlocks(none), content)
    BY <1>7, <1>8, <2>1, UnpadStep DEF Ahead
  <2>3. Vless!UnpadBlocks(none) = Vless!Push("padding", none, none)
    BY NothingToUnpad
  <2>4. Ahead(Vless!Push("padding", none, none), content)
          = Vless!Push("padding", none, content \o none)
    <3>1. PICK m : m = "padding"
      OBVIOUS
    <3>2. \A p, o : Ahead(Vless!Push(m, p, o), content) = Vless!Push(m, p, content \o o)
      BY OutIs
    <3> QED BY <3>1, <3>2
  <2> QED BY <1>1, <1>9, <1>11, <2>2, <2>3, <2>4
<1>12. CASE command # 0
  <2>1. Stops(b)
    BY <1>3, <1>12 DEF Stops
  <2>2. Vless!UnpadBlocks(b) = Stopped(b)
    BY <2>1, UnpadStep
  <2>3. Stopped(b) = Vless!Push("raw", << >>, Content(b) \o Behind(b))
    BY <1>3, <1>10 DEF Stopped
  <2>4. Stopped(b) = Vless!Push("raw", none, content)
    BY <1>7, <1>8, <1>9, <2>3
  <2> QED BY <1>1, <1>12, <2>2, <2>4
<1> QED BY <1>1, <1>11, <1>12

(* The first block, behind the uuid.                                       *)
LEMMA FirstBlockDecodes ==
  ASSUME NEW content \in Seq(Tok), NEW none, none = << >>, Len(content) < Width
  PROVE  /\ Vless!Padded(content, 0, TRUE) \in Seq(Tok)
         /\ Start(Vless!Padded(content, 0, TRUE)) = Vless!Push("padding", none, content)
         /\ Vless!Padded(content, 0, TRUE) = Vless!Uuid \o Vless!Padded(content, 0, FALSE)
<1>1. PICK l : l = Len(content)
  OBVIOUS
<1>2. PICK u \in Seq(Tok) : u = Vless!Uuid /\ Len(u) = 2
  <2>1. PICK x \in Tok, y \in Tok : x = <<"uuid", 1>> /\ y = <<"uuid", 2>>
    BY DEF Tok, Types
  <2>2. <<x, y>> \in Seq(Tok) /\ Len(<<x, y>>) = 2
    OBVIOUS
  <2> QED BY <2>1, <2>2 DEF Vless!Uuid
<1>3. PICK c \in Seq(Tok) : c = Vless!Padded(content, 0, FALSE)
  <2>1. PICK zero \in 0 .. 2 : zero = 0
    OBVIOUS
  <2>2. Vless!Padded(content, zero, FALSE) \in Seq(Tok)
    BY PaddedDecodes
  <2> QED BY <2>1, <2>2
<1>4. Vless!Padded(content, 0, TRUE) = u \o c
  <2>1. PICK pad \in Seq(Tok) : pad = IF l < 2 THEN <<<<"zero", 0>>>> ELSE << >>
    <3>1. PICK z \in Tok : z = <<"zero", 0>>
      BY DEF Tok, Types
    <3>2. <<z>> \in Seq(Tok) /\ << >> \in Seq(Tok)
      BY EmptySeq
    <3> QED BY <3>1, <3>2
  <2>2. PICK hd \in Seq(Tok) : hd = Vless!Header(0, l % Width, Len(pad))
    <3>1. PICK m \in Nat, k \in Nat : m = l % Width /\ k = Len(pad)
      BY <1>1, LenProperties, Fits
    <3>2. PICK x \in Tok, y \in Tok, z \in Tok :
            x = <<"command", 0>> /\ y = <<"content", m>> /\ z = <<"padding", k>>
      BY DEF Tok, Types
    <3>3. <<x, y, z>> \in Seq(Tok)
      OBVIOUS
    <3> QED BY <3>1, <3>2, <3>3 DEF Vless!Header
  <2>3. Vless!Padded(content, 0, TRUE) = u \o hd \o content \o pad
    BY <1>1, <1>2, <2>1, <2>2 DEF Vless!Padded
  <2>4. Vless!Padded(content, 0, FALSE) = << >> \o hd \o content \o pad
    BY <1>1, <2>1, <2>2 DEF Vless!Padded
  <2>5. << >> \o hd = hd
    BY ConcatEmpty
  <2>6. PICK a \in Seq(Tok) : a = hd \o content
    BY ConcatProperties
  <2>7. u \o hd \o content = u \o a
    <3>1. Regroups(u, hd, content)
      BY Regroup
    <3> QED BY <2>6, <3>1 DEF Regroups
  <2>8. (u \o a) \o pad = u \o (a \o pad)
    <3>1. Regroups(u, a, pad)
      BY Regroup
    <3> QED BY <3>1 DEF Regroups
  <2> QED BY <1>3, <2>3, <2>4, <2>5, <2>6, <2>7, <2>8
<1>5. PICK w \in Seq(Tok) : w = u \o c
  BY ConcatProperties
<1>6. PICK p \in Nat, q \in Nat, j \in Nat : p = 0 /\ q = 2 /\ j = q + 1 /\ j = 3 /\ p + 1 = 1
  OBVIOUS
<1>7. Win(w, p, q) = Win(u, p, q) /\ Win(u, p, q) = u
  <2>1. p <= q /\ q <= Len(u)
    BY <1>2, <1>6
  <2>2. Win(w, p, q) = Win(u, p, q)
    BY <1>5, <2>1, FrontOfConcat
  <2>3. /\ Win(u, p, q) \in Seq(Tok) /\ Len(Win(u, p, q)) = q - p
        /\ \A i \in 1 .. q - p : Win(u, p, q)[i] = u[p + i]
    BY <2>1, WinFacts
  <2>4. /\ Len(Win(u, p, q)) = Len(u)
        /\ \A i \in 1 .. Len(Win(u, p, q)) : Win(u, p, q)[i] = u[i]
    BY <1>2, <1>6, <2>3
  <2> QED BY <2>2, <2>3, <2>4, SeqEqual
<1>8. SubSeq(w, 1, 2) = Vless!Uuid
  BY <1>2, <1>6, <1>7 DEF Win
<1>9. Vless!From(w, 3) = c
  <2>1. q <= Len(u) /\ j = q + 1
    BY <1>2, <1>6
  <2>2. Vless!From(u \o c, j) = Vless!From(u, j) \o c
    BY <2>1, RestOfConcat
  <2>3. j \in 1 .. Len(u) + 1
    BY <1>2, <1>6
  <2>4. Vless!From(u, j) \in Seq(Tok) /\ Len(Vless!From(u, j)) = Len(u) + 1 - j
    BY <2>3, FromFacts
  <2>5. Len(u) + 1 - j = 0
    BY <1>2, <1>6
  <2>6. Vless!From(u, j) = << >>
    BY <2>4, <2>5, EmptySeq
  <2>7. << >> \o c = c
    BY ConcatEmpty
  <2>8. Vless!From(w, j) = c
    BY <1>5, <2>2, <2>6, <2>7
  <2>9. j = 3
    BY <1>6
  <2> QED BY <2>8, <2>9
<1>10. Len(w) = 2 + Len(c) /\ Len(c) \in Nat
  <2>1. Len(c) \in Nat
    BY LenProperties
  <2>2. Len(w) = Len(u) + Len(c)
    BY <1>5, ConcatProperties
  <2> QED BY <1>2, <2>1, <2>2
<1>11. Start(w) = Vless!UnpadBlocks(c)
  <2>1. ~(Len(w) < 2)
    BY <1>10
  <2> QED BY <1>8, <1>9, <2>1 DEF Start
<1>12. PICK zero \in 0 .. 2 : zero = 0
  OBVIOUS
<1>13. Vless!UnpadBlocks(Vless!Padded(content, zero, FALSE))
         = Vless!Push(IF zero = 0 THEN "padding" ELSE "raw", none, content)
  BY PaddedDecodes
<1> QED BY <1>2, <1>3, <1>4, <1>5, <1>11, <1>12, <1>13

-----------------------------------------------------------------------------
(* Two sequences in one.                                                   *)
LEMMA ConcatFacts ==
  ASSUME NEW S, NEW s \in Seq(S), NEW t \in Seq(S), NEW k, NEW l, k = Len(s), l = Len(t)
  PROVE  /\ k \in Nat /\ l \in Nat
         /\ s \o t \in Seq(S) /\ Len(s \o t) = k + l
         /\ \A i \in 1 .. k : (s \o t)[i] = s[i]
         /\ \A i \in 1 .. l : (s \o t)[k + i] = t[i]
<1>1. k \in Nat /\ l \in Nat
  BY LenProperties
<1>2. PICK c : c = s \o t
  OBVIOUS
<1>3. /\ c \in Seq(S) /\ Len(c) = Len(s) + Len(t)
      /\ \A i \in 1 .. Len(s) + Len(t) : c[i] = IF i <= Len(s) THEN s[i] ELSE t[i - Len(s)]
  BY <1>2, ConcatProperties
<1>4. \A i \in 1 .. k : c[i] = s[i]
  BY <1>1, <1>3
<1>5. \A i \in 1 .. l : c[k + i] = t[i]
  <2> SUFFICES ASSUME NEW i \in 1 .. l PROVE c[k + i] = t[i]
    OBVIOUS
  <2>1. PICK j \in 1 .. k + l : j = k + i /\ ~(j <= k) /\ j - k = i
    BY <1>1
  <2>2. c[j] = t[j - k]
    BY <1>3, <2>1
  <2> QED BY <2>1, <2>2
<1> QED BY <1>1, <1>2, <1>3, <1>4, <1>5

(* The stream that bridge_vless_stream reads: the answer itself, or what   *)
(* the transport's bridge makes of it.                                     *)
Stream(T) == IF kind \in Vless!Bare THEN T ELSE Logical
HeadLen(L) == IF L[1] = <<"version", 0>> THEN 3 ELSE 0
Decoded(s) ==
  IF kind \in Vless!Vision THEN Start(s)
  ELSE [state |-> Vless!FirstUnpadding, out |-> s]

(* The user's units in order; nothing that was written below TLS.          *)
Numbered(s) == \A i \in 1 .. Len(s) : s[i] = <<"plain", i>>
NoBare(s) == \A i \in 1 .. Len(s) : s[i][1] # "bare"

(* What is to be read in TLS decodes to the payload, and nothing of it is  *)
(* kept in the end.                                                        *)
Delivers(L, e) ==
  /\ e = Len(L) \/ (e + 1 = Len(L) /\ L[e + 1][1] = "bare")
  /\ \A i \in 1 .. e : L[i][1] # "bare"
  /\ Decoded(Win(L, HeadLen(L), e)).out \in Seq(Tok)
  /\ Numbered(Decoded(Win(L, HeadLen(L), e)).out)
  /\ Decoded(Win(L, HeadLen(L), e)).state.mode # "padding"
StreamOK(L) ==
  /\ L \in Seq(Tok) /\ Len(L) >= 2
  /\ L[1] = <<"version", 0>> => Len(L) >= 3 /\ L[2][2] > 0
  /\ kind \in Vless!Vision => L[1] = <<"version", 0>>
  /\ \E e \in HeadLen(L) .. Len(L) : e >= 2 /\ Delivers(L, e)

(* The response header.                                                    *)
LEMMA ResponseIs ==
  \E r \in Seq(Tok) :
    /\ r = Vless!Response /\ Len(r) = 3 /\ r[1] = <<"version", 0>> /\ r[2][2] = 1 /\ NoBare(r)
<1>1. PICK v \in Tok, w \in Tok, x \in Tok :
        v = <<"version", 0>> /\ w = <<"addons", 1>> /\ x = <<"addon", 0>>
  BY DEF Tok, Types
<1>2. <<v, w, x>> \in Seq(Tok)
  OBVIOUS
<1>3. PICK r \in Seq(Tok) : r = <<v, w, x>>
  BY <1>2
<1>4. Len(r) = 3 /\ r[1] = v /\ r[2] = w /\ r[3] = x
  BY <1>3
<1>5. \A i \in 1 .. 3 : i = 1 \/ i = 2 \/ i = 3
  OBVIOUS
<1>6. v[1] # "bare" /\ w[1] # "bare" /\ x[1] # "bare" /\ w[2] = 1
  BY <1>1
<1>7. NoBare(r)
  BY <1>4, <1>5, <1>6 DEF NoBare
<1> QED BY <1>1, <1>3, <1>4, <1>6, <1>7 DEF Vless!Response

(* Nothing in two sequences that is below TLS.                             *)
LEMMA NoBareConcat ==
  ASSUME NEW s \in Seq(Tok), NEW t \in Seq(Tok), NoBare(s), NoBare(t)
  PROVE  NoBare(s \o t)
<1>1. PICK k \in Nat, l \in Nat : k = Len(s) /\ l = Len(t)
  BY LenProperties
<1>2. /\ Len(s \o t) = k + l
      /\ \A i \in 1 .. k : (s \o t)[i] = s[i]
      /\ \A i \in 1 .. l : (s \o t)[k + i] = t[i]
  BY <1>1, ConcatFacts
<1> SUFFICES ASSUME NEW i \in 1 .. k + l PROVE (s \o t)[i][1] # "bare"
  BY <1>2 DEF NoBare
<1>3. CASE i <= k
  BY <1>1, <1>2, <1>3 DEF NoBare
<1>4. CASE ~(i <= k)
  <2>1. PICK j \in 1 .. l : i = k + j
    <3>1. i - k \in 1 .. l
      BY <1>4
    <3> QED BY <3>1
  <2> QED BY <1>1, <1>2, <2>1 DEF NoBare
<1> QED BY <1>3, <1>4

(* A response header and then payload, of which only the end may be below  *)
(* TLS.                                                                    *)
LEMMA ResponseThen ==
  ASSUME NEW d \in Seq(Tok), NEW z \in Seq(Tok), NEW L, L = Vless!Response \o (d \o z),
         z = << >> \/ (Len(z) = 1 /\ z[1][1] = "bare"), NoBare(d),
         Decoded(d).out \in Seq(Tok), Numbered(Decoded(d).out),
         Decoded(d).state.mode # "padding"
  PROVE  StreamOK(L)
<1>1. PICK r \in Seq(Tok) :
        r = Vless!Response /\ Len(r) = 3 /\ r[1] = <<"version", 0>> /\ r[2][2] = 1 /\ NoBare(r)
  BY ResponseIs
<1>2. PICK f \in Seq(Tok) : f = r \o d
  BY ConcatProperties
<1>3. L = f \o z /\ L \in Seq(Tok)
  <2>1. (r \o d) \o z = r \o (d \o z)
    BY Associative
  <2>2. f \o z \in Seq(Tok)
    BY ConcatProperties
  <2> QED BY <1>1, <1>2, <2>1, <2>2
<1>4. PICK k \in Nat, m \in Nat : k = Len(d) /\ m = Len(z)
  BY LenProperties
<1>5. /\ Len(f) = 3 + k /\ \A i \in 1 .. 3 : f[i] = r[i]
      /\ \A i \in 1 .. k : f[3 + i] = d[i]
  <2>1. PICK t : t = Len(r)
    OBVIOUS
  <2>2. /\ Len(f) = t + k /\ \A i \in 1 .. t : f[i] = r[i]
        /\ \A i \in 1 .. k : f[t + i] = d[i]
    BY <1>2, <1>4, <2>1, ConcatFacts
  <2> QED BY <1>1, <2>1, <2>2
<1>6. /\ Len(L) = 3 + k + m /\ \A i \in 1 .. 3 + k : L[i] = f[i]
      /\ \A i \in 1 .. m : L[3 + k + i] = z[i]
  <2>1. PICK t : t = Len(f)
    OBVIOUS
  <2>2. /\ Len(L) = t + m /\ \A i \in 1 .. t : L[i] = f[i]
        /\ \A i \in 1 .. m : L[t + i] = z[i]
    BY <1>3, <1>4, <2>1, ConcatFacts
  <2> QED BY <1>5, <2>1, <2>2
<1>7. L[1] = <<"version", 0>> /\ L[2][2] = 1
  <2>1. 1 \in 1 .. 3 + k /\ 2 \in 1 .. 3 + k /\ 1 \in 1 .. 3 /\ 2 \in 1 .. 3
    OBVIOUS
  <2>2. L[1] = r[1] /\ L[2] = r[2]
    BY <1>5, <1>6, <2>1
  <2> QED BY <1>1, <2>2
<1>8. HeadLen(L) = 3
  BY <1>7 DEF HeadLen
<1>9. PICK p \in Nat, q \in Nat : p = 3 /\ q = 3 + k
  OBVIOUS
<1>10. Win(L, p, q) = d
  <2>1. p <= q /\ q <= Len(f)
    BY <1>5, <1>9
  <2>2. Win(f \o z, p, q) = Win(f, p, q)
    BY <2>1, FrontOfConcat
  <2>3. /\ Win(f, p, q) \in Seq(Tok) /\ Len(Win(f, p, q)) = q - p
        /\ \A i \in 1 .. q - p : Win(f, p, q)[i] = f[p + i]
    <3>1. p \in Nat /\ q \in Nat /\ f \in Seq(Tok)
      BY <1>2, <1>9
    <3>2. Part(Tok, f, p, q)
      BY <2>1, <3>1, WinPart
    <3> QED BY <3>2 DEF Part
  <2>4. PICK s \in Seq(Tok) : s = Win(f, p, q)
    BY <2>3
  <2>5. Len(s) = k /\ \A i \in 1 .. k : s[i] = f[p + i]
    <3>1. q - p = k
      BY <1>9
    <3> QED BY <2>3, <2>4, <3>1
  <2>6. Len(s) = Len(d) /\ \A i \in 1 .. Len(s) : s[i] = d[i]
    <3>1. \A i \in 1 .. k : s[i] = d[i]
      BY <1>5, <1>9, <2>5
    <3> QED BY <1>4, <2>5, <3>1
  <2>7. s = d
    BY <2>6, SeqEqual
  <2> QED BY <1>3, <2>2, <2>4, <2>7
<1>11. \A i \in 1 .. q : L[i][1] # "bare"
  <2>1. NoBare(f)
    BY <1>1, <1>2, NoBareConcat
  <2>2. ASSUME NEW i \in 1 .. q PROVE L[i] = f[i] /\ i \in 1 .. Len(f)
    <3>1. i \in 1 .. 3 + k
      BY <1>9
    <3> QED BY <1>5, <1>6, <1>9, <3>1
  <2> QED BY <2>1, <2>2 DEF NoBare
<1>12. q = Len(L) \/ (q + 1 = Len(L) /\ L[q + 1][1] = "bare")
  <2>1. CASE z = << >>
    <3>1. m = 0
      BY <1>4, <2>1, EmptySeq
    <3> QED BY <1>6, <1>9, <3>1
  <2>2. CASE Len(z) = 1 /\ z[1][1] = "bare"
    <3>1. m = 1 /\ 1 \in 1 .. m /\ q + 1 = 3 + k + 1
      BY <1>4, <1>9, <2>2
    <3>2. L[3 + k + 1] = z[1]
      BY <1>6, <3>1
    <3>3. L[q + 1] = z[1]
      BY <3>1, <3>2
    <3> QED BY <1>6, <1>9, <2>2, <3>1, <3>3
  <2> QED BY <2>1, <2>2
<1>13. Delivers(L, q) /\ q >= 2 /\ q \in HeadLen(L) .. Len(L)
  <2>1. q \in 3 .. Len(L) /\ q >= 2
    BY <1>6, <1>9
  <2>2. Win(L, HeadLen(L), q) = d
    BY <1>8, <1>9, <1>10
  <2> QED BY <1>8, <1>11, <1>12, <2>1, <2>2 DEF Delivers
<1>14. Len(L) >= 3 /\ L[2][2] > 0
  BY <1>6, <1>7
<1> QED BY <1>3, <1>7, <1>13, <1>14 DEF StreamOK

(* Payload.                                                                *)
LEMMA PlainIs ==
  ASSUME NEW n \in Nat, NEW m \in Nat, NEW l \in Nat, m + 1 = n + l, n >= 1
  PROVE  /\ Vless!Plain(n, m) \in Seq(Tok) /\ Len(Vless!Plain(n, m)) = l
         /\ NoBare(Vless!Plain(n, m))
         /\ \A i \in 1 .. l : Vless!Plain(n, m)[i] = <<"plain", n + i - 1>>
         /\ n = 1 => Numbered(Vless!Plain(n, m))
<1>1. m - n + 1 = l
  OBVIOUS
<1>2. PICK f : f = [i \in 1 .. l |-> <<"plain", n + i - 1>>]
  OBVIOUS
<1>3. \A i \in 1 .. l : n + i - 1 \in Nat
  OBVIOUS
<1>4. \A k \in Nat : <<"plain", k>> \in Tok
  BY DEF Tok, Types, Vless!Classes
<1>5. f \in [1 .. l -> Tok]
  BY <1>2, <1>3, <1>4
<1>6. f \in Seq(Tok) /\ Len(f) = l
  BY <1>5
<1>7. f = Vless!Plain(n, m)
  BY <1>1, <1>2 DEF Vless!Plain
<1>8. \A i \in 1 .. l : f[i] = <<"plain", n + i - 1>>
  BY <1>2
<1>9. NoBare(f)
  BY <1>6, <1>8 DEF NoBare
<1>10. n = 1 => Numbered(f)
  <2> SUFFICES ASSUME n = 1 PROVE Numbered(f)
    OBVIOUS
  <2>1. \A i \in 1 .. l : n + i - 1 = i
    OBVIOUS
  <2> QED BY <1>6, <1>8, <2>1 DEF Numbered
<1> QED BY <1>6, <1>7, <1>8, <1>9, <1>10

(* A block brings nothing that is below TLS.                               *)
LEMMA PaddedNoBare ==
  ASSUME NEW content \in Seq(Tok), NEW command \in 0 .. 2, NoBare(content),
         Len(content) < Width
  PROVE  NoBare(Vless!Padded(content, command, FALSE))
<1>1. PICK b \in Seq(Tok), k \in 0 .. 1 :
           /\ Vless!Padded(content, command, FALSE) = b
           /\ Len(b) = 3 + Len(content) + k
           /\ b[1] = <<"command", command>> /\ b[2] = <<"content", Len(content)>>
           /\ b[3] = <<"padding", k>>
           /\ \A i \in 1 .. Len(content) : b[3 + i] = content[i]
           /\ \A i \in 4 + Len(content) .. 3 + Len(content) + k : b[i] = <<"zero", 0>>
  BY PaddedIs
<1>2. PICK l \in Nat : l = Len(content)
  BY LenProperties
<1> SUFFICES ASSUME NEW i \in 1 .. 3 + l + k PROVE b[i][1] # "bare"
  BY <1>1, <1>2 DEF NoBare
<1>3. CASE i = 1 \/ i = 2 \/ i = 3
  BY <1>1, <1>3
<1>4. CASE i > 3 /\ i <= 3 + l
  <2>1. PICK j \in 1 .. l : i = 3 + j
    <3>1. i - 3 \in 1 .. l
      BY <1>4
    <3> QED BY <3>1
  <2> QED BY <1>1, <1>2, <2>1 DEF NoBare
<1>5. CASE i > 3 + l
  <2>1. i \in 4 + l .. 3 + l + k
    BY <1>5
  <2> QED BY <1>1, <1>2, <2>1
<1> QED BY <1>3, <1>4, <1>5

(* Payload without padding.                                                *)
LEMMA BareStart ==
  ASSUME NEW d \in Seq(Tok), Numbered(d)
  PROVE  /\ Start(d).out \in Seq(Tok) /\ Numbered(Start(d).out)
         /\ Start(d).state.mode # "padding"
<1>1. PICK l \in Nat : l = Len(d)
  BY LenProperties
<1>2. CASE l < 2
  <2>1. PICK none : none = << >> /\ none \in Seq(Tok) /\ Len(none) = 0
    BY EmptySeq
  <2>2. Start(d) = Vless!Push("unknown", d, none)
    BY <1>1, <1>2, <2>1 DEF Start
  <2>3. Start(d).out = none /\ Start(d).state.mode = "unknown"
    BY <2>2 DEF Vless!Push
  <2>4. Numbered(none)
    BY <2>1 DEF Numbered
  <2> QED BY <2>1, <2>3, <2>4
<1>3. CASE l >= 2
  <2>1. SubSeq(d, 1, 2)[1] = d[1]
    <3>1. PICK p \in Nat, q \in Nat : p = 0 /\ q = 2 /\ p + 1 = 1
      OBVIOUS
    <3>2. p <= q /\ q <= Len(d)
      BY <1>1, <1>3, <3>1
    <3>3. \A i \in 1 .. q - p : Win(d, p, q)[i] = d[p + i]
      BY <3>2, WinFacts
    <3>4. 1 \in 1 .. q - p
      BY <3>1
    <3> QED BY <3>1, <3>3, <3>4 DEF Win
  <2>2. d[1] = <<"plain", 1>>
    <3>1. 1 \in 1 .. Len(d)
      BY <1>1, <1>3
    <3> QED BY <3>1 DEF Numbered
  <2>3. Vless!Uuid[1] = <<"uuid", 1>>
    BY DEF Vless!Uuid
  <2>4. SubSeq(d, 1, 2) # Vless!Uuid
    BY <2>1, <2>2, <2>3
  <2>5. Start(d) = Vless!Push("raw", << >>, d)
    BY <1>1, <1>3, <2>4 DEF Start
  <2>6. Start(d).out = d /\ Start(d).state.mode = "raw"
    BY <2>5 DEF Vless!Push
  <2> QED BY <2>6
<1> QED BY <1>1, <1>2, <1>3

(* ... decodes to itself.                                                  *)
LEMMA PlainDecodes ==
  ASSUME NEW d \in Seq(Tok), Numbered(d)
  PROVE  /\ Decoded(d).out \in Seq(Tok) /\ Numbered(Decoded(d).out)
         /\ Decoded(d).state.mode # "padding"
<1>1. CASE kind \in Vless!Vision
  BY <1>1, BareStart DEF Decoded
<1>2. CASE kind \notin Vless!Vision
  BY <1>2 DEF Decoded, Vless!FirstUnpadding
<1> QED BY <1>1, <1>2

(* A read after whole blocks, and one after the end of the padding.        *)
LEMMA PushedAfter ==
  ASSUME NEW none, none = << >>, NEW o \in Seq(Tok), NEW t \in Seq(Tok)
  PROVE  /\ Pushed(Vless!Push("padding", none, o), t) = Ahead(Vless!UnpadBlocks(t), o)
         /\ Pushed(Vless!Push("raw", none, o), t) = Vless!Push("raw", none, o \o t)
<1>1. none \o t = t /\ none \in Seq(Tok)
  BY ConcatEmpty
<1>2. PICK n, r : n = none /\ n \in Seq(Tok) /\ n \o t = t /\ r = "raw"
  BY <1>1
<1>3. /\ Vless!PushDownlink([mode |-> "padding", pending |-> n], t) = Vless!UnpadBlocks(n \o t)
      /\ Vless!PushDownlink([mode |-> "raw", pending |-> n], t) = Vless!Push("raw", << >>, t)
  BY <1>2, PushDownlinkIs
<1>4. PICK x, y : x = Vless!Push("padding", none, o) /\ y = Vless!Push("raw", none, o)
  OBVIOUS
<1>5. /\ x.state = [mode |-> "padding", pending |-> n] /\ x.out = o
      /\ y.state = [mode |-> "raw", pending |-> n] /\ y.out = o
  BY <1>2, <1>4 DEF Vless!Push
<1>6. Pushed(x, t) = Ahead(Vless!UnpadBlocks(t), o)
  BY <1>2, <1>3, <1>5 DEF Pushed
<1>7. Pushed(y, t) = Ahead(Vless!Push("raw", << >>, t), o)
  BY <1>3, <1>5 DEF Pushed
<1>8. \A m, p, q : Ahead(Vless!Push(m, p, q), o) = Vless!Push(m, p, o \o q)
  BY OutIs
<1> QED BY <1>4, <1>6, <1>7, <1>8

(* The answer with padding, to the end of which command 1 or 2 is put.     *)
LEMMA PaddedAnswer ==
  ASSUME kind \in Vless!Vision, NEW c \in 1 .. 2, NEW z \in Tok,
         z = IF c = 2 THEN <<"bare", 3>> ELSE <<"plain", 3>>
  PROVE  StreamOK(Vless!Response \o Vless!Padded(Vless!Plain(1, 1), 0, TRUE)
                    \o Vless!Padded(Vless!Plain(2, 2), c, FALSE) \o <<z>>)
<1>1. PICK none : none = << >> /\ none \in Seq(Tok)
  BY EmptySeq
<1>2. PICK p \in Seq(Tok) : /\ p = Vless!Plain(1, 1) /\ Len(p) = 1
                            /\ p[1] = <<"plain", 1>> /\ NoBare(p)
  <2>1. PICK n \in Nat, l \in Nat : n = 1 /\ l = 1 /\ n + 1 = n + l /\ n >= 1
                                    /\ 1 \in 1 .. l /\ n + 1 - 1 = 1
    OBVIOUS
  <2>2. /\ Vless!Plain(n, n) \in Seq(Tok) /\ Len(Vless!Plain(n, n)) = l
        /\ NoBare(Vless!Plain(n, n))
        /\ \A i \in 1 .. l : Vless!Plain(n, n)[i] = <<"plain", n + i - 1>>
    BY <2>1, PlainIs
  <2> QED BY <2>1, <2>2
<1>3. PICK q \in Seq(Tok) : /\ q = Vless!Plain(2, 2) /\ Len(q) = 1
                            /\ q[1] = <<"plain", 2>> /\ NoBare(q)
  <2>1. PICK n \in Nat, l \in Nat : n = 2 /\ l = 1 /\ n + 1 = n + l /\ n >= 1
                                    /\ 1 \in 1 .. l /\ n + 1 - 1 = 2
    OBVIOUS
  <2>2. /\ Vless!Plain(n, n) \in Seq(Tok) /\ Len(Vless!Plain(n, n)) = l
        /\ NoBare(Vless!Plain(n, n))
        /\ \A i \in 1 .. l : Vless!Plain(n, n)[i] = <<"plain", n + i - 1>>
    BY ZenonT(40), <2>1, PlainIs
  <2> QED BY <2>1, <2>2
<1>4. PICK f \in Seq(Tok) : /\ f = Vless!Padded(p, 0, TRUE)
                            /\ Start(f) = Vless!Push("padding", none, p) /\ NoBare(f)
  <2>1. /\ Vless!Padded(p, 0, TRUE) \in Seq(Tok)
        /\ Start(Vless!Padded(p, 0, TRUE)) = Vless!Push("padding", none, p)
        /\ Vless!Padded(p, 0, TRUE) = Vless!Uuid \o Vless!Padded(p, 0, FALSE)
    BY <1>1, <1>2, WidthIs, FirstBlockDecodes
  <2>2. PICK zero \in 0 .. 2 : zero = 0
    OBVIOUS
  <2>3. Vless!Padded(p, zero, FALSE) \in Seq(Tok) /\ NoBare(Vless!Padded(p, zero, FALSE))
    BY <1>1, <1>2, WidthIs, PaddedDecodes, PaddedNoBare
  <2>4. PICK u \in Seq(Tok) : u = Vless!Uuid /\ NoBare(u)
    <3>1. PICK x \in Tok, y \in Tok : x = <<"uuid", 1>> /\ y = <<"uuid", 2>>
      BY DEF Tok, Types
    <3>2. <<x, y>> \in Seq(Tok)
      OBVIOUS
    <3>3. PICK v \in Seq(Tok) : v = <<x, y>>
      BY <3>2
    <3>4. Len(v) = 2 /\ v[1] = x /\ v[2] = y
      BY <3>3
    <3>5. NoBare(v)
      BY <3>1, <3>4 DEF NoBare
    <3> QED BY <3>1, <3>3, <3>5 DEF Vless!Uuid
  <2>5. NoBare(u \o Vless!Padded(p, 0, FALSE))
    BY <2>2, <2>3, <2>4, NoBareConcat
  <2> QED BY <2>1, <2>4, <2>5
<1>5. PICK g \in Seq(Tok) : /\ g = Vless!Padded(q, c, FALSE)
                            /\ Vless!UnpadBlocks(g) = Vless!Push("raw", none, q) /\ NoBare(g)
  <2>1. c \in 0 .. 2 /\ c # 0
    OBVIOUS
  <2>2. /\ Vless!Padded(q, c, FALSE) \in Seq(Tok)
        /\ Vless!UnpadBlocks(Vless!Padded(q, c, FALSE))
             = Vless!Push(IF c = 0 THEN "padding" ELSE "raw", none, q)
    BY <1>1, <1>3, <2>1, WidthIs, PaddedDecodes
  <2>3. NoBare(Vless!Padded(q, c, FALSE))
    BY <1>3, <2>1, WidthIs, PaddedNoBare
  <2> QED BY <2>1, <2>2, <2>3
<1>6. PICK d \in Seq(Tok), o \in Seq(Tok) : d = f \o g /\ o = p \o q
  BY ConcatProperties
<1>7. Start(d) = Vless!Push("raw", none, o) /\ NoBare(d)
  <2>1. Start(f \o g) = Pushed(Start(f), g)
    BY StartConcat
  <2>2. Pushed(Vless!Push("padding", none, p), g) = Ahead(Vless!UnpadBlocks(g), p)
    BY <1>1, PushedAfter
  <2>3. \A m, a, b : Ahead(Vless!Push(m, a, b), p) = Vless!Push(m, a, p \o b)
    BY OutIs
  <2>4. NoBare(f \o g)
    BY <1>4, <1>5, NoBareConcat
  <2> QED BY <1>4, <1>5, <1>6, <2>1, <2>2, <2>3, <2>4
<1>8. Len(o) = 2 /\ o[1] = <<"plain", 1>> /\ o[2] = <<"plain", 2>>
  <2>1. PICK k, l : k = Len(p) /\ l = Len(q)
    OBVIOUS
  <2>2. /\ Len(o) = k + l /\ \A i \in 1 .. k : o[i] = p[i]
        /\ \A i \in 1 .. l : o[k + i] = q[i]
    BY <1>6, <2>1, ConcatFacts
  <2> QED BY <1>2, <1>3, <2>1, <2>2
<1>9. PICK y \in Seq(Tok) : y = <<z>> /\ Len(y) = 1 /\ y[1] = z
  <2>1. <<z>> \in Seq(Tok)
    OBVIOUS
  <2>2. Len(<<z>>) = 1 /\ <<z>>[1] = z
    OBVIOUS
  <2> QED BY <2>1, <2>2
<1>10. Vless!Response \o f \o g \o y = Vless!Response \o (d \o y)
  <2>1. PICK r \in Seq(Tok) : r = Vless!Response
    BY ResponseIs
  <2>2. (r \o f) \o g = r \o d
    <3>1. Regroups(r, f, g)
      BY Regroup
    <3> QED BY <1>6, <3>1 DEF Regroups
  <2>3. (r \o d) \o y = r \o (d \o y)
    <3>1. Regroups(r, d, y)
      BY Regroup
    <3> QED BY <3>1 DEF Regroups
  <2> QED BY <2>1, <2>2, <2>3
<1>11. CASE c = 2
  <2>1. Decoded(d) = Vless!Push("raw", none, o)
    BY <1>7 DEF Decoded
  <2>2. Decoded(d).out = o /\ Decoded(d).state.mode = "raw"
    BY <2>1 DEF Vless!Push
  <2>3. Numbered(o)
    <3>1. \A i \in 1 .. 2 : i = 1 \/ i = 2
      OBVIOUS
    <3> QED BY <1>8, <3>1 DEF Numbered
  <2>4. y[1][1] = "bare"
    BY <1>9, <1>11
  <2>5. PICK L : L = Vless!Response \o (d \o y)
    OBVIOUS
  <2>6. Decoded(d).out \in Seq(Tok) /\ Numbered(Decoded(d).out) /\ Decoded(d).state.mode # "padding"
    BY <1>6, <2>2, <2>3
  <2>7. StreamOK(L)
    BY <1>7, <1>9, <2>4, <2>5, <2>6, ResponseThen
  <2> QED BY <1>2, <1>3, <1>4, <1>5, <1>9, <1>10, <2>5, <2>7
<1>12. CASE c = 1
  <2>1. PICK e \in Seq(Tok), v \in Seq(Tok) : e = d \o y /\ v = o \o y
    BY ConcatProperties
  <2>2. Decoded(e) = Vless!Push("raw", none, v)
    <3>1. Start(d \o y) = Pushed(Start(d), y)
      BY StartConcat
    <3>2. Pushed(Vless!Push("raw", none, o), y) = Vless!Push("raw", none, o \o y)
      BY <1>1, PushedAfter
    <3> QED BY <1>7, <2>1, <3>1, <3>2 DEF Decoded
  <2>3. Decoded(e).out = v /\ Decoded(e).state.mode = "raw"
    BY <2>2 DEF Vless!Push
  <2>4. Numbered(v)
    <3>1. PICK k, l : k = Len(o) /\ l = Len(y)
      OBVIOUS
    <3>2. /\ Len(v) = k + l /\ \A i \in 1 .. k : v[i] = o[i]
          /\ \A i \in 1 .. l : v[k + i] = y[i]
      <4>1. v = o \o y /\ o \in Seq(Tok) /\ y \in Seq(Tok)
        BY <1>6, <1>9, <2>1
      <4> QED BY SMTT(40), <3>1, <4>1, ConcatFacts
    <3>3. Len(v) = 3 /\ v[1] = <<"plain", 1>> /\ v[2] = <<"plain", 2>> /\ v[3] = z
      BY <1>8, <1>9, <3>1, <3>2
    <3>4. \A i \in 1 .. 3 : i = 1 \/ i = 2 \/ i = 3
      OBVIOUS
    <3> QED BY <1>12, <3>3, <3>4 DEF Numbered
  <2>5. NoBare(e)
    <3>1. NoBare(y)
      BY <1>9, <1>12 DEF NoBare
    <3> QED BY <1>7, <2>1, <3>1, NoBareConcat
  <2>6. e \o none = e
    BY <1>1, ConcatEmpty
  <2>7. PICK L : L = Vless!Response \o (e \o none)
    OBVIOUS
  <2>8. Decoded(e).out \in Seq(Tok) /\ Numbered(Decoded(e).out) /\ Decoded(e).state.mode # "padding"
    BY <2>1, <2>3, <2>4
  <2>9. StreamOK(L)
    BY <1>1, <2>5, <2>7, <2>8, ResponseThen
  <2> QED BY <1>2, <1>3, <1>4, <1>5, <1>9, <1>10, <2>1, <2>6, <2>7, <2>9
<1>13. c = 1 \/ c = 2
  OBVIOUS
<1> QED BY <1>11, <1>12, <1>13

(* An answer without padding.                                              *)
LEMMA PlainAnswer ==
  ASSUME NEW m \in Nat, m >= 1
  PROVE  StreamOK(Vless!Response \o Vless!Plain(1, m))
<1>1. PICK n \in Nat : n = 1 /\ m + 1 = n + m /\ n >= 1
  OBVIOUS
<1>2. PICK d \in Seq(Tok) : d = Vless!Plain(1, m) /\ NoBare(d) /\ Numbered(d)
  BY <1>1, PlainIs
<1>3. PICK none \in Seq(Tok) : none = << >>
  BY EmptySeq
<1>4. d \o none = d
  BY <1>3, ConcatEmpty
<1>5. PICK L : L = Vless!Response \o (d \o none)
  OBVIOUS
<1>6. Decoded(d).out \in Seq(Tok) /\ Numbered(Decoded(d).out) /\ Decoded(d).state.mode # "padding"
  BY <1>2, PlainDecodes
<1>7. StreamOK(L)
  BY <1>2, <1>3, <1>5, <1>6, ResponseThen
<1> QED BY <1>2, <1>4, <1>5, <1>7

(* An answer of a peer that does not speak VLESS: all of it is payload.    *)
LEMMA NoHeaderAnswer ==
  ASSUME kind \notin Vless!Vision
  PROVE  StreamOK(Vless!Plain(1, 3))
<1>1. PICK n \in Nat, m \in Nat : n = 1 /\ m = 3 /\ m + 1 = n + m /\ n >= 1 /\ n + 1 - 1 = 1
                                  /\ 1 \in 1 .. m
  OBVIOUS
<1>2. PICK d \in Seq(Tok) : /\ d = Vless!Plain(n, m) /\ NoBare(d) /\ Numbered(d) /\ Len(d) = m
                            /\ d[1] = <<"plain", n + 1 - 1>>
  <2>1. m + 1 = n + m /\ n >= 1 /\ n = 1 /\ 1 \in 1 .. m /\ n \in Nat /\ m \in Nat
    BY <1>1
  <2>2. PICK d : d = Vless!Plain(n, m)
    OBVIOUS
  <2>3. /\ d \in Seq(Tok) /\ Len(d) = m /\ NoBare(d)
        /\ \A i \in 1 .. m : d[i] = <<"plain", n + i - 1>>
        /\ n = 1 => Numbered(d)
    <3>1. m + 1 = n + m /\ n >= 1 /\ n \in Nat /\ m \in Nat
      BY <2>1
    <3> QED BY <2>2, <3>1, PlainIs
  <2> QED BY <2>1, <2>2, <2>3
<1>3. d[1] = <<"plain", 1>> /\ d[1] # <<"version", 0>> /\ Len(d) = 3
  <2>1. d[1] = <<"plain", 1>>
    BY <1>1, <1>2
  <2>2. d[1][1] # "version"
    BY <2>1
  <2> QED BY <1>1, <1>2, <2>1, <2>2
<1>4. HeadLen(d) = 0
  BY <1>3 DEF HeadLen
<1>5. PICK p \in Nat : p = 0
  OBVIOUS
<1>6. Win(d, p, m) = d
  <2>1. p <= m /\ m <= Len(d) /\ m - p = m /\ \A i \in 1 .. m : p + i = i
    <3>1. m = 3 /\ Len(d) = m /\ p = 0
      BY <1>1, <1>2, <1>5
    <3> QED BY <3>1
  <2>2. /\ Win(d, p, m) \in Seq(Tok) /\ Len(Win(d, p, m)) = m - p
        /\ \A i \in 1 .. m - p : Win(d, p, m)[i] = d[p + i]
    <3>1. p \in Nat /\ m \in Nat /\ d \in Seq(Tok) /\ p <= m /\ m <= Len(d)
      BY <1>1, <1>2, <1>5, <2>1
    <3> QED BY <3>1, WinFacts
  <2>3. Len(Win(d, p, m)) = Len(d)
        /\ \A i \in 1 .. Len(Win(d, p, m)) : Win(d, p, m)[i] = d[i]
    BY <1>2, <2>1, <2>2
  <2> QED BY <2>2, <2>3, SeqEqual
<1>7. Decoded(d).out \in Seq(Tok) /\ Numbered(Decoded(d).out) /\ Decoded(d).state.mode # "padding"
  BY <1>2, PlainDecodes
<1>8. Delivers(d, m)
  <2>1. Win(d, HeadLen(d), m) = d
    BY <1>4, <1>5, <1>6
  <2> QED BY <1>2, <1>7, <2>1 DEF Delivers, NoBare
<1>9. m >= 2 /\ m \in HeadLen(d) .. Len(d)
  BY <1>1, <1>2, <1>4
<1> QED BY <1>1, <1>2, <1>3, <1>8, <1>9 DEF StreamOK

(* What the bridge of a transport hands on.                                *)
LEMMA LogicalOK == StreamOK(Logical)
<1>1. PICK m \in Nat : m = 2 /\ m >= 1
  OBVIOUS
<1>2. StreamOK(Vless!Response \o Vless!Plain(1, m))
  BY <1>1, PlainAnswer
<1> QED BY <1>1, <1>2 DEF Logical

(* Each answer of Answers is one of these.                                 *)
LEMMA StreamsOK ==
  ASSUME NEW T \in Vless!Answers(kind)
  PROVE  StreamOK(Stream(T))
<1>1. CASE kind \notin Vless!Bare
  BY <1>1, LogicalOK DEF Stream
<1>2. CASE kind = "tcp"
  <2>1. T = Logical \/ T = Vless!Plain(1, 3)
    BY <1>2 DEF Vless!Answers, Logical
  <2>2. kind \notin Vless!Vision /\ kind \in Vless!Bare
    BY <1>2 DEF Vless!Vision, Vless!Bare
  <2> QED BY <2>1, <2>2, LogicalOK, NoHeaderAnswer DEF Stream
<1>3. CASE kind = "vision_tls"
  <2>1. T = Vless!Response \o Vless!Plain(1, 1)
    BY <1>3 DEF Vless!Answers
  <2>2. kind \in Vless!Bare
    BY <1>3 DEF Vless!Vision, Vless!Bare
  <2>3. PICK m \in Nat : m = 1 /\ m >= 1
    OBVIOUS
  <2>4. StreamOK(Vless!Response \o Vless!Plain(1, m))
    BY <2>3, PlainAnswer
  <2> QED BY <2>1, <2>2, <2>3, <2>4 DEF Stream
<1>4. CASE kind = "vision"
  <2>1. \/ T = Logical
        \/ \E c \in 1 .. 2 :
             T = Vless!Response \o Vless!Padded(Vless!Plain(1, 1), 0, TRUE)
                    \o Vless!Padded(Vless!Plain(2, 2), c, FALSE)
                    \o <<IF c = 2 THEN <<"bare", 3>> ELSE <<"plain", 3>>>>
    BY <1>4 DEF Vless!Answers, Logical
  <2>2. kind \in Vless!Bare /\ kind \in Vless!Vision
    BY <1>4 DEF Vless!Vision, Vless!Bare
  <2>3. CASE T = Logical
    BY <2>2, <2>3, LogicalOK DEF Stream
  <2>4. ASSUME NEW c \in 1 .. 2,
               T = Vless!Response \o Vless!Padded(Vless!Plain(1, 1), 0, TRUE)
                    \o Vless!Padded(Vless!Plain(2, 2), c, FALSE)
                    \o <<IF c = 2 THEN <<"bare", 3>> ELSE <<"plain", 3>>>>
        PROVE  StreamOK(T)
    <3>1. PICK z \in Tok : z = IF c = 2 THEN <<"bare", 3>> ELSE <<"plain", 3>>
      <4>1. <<"bare", 3>> \in Tok /\ <<"plain", 3>> \in Tok
        BY DEF Tok, Types, Vless!Classes
      <4> QED BY <4>1
    <3>2. StreamOK(Vless!Response \o Vless!Padded(Vless!Plain(1, 1), 0, TRUE)
                    \o Vless!Padded(Vless!Plain(2, 2), c, FALSE) \o <<z>>)
      BY <2>2, <3>1, PaddedAnswer
    <3> QED BY <2>4, <3>1, <3>2
  <2> QED BY <2>1, <2>2, <2>3, <2>4 DEF Stream
<1> QED BY <1>1, <1>2, <1>3, <1>4 DEF Vless!Bare, Vless!Vision

-----------------------------------------------------------------------------
(* A gRPC hunk: whether r begins with one that is whole and not compressed,*)
(* what is in it, and what comes behind it.                                *)
HunkLength(r) == 2 + r[2][2]
HunkStops(r) == Len(r) < 2 \/ r[1] # <<"flag", 0>> \/ Len(r) < HunkLength(r)
HunkContent(r) == SubSeq(r, 3, 2 + r[2][2])
HunkBehind(r) == Vless!From(r, 1 + HunkLength(r))

(* The parts of a hunk that is whole.                                      *)
LEMMA HunkFacts ==
  ASSUME NEW r \in Seq(Tok), ~HunkStops(r)
  PROVE  /\ Len(r) >= 2 /\ HunkLength(r) \in Nat /\ HunkLength(r) >= 2
         /\ HunkLength(r) <= Len(r)
         /\ r[2][2] \in Nat /\ HunkLength(r) = 2 + r[2][2]
         /\ HunkBehind(r) \in Seq(Tok) /\ Len(HunkBehind(r)) = Len(r) - HunkLength(r)
         /\ HunkContent(r) \in Seq(Tok) /\ Len(HunkContent(r)) = r[2][2]
         /\ \A i \in 1 .. r[2][2] : HunkContent(r)[i] = r[2 + i]
<1>1. Len(r) \in Nat /\ Len(r) >= 2 /\ ~(Len(r) < HunkLength(r))
  BY LenProperties DEF HunkStops
<1>2. r[2] \in Tok
  <2>1. 2 \in 1 .. Len(r)
    BY <1>1
  <2> QED BY <2>1, ElementOfSeq
<1>3. PICK c \in Nat : c = r[2][2]
  BY <1>2 DEF Tok
<1>4. PICK b \in Nat : b = HunkLength(r) /\ b = 2 + c /\ b <= Len(r)
  BY <1>1, <1>3 DEF HunkLength
<1>5. PICK j \in 1 .. Len(r) + 1 : j = 1 + b
  BY <1>1, <1>4
<1>6. Vless!From(r, j) \in Seq(Tok) /\ Len(Vless!From(r, j)) = Len(r) + 1 - j
  BY FromFacts
<1>7. HunkBehind(r) \in Seq(Tok) /\ Len(HunkBehind(r)) = Len(r) - b
  BY <1>1, <1>4, <1>5, <1>6 DEF HunkBehind
<1>8. PICK p \in Nat : p = 2
  OBVIOUS
<1>9. p <= b /\ b <= Len(r) /\ b - p = c
  BY <1>4, <1>8
<1>10. /\ Win(r, p, b) \in Seq(Tok) /\ Len(Win(r, p, b)) = b - p
       /\ \A i \in 1 .. b - p : Win(r, p, b)[i] = r[p + i]
  <2>1. p <= b /\ b <= Len(r)
    BY <1>9
  <2> QED BY <2>1, WinFacts
<1>11. Win(r, p, b) = HunkContent(r)
  <2>1. p + 1 = 3
    BY <1>8
  <2> QED BY <1>3, <1>4, <2>1 DEF Win, HunkContent
<1> QED BY <1>1, <1>3, <1>4, <1>7, <1>8, <1>9, <1>10, <1>11

(* One hunk at a time.                                                     *)
HunkScan(f, s) ==
  f = [i \in 1 .. Len(s) + 1 |->
         LET r == Vless!From(s, i) IN
         IF HunkStops(r) THEN [pending |-> r, out |-> << >>]
         ELSE [f[i + HunkLength(r)] EXCEPT !.out = HunkContent(r) \o @]]

(* There is one such function.                                             *)
LEMMA HunkScanFacts ==
  ASSUME NEW s \in Seq(Tok)
  PROVE  /\ \E f : HunkScan(f, s)
         /\ \A f, g : HunkScan(f, s) /\ HunkScan(g, s) => f = g
         /\ \A i \in 1 .. Len(s) + 1 : ~HunkStops(Vless!From(s, i)) =>
              /\ HunkLength(Vless!From(s, i)) \in Nat
              /\ i + HunkLength(Vless!From(s, i)) \in i + 1 .. Len(s) + 1
<1> DEFINE n == Len(s) + 1
           D == { i \in 1 .. n : HunkStops(Vless!From(s, i)) }
           next == [i \in 1 .. n |-> i + HunkLength(Vless!From(s, i))]
           base == [i \in 1 .. n |-> [pending |-> Vless!From(s, i), out |-> << >>]]
           front == [i \in 1 .. n |-> HunkContent(Vless!From(s, i))]
<1>1. n \in Nat
  BY LenProperties
<1>2. \A f : HunkScan(f, s) <=> Scans(f, n, D, next, base, front)
  <2> SUFFICES ASSUME NEW f
               PROVE  HunkScan(f, s) <=> Scans(f, n, D, next, base, front)
    OBVIOUS
  <2> DEFINE r(i) == Vless!From(s, i)
             a == [i \in 1 .. n |->
                     IF HunkStops(r(i)) THEN [pending |-> r(i), out |-> << >>]
                     ELSE [f[i + HunkLength(r(i))] EXCEPT !.out = HunkContent(r(i)) \o @]]
             b == [i \in 1 .. n |-> IF i \in D THEN base[i]
                                    ELSE [f[next[i]] EXCEPT !.out = front[i] \o @]]
  <2>1. HunkScan(f, s) <=> f = a
    BY DEF HunkScan
  <2>2. Scans(f, n, D, next, base, front) <=> f = b
    BY DEF Scans
  <2>3. a = b
    <3> HIDE DEF n
    <3>1. \A i \in 1 .. n : (i \in D <=> HunkStops(r(i)))
            /\ base[i] = [pending |-> r(i), out |-> << >>]
            /\ next[i] = i + HunkLength(r(i)) /\ front[i] = HunkContent(r(i))
      OBVIOUS
    <3> HIDE DEF D, base, next, front, r
    <3> QED BY <3>1
  <2> QED BY <2>1, <2>2, <2>3
<1>3. ASSUME NEW i \in 1 .. n, ~HunkStops(Vless!From(s, i))
      PROVE  /\ HunkLength(Vless!From(s, i)) \in Nat
             /\ i + HunkLength(Vless!From(s, i)) \in i + 1 .. n
  <2>1. PICK r \in Seq(Tok) : r = Vless!From(s, i) /\ Len(r) = n - i
    BY <1>1, FromFacts
  <2>2. PICK b \in Nat, l \in Nat : b = HunkLength(r) /\ b >= 2 /\ l = Len(r) /\ b <= l
    BY <1>3, <2>1, HunkFacts, LenProperties
  <2>3. i + b \in i + 1 .. n
    BY <1>1, <2>1, <2>2
  <2> QED BY <2>1, <2>2, <2>3
<1>4. \A i \in 1 .. n : i \notin D => next[i] \in i + 1 .. n
  BY <1>3
<1> HIDE DEF n, D, next, base, front
<1>5. /\ \E f : Scans(f, n, D, next, base, front)
      /\ \A f, g : Scans(f, n, D, next, base, front) /\ Scans(g, n, D, next, base, front)
                     => f = g
  BY <1>1, <1>4, ScanFacts
<1>6. \A i \in 1 .. n : ~HunkStops(Vless!From(s, i)) =>
        /\ HunkLength(Vless!From(s, i)) \in Nat
        /\ i + HunkLength(Vless!From(s, i)) \in i + 1 .. n
  BY <1>3
<1> QED BY <1>2, <1>5, <1>6 DEF n

(* A scan of the rest is the rest of the scan.                             *)
LEMMA HunkScanShift ==
  ASSUME NEW s \in Seq(Tok), NEW j \in 1 .. Len(s) + 1, NEW f, NEW g, HunkScan(f, s),
         HunkScan(g, Vless!From(s, j))
  PROVE  f[j] = g[1]
<1>1. PICK t \in Seq(Tok), n \in Nat, m \in Nat :
        /\ t = Vless!From(s, j) /\ n = Len(s) + 1 /\ m = Len(t) + 1 /\ m = n - j + 1
  BY FromFacts, LenProperties
<1> DEFINE h == [i \in 1 .. m |-> f[j + i - 1]]
<1>2. HunkScan(h, t)
  <2>1. ASSUME NEW i \in 1 .. m
        PROVE  h[i] = LET r == Vless!From(t, i) IN
                      IF HunkStops(r) THEN [pending |-> r, out |-> << >>]
                      ELSE [h[i + HunkLength(r)] EXCEPT !.out = HunkContent(r) \o @]
    <3>1. PICK k \in 1 .. n : k = j + i - 1
      BY <1>1
    <3>2. PICK r : r = Vless!From(t, i) /\ r = Vless!From(s, k)
      <4>1. i \in 1 .. Len(s) + 2 - j
        BY <1>1
      <4>2. Vless!From(Vless!From(s, j), i) = Vless!From(s, j + i - 1)
        BY <4>1, FromFacts
      <4> QED BY <1>1, <3>1, <4>2
    <3>3. f[k] = IF HunkStops(r) THEN [pending |-> r, out |-> << >>]
                 ELSE [f[k + HunkLength(r)] EXCEPT !.out = HunkContent(r) \o @]
      BY ZenonT(60), <1>1, <3>2 DEF HunkScan
    <3>4. h[i] = f[k]
      BY <3>1
    <3>5. ~HunkStops(r) => h[i + HunkLength(r)] = f[k + HunkLength(r)]
      <4> SUFFICES ASSUME ~HunkStops(r)
                   PROVE  h[i + HunkLength(r)] = f[k + HunkLength(r)]
        OBVIOUS
      <4>1. PICK b \in Nat : b = HunkLength(r) /\ i + b \in i + 1 .. m
        BY <1>1, <3>2, HunkScanFacts
      <4>2. i + b \in 1 .. m /\ j + (i + b) - 1 = k + b
        BY <3>1, <4>1
      <4>3. h[i + b] = f[k + b]
        BY <4>2
      <4> QED BY <4>1, <4>3
    <3> HIDE DEF h
    <3> QED BY <3>2, <3>3, <3>4, <3>5
  <2>2. h = [i \in 1 .. m |-> h[i]]
    OBVIOUS
  <2> HIDE DEF h
  <2>3. h = [i \in 1 .. m |-> LET r == Vless!From(t, i) IN
                      IF HunkStops(r) THEN [pending |-> r, out |-> << >>]
                      ELSE [h[i + HunkLength(r)] EXCEPT !.out = HunkContent(r) \o @]]
    BY <2>1, <2>2
  <2> QED BY <1>1, <2>3 DEF HunkScan
<1> HIDE DEF h
<1>3. h = g
  BY <1>1, <1>2, HunkScanFacts
<1>4. h[1] = f[j]
  <2>1. 1 \in 1 .. m /\ j + 1 - 1 = j
    BY <1>1, LenProperties
  <2> QED BY <2>1 DEF h
<1> QED BY <1>3, <1>4

(* What the loop of GrpcHunkDecoder.push computes is that function, at 1.  *)
LEMMA HunkIsScan ==
  ASSUME NEW p \in Seq(Tok), NEW d \in Seq(Tok), NEW s, s = p \o d
  PROVE  \E f : HunkScan(f, s) /\ Vless!PushHunks(p, d) = f[1]
<1> DEFINE Orig(f) ==
             f = [i \in 1 .. Len(s) + 1 |->
        LET rest == Vless!From(s, i) IN
        IF Len(rest) < 2 \/ rest[1] # <<"flag", 0>> \/ Len(rest) < 2 + rest[2][2]
        THEN [pending |-> rest, out |-> << >>]
        ELSE [f[i + 2 + rest[2][2]] EXCEPT
                !.out = SubSeq(rest, 3, 2 + rest[2][2]) \o @]]
           scanned == CHOOSE f : Orig(f)
<1>1. s \in Seq(Tok) /\ Len(s) \in Nat
  BY ConcatProperties, LenProperties
<1>2. Vless!PushHunks(p, d) = scanned[1]
  BY DEF Vless!PushHunks
<1>3. ASSUME NEW f PROVE Orig(f) <=> HunkScan(f, s)
  <2> DEFINE orig(i) ==
        LET rest == Vless!From(s, i) IN
        IF Len(rest) < 2 \/ rest[1] # <<"flag", 0>> \/ Len(rest) < 2 + rest[2][2]
        THEN [pending |-> rest, out |-> << >>]
        ELSE [f[i + 2 + rest[2][2]] EXCEPT
                !.out = SubSeq(rest, 3, 2 + rest[2][2]) \o @]
             mine(i) ==
        LET r == Vless!From(s, i) IN
        IF HunkStops(r) THEN [pending |-> r, out |-> << >>]
        ELSE [f[i + HunkLength(r)] EXCEPT !.out = HunkContent(r) \o @]
  <2>1. ASSUME NEW i \in 1 .. Len(s) + 1 PROVE orig(i) = mine(i)
    <3>1. PICK r \in Seq(Tok) : r = Vless!From(s, i)
      BY <1>1, FromFacts
    <3>2. orig(i) = IF HunkStops(r) THEN [pending |-> r, out |-> << >>]
                    ELSE [f[i + 2 + r[2][2]] EXCEPT !.out = HunkContent(r) \o @]
      BY <3>1 DEF HunkStops, HunkLength, HunkContent
    <3>3. ~HunkStops(r) => i + 2 + r[2][2] = i + HunkLength(r)
      <4> SUFFICES ASSUME ~HunkStops(r) PROVE i + 2 + r[2][2] = i + HunkLength(r)
        OBVIOUS
      <4>1. PICK c \in Nat : c = r[2][2] /\ HunkLength(r) = 2 + c
        BY HunkFacts
      <4>2. i + 2 + c = i + (2 + c)
        OBVIOUS
      <4> QED BY <4>1, <4>2
    <3>4. mine(i) = IF HunkStops(r) THEN [pending |-> r, out |-> << >>]
                    ELSE [f[i + HunkLength(r)] EXCEPT !.out = HunkContent(r) \o @]
      BY <3>1
    <3> HIDE DEF orig, mine
    <3> QED BY <3>2, <3>3, <3>4
  <2> HIDE DEF orig, mine
  <2>2. [i \in 1 .. Len(s) + 1 |-> orig(i)] = [i \in 1 .. Len(s) + 1 |-> mine(i)]
    BY <2>1
  <2>3. Orig(f) <=> f = [i \in 1 .. Len(s) + 1 |-> orig(i)]
    BY DEF orig
  <2>4. HunkScan(f, s) <=> f = [i \in 1 .. Len(s) + 1 |-> mine(i)]
    BY DEF mine, HunkScan
  <2> QED BY <2>2, <2>3, <2>4
<1>4. Orig(scanned)
  <2>1. PICK f : HunkScan(f, s)
    BY <1>1, HunkScanFacts
  <2>2. Orig(f)
    BY <1>3, <2>1
  <2> HIDE DEF Orig
  <2> QED BY <2>2
<1> HIDE DEF Orig, scanned
<1> QED BY <1>2, <1>3, <1>4

(* The hunks in s; what is kept comes before what is read next.            *)
HunksIn(s) == Vless!PushHunks(<< >>, s)

(* What is kept is put before what is read.                                *)
LEMMA PushHunksIs ==
  ASSUME NEW p \in Seq(Tok), NEW d \in Seq(Tok)
  PROVE  Vless!PushHunks(p, d) = HunksIn(p \o d)
<1>1. PICK s \in Seq(Tok) : s = p \o d
  BY ConcatProperties
<1>2. PICK f : HunkScan(f, s) /\ Vless!PushHunks(p, d) = f[1]
  <2>1. \A u : u = p \o d => \E f : HunkScan(f, u) /\ Vless!PushHunks(p, d) = f[1]
    BY HunkIsScan
  <2> QED BY <1>1, <2>1
<1>3. PICK none \in Seq(Tok) : none = << >> /\ s = none \o s
  <2>1. PICK none \in Seq(Tok) : none = << >>
    BY EmptySeq
  <2>2. s = none \o s
    BY <2>1, ConcatEmpty
  <2> QED BY <2>1, <2>2
<1>4. PICK g : HunkScan(g, s) /\ Vless!PushHunks(none, s) = g[1]
  BY <1>3, HunkIsScan
<1>5. f = g
  BY <1>2, <1>4, HunkScanFacts
<1> QED BY <1>1, <1>2, <1>3, <1>4, <1>5 DEF HunksIn

(* A recursion on what is left.                                            *)
LEMMA HunkStep ==
  ASSUME NEW s \in Seq(Tok)
  PROVE  HunksIn(s) = IF HunkStops(s) THEN [pending |-> s, out |-> << >>]
                      ELSE Ahead(HunksIn(HunkBehind(s)), HunkContent(s))
<1> DEFINE Of(r) == \E f : HunkScan(f, r) /\ HunksIn(r) = f[1]
<1>1. ASSUME NEW r \in Seq(Tok) PROVE Of(r)
  <2>1. PICK none \in Seq(Tok) : none = << >> /\ r = none \o r
    <3>1. PICK none \in Seq(Tok) : none = << >>
      BY EmptySeq
    <3>2. r = none \o r
      BY <3>1, ConcatEmpty
    <3> QED BY <3>1, <3>2
  <2>2. PICK f : HunkScan(f, r) /\ Vless!PushHunks(none, r) = f[1]
    BY <2>1, HunkIsScan
  <2> QED BY <2>1, <2>2 DEF HunksIn
<1>2. PICK f : HunkScan(f, s) /\ HunksIn(s) = f[1]
  BY <1>1
<1>3. 1 \in 1 .. Len(s) + 1 /\ Len(s) \in Nat
  BY LenProperties
<1>4. Vless!From(s, 1) = s
  BY <1>3, FromFacts
<1>5. f[1] = IF HunkStops(s) THEN [pending |-> s, out |-> << >>]
             ELSE [f[1 + HunkLength(s)] EXCEPT !.out = HunkContent(s) \o @]
  BY <1>2, <1>3, <1>4 DEF HunkScan
<1>6. ASSUME ~HunkStops(s) PROVE f[1 + HunkLength(s)] = HunksIn(HunkBehind(s))
  <2>1. PICK j \in 1 .. Len(s) + 1 : j = 1 + HunkLength(s)
    BY <1>3, <1>4, <1>6, HunkScanFacts
  <2>2. Vless!From(s, j) \in Seq(Tok) /\ HunkBehind(s) = Vless!From(s, j)
    BY <2>1, FromFacts DEF HunkBehind
  <2>3. PICK g : HunkScan(g, Vless!From(s, j)) /\ HunksIn(Vless!From(s, j)) = g[1]
    BY <1>1, <2>2
  <2>4. f[j] = g[1]
    BY <1>2, <2>3, HunkScanShift
  <2> QED BY <2>1, <2>2, <2>3, <2>4
<1> QED BY <1>2, <1>5, <1>6 DEF Ahead

(* A hunk that is there as a whole is not changed by what comes after it.  *)
LEMMA HunkOfConcat ==
  ASSUME NEW s \in Seq(Tok), NEW t \in Seq(Tok), ~HunkStops(s)
  PROVE  /\ s \o t \in Seq(Tok) /\ ~HunkStops(s \o t)
         /\ HunkContent(s \o t) = HunkContent(s)
         /\ HunkBehind(s \o t) = HunkBehind(s) \o t
<1>1. PICK m, n, u : m \in Nat /\ n \in Nat /\ m = Len(s) /\ n = Len(t) /\ u = s \o t
  BY LenProperties
<1>2. u \in Seq(Tok) /\ Len(u) = m + n /\ \A i \in 1 .. m : u[i] = s[i]
  BY <1>1, ConcatFacts
<1>3. PICK b \in Nat : /\ b = HunkLength(s) /\ b = 2 + s[2][2]
                     /\ 2 <= b /\ b <= m /\ m \in Nat /\ n \in Nat
  BY <1>1, HunkFacts
<1>4. 1 \in 1 .. m /\ 2 \in 1 .. m /\ 2 <= m + n /\ b <= m + n
  <2>1. 2 <= b /\ b <= m /\ m \in Nat /\ n \in Nat
    BY <1>3
  <2> QED BY <2>1
<1>5. u[1] = s[1] /\ u[2] = s[2]
  BY <1>2, <1>4
<1>6. HunkLength(u) = b
  BY <1>3, <1>5 DEF HunkLength
<1>7. ~HunkStops(u)
  <2>1. s[1] = <<"flag", 0>>
    BY DEF HunkStops
  <2>2. ~(Len(u) < 2) /\ ~(Len(u) < b)
    BY <1>2, <1>3, <1>4
  <2> QED BY <1>5, <1>6, <2>1, <2>2 DEF HunkStops
<1>8. PICK p \in Nat, j \in Nat : p = 2 /\ j = b + 1
  OBVIOUS
<1>9. p <= b /\ b <= Len(s)
  BY <1>1, <1>3, <1>8
<1>10. Win(s \o t, p, b) = Win(s, p, b)
  BY <1>9, FrontOfConcat
<1>11. HunkContent(u) = Win(u, p, b) /\ HunkContent(s) = Win(s, p, b)
  <2>1. p + 1 = 3
    BY <1>8
  <2> QED BY <1>3, <1>5, <2>1 DEF HunkContent, Win
<1>12. Vless!From(s \o t, j) = Vless!From(s, j) \o t
  BY <1>8, <1>9, RestOfConcat
<1>13. HunkBehind(u) = Vless!From(u, j) /\ HunkBehind(s) = Vless!From(s, j)
  <2>1. j = 1 + b
    BY <1>8
  <2> QED BY <1>3, <1>6, <2>1 DEF HunkBehind
<1> QED BY <1>1, <1>2, <1>7, <1>10, <1>11, <1>12, <1>13

(* What GrpcHunkDecoder.push returns: what it keeps and what it hands on.  *)
Kept(p, o) == [pending |-> p, out |-> o]

(* Its parts, and output before it.                                        *)
LEMMA KeptIs ==
  ASSUME NEW p, NEW o, NEW c
  PROVE  /\ Kept(p, o).pending = p /\ Kept(p, o).out = o
         /\ Ahead(Kept(p, o), c) = Kept(p, c \o o)
<1>1. PICK x : x = Kept(p, o)
  OBVIOUS
<1>2. x.pending = p /\ x.out = o
  BY <1>1 DEF Kept
<1>3. PICK a : a = c \o o
  OBVIOUS
<1>4. [x EXCEPT !.out = a] = [pending |-> p, out |-> a]
  BY <1>1 DEF Kept
<1>5. Ahead(x, c) = [x EXCEPT !.out = a]
  BY <1>2, <1>3 DEF Ahead
<1> QED BY <1>1, <1>2, <1>3, <1>4, <1>5 DEF Kept

(* A hunk leaves fewer bytes to look at.                                   *)
LEMMA HunkGoesOn ==
  ASSUME NEW r \in Seq(Tok), ~HunkStops(r)
  PROVE  HunkContent(r) \in Seq(Tok) /\ HunkBehind(r) \in Seq(Tok) /\ Len(HunkBehind(r)) < Len(r)
<1>1. PICK b \in Nat, l \in Nat : b = HunkLength(r) /\ l = Len(r) /\ b >= 2 /\ b <= l
  BY HunkFacts, LenProperties
<1>2. HunkContent(r) \in Seq(Tok) /\ HunkBehind(r) \in Seq(Tok) /\ Len(HunkBehind(r)) = l - b
  BY <1>1, HunkFacts
<1> QED BY <1>1, <1>2

(* Reads may split the hunks anywhere.                                     *)
LEMMA HunksConcat ==
  ASSUME NEW s \in Seq(Tok), NEW t \in Seq(Tok)
  PROVE  \E p \in Seq(Tok), o \in Seq(Tok) :
           /\ HunksIn(s) = Kept(p, o)
           /\ HunksIn(s \o t) = Ahead(HunksIn(p \o t), o)
           /\ \E q \in Seq(Tok), v \in Seq(Tok) : HunksIn(p \o t) = Kept(q, v)
<1> DEFINE Typed(r) == \E p \in Seq(Tok), o \in Seq(Tok) : HunksIn(r) = Kept(p, o)
           Good(r) == \E p \in Seq(Tok), o \in Seq(Tok) :
                        /\ HunksIn(r) = Kept(p, o)
                        /\ HunksIn(r \o t) = Ahead(HunksIn(p \o t), o)
<1>1. ASSUME NEW r \in Seq(Tok), ~HunkStops(r) => Typed(HunkBehind(r)) PROVE Typed(r)
  <2>1. CASE HunkStops(r)
    <3>1. HunksIn(r) = Kept(r, << >>)
      BY <2>1, HunkStep DEF Kept
    <3> QED BY <3>1, EmptySeq
  <2>2. CASE ~HunkStops(r)
    <3>1. PICK p \in Seq(Tok), o \in Seq(Tok) : HunksIn(HunkBehind(r)) = Kept(p, o)
      BY <1>1, <2>2
    <3>2. PICK c \in Seq(Tok) : c = HunkContent(r)
      BY <2>2, HunkGoesOn
    <3>3. HunksIn(r) = Kept(p, c \o o)
      BY <2>2, <3>1, <3>2, HunkStep, KeptIs
    <3>4. c \o o \in Seq(Tok)
      BY ConcatProperties
    <3> QED BY <3>3, <3>4
  <2> QED BY <2>1, <2>2
<1>2. ASSUME NEW r \in Seq(Tok) PROVE Typed(r)
  <2> DEFINE S == { n \in Nat : \A u \in Seq(Tok) : Len(u) <= n => Typed(u) }
  <2> HIDE DEF Typed
  <2>1. 0 \in S
    <3> SUFFICES ASSUME NEW u \in Seq(Tok), Len(u) <= 0 PROVE Typed(u)
      OBVIOUS
    <3>1. HunkStops(u)
      BY LenProperties DEF HunkStops
    <3> QED BY <1>1, <3>1
  <2>2. ASSUME NEW n \in Nat, n \in S PROVE n + 1 \in S
    <3> SUFFICES ASSUME NEW u \in Seq(Tok), Len(u) <= n + 1 PROVE Typed(u)
      OBVIOUS
    <3>1. ~HunkStops(u) => Typed(HunkBehind(u))
      <4> SUFFICES ASSUME ~HunkStops(u) PROVE Typed(HunkBehind(u))
        OBVIOUS
      <4>1. HunkBehind(u) \in Seq(Tok) /\ Len(HunkBehind(u)) < Len(u)
        BY HunkGoesOn
      <4>2. Len(HunkBehind(u)) <= n
        BY <4>1, LenProperties
      <4> QED BY <2>2, <4>1, <4>2
    <3> QED BY <1>1, <3>1
  <2> HIDE DEF S
  <2>3. Len(r) \in Nat /\ Len(r) \in S
    BY <2>1, <2>2, Induction, LenProperties
  <2> QED BY <2>3 DEF S
<1>3. ASSUME NEW r \in Seq(Tok), ~HunkStops(r) => Good(HunkBehind(r)) PROVE Good(r)
  <2>1. CASE HunkStops(r)
    <3>1. PICK none \in Seq(Tok) : none = << >>
      BY EmptySeq
    <3>2. HunksIn(r) = Kept(r, none)
      BY <2>1, <3>1, HunkStep DEF Kept
    <3>3. r \o t \in Seq(Tok)
      BY ConcatProperties
    <3>4. PICK q \in Seq(Tok), v \in Seq(Tok) : HunksIn(r \o t) = Kept(q, v)
      BY <1>2, <3>3
    <3>5. none \o v = v
      BY <3>1, ConcatEmpty
    <3>6. HunksIn(r \o t) = Ahead(HunksIn(r \o t), none)
      <4>1. Ahead(Kept(q, v), none) = Kept(q, none \o v)
        BY KeptIs
      <4> QED BY <3>4, <3>5, <4>1
    <3> QED BY <3>2, <3>6
  <2>2. CASE ~HunkStops(r)
    <3>1. PICK b \in Seq(Tok), c \in Seq(Tok) : b = HunkBehind(r) /\ c = HunkContent(r)
      BY <2>2, HunkGoesOn
    <3>2. PICK p \in Seq(Tok), o \in Seq(Tok) :
            HunksIn(b) = Kept(p, o) /\ HunksIn(b \o t) = Ahead(HunksIn(p \o t), o)
      BY <1>3, <2>2, <3>1
    <3>3. p \o t \in Seq(Tok) /\ c \o o \in Seq(Tok)
      BY ConcatProperties
    <3>4. PICK q \in Seq(Tok), v \in Seq(Tok) : HunksIn(p \o t) = Kept(q, v)
      BY <1>2, <3>3
    <3>5. HunksIn(r) = Kept(p, c \o o)
      BY <2>2, <3>1, <3>2, HunkStep, KeptIs
    <3>6. HunksIn(r \o t) = Ahead(HunksIn(b \o t), c)
      <4>1. PICK w \in Seq(Tok) : w = r \o t
        BY ConcatProperties
      <4>2. ~HunkStops(w) /\ HunkContent(w) = c /\ HunkBehind(w) = b \o t
        BY <2>2, <3>1, <4>1, HunkOfConcat
      <4> QED BY <4>1, <4>2, HunkStep
    <3>7. HunksIn(b \o t) = Kept(q, o \o v)
      BY <3>2, <3>4, KeptIs
    <3>8. HunksIn(r \o t) = Kept(q, c \o (o \o v))
      BY <3>6, <3>7, KeptIs
    <3>9. Ahead(HunksIn(p \o t), c \o o) = Kept(q, (c \o o) \o v)
      BY <3>4, KeptIs
    <3>10. (c \o o) \o v = c \o (o \o v)
      <4>1. \A x1, x2, x3 \in Seq(Tok) : (x1 \o x2) \o x3 = x1 \o (x2 \o x3)
        BY Associative
      <4>2. \A x3 \in Seq(Tok) : (c \o o) \o x3 = c \o (o \o x3)
        BY <4>1
      <4> QED BY <4>2
    <3>11. HunksIn(r \o t) = Ahead(HunksIn(p \o t), c \o o)
      BY <3>8, <3>9, <3>10
    <3> QED BY <3>3, <3>5, <3>11
  <2> QED BY <2>1, <2>2
<1> DEFINE S == { n \in Nat : \A r \in Seq(Tok) : Len(r) <= n => Good(r) }
<1> HIDE DEF Good, Typed
<1>4. 0 \in S
  <2> SUFFICES ASSUME NEW r \in Seq(Tok), Len(r) <= 0 PROVE Good(r)
    OBVIOUS
  <2>1. HunkStops(r)
    BY LenProperties DEF HunkStops
  <2> QED BY <1>3, <2>1
<1>5. ASSUME NEW n \in Nat, n \in S PROVE n + 1 \in S
  <2> SUFFICES ASSUME NEW r \in Seq(Tok), Len(r) <= n + 1 PROVE Good(r)
    OBVIOUS
  <2>1. ~HunkStops(r) => Good(HunkBehind(r))
    <3> SUFFICES ASSUME ~HunkStops(r) PROVE Good(HunkBehind(r))
      OBVIOUS
    <3>1. HunkBehind(r) \in Seq(Tok) /\ Len(HunkBehind(r)) < Len(r)
      BY HunkGoesOn
    <3>2. Len(HunkBehind(r)) <= n
      BY <3>1, LenProperties
    <3> QED BY <1>5, <3>1, <3>2
  <2> QED BY <1>3, <2>1
<1> HIDE DEF S
<1>6. Len(s) \in Nat /\ Len(s) \in S
  BY <1>4, <1>5, Induction, LenProperties
<1>7. PICK p \in Seq(Tok), o \in Seq(Tok) :
        HunksIn(s) = Kept(p, o) /\ HunksIn(s \o t) = Ahead(HunksIn(p \o t), o)
  BY <1>6 DEF S, Good
<1>8. p \o t \in Seq(Tok)
  BY ConcatProperties
<1>9. \E q \in Seq(Tok), v \in Seq(Tok) : HunksIn(p \o t) = Kept(q, v)
  BY <1>2, <1>8 DEF Typed
<1> QED BY <1>7, <1>9

(* GrpcHunkDecoder.push may get the response's bytes split over any number *)
(* of data frames: what it returns, and what it keeps, is what one call    *)
(* with all of them would have returned and kept.                          *)
THEOREM HunksAreIncremental ==
  ASSUME NEW s \in Seq(Tok), NEW t \in Seq(Tok)
  PROVE  LET First == Vless!PushHunks(<< >>, s)
             Second == Vless!PushHunks(First.pending, t)
         IN  Vless!PushHunks(<< >>, s \o t) = [Second EXCEPT !.out = First.out \o @]
<1>1. PICK p \in Seq(Tok), o \in Seq(Tok) :
        HunksIn(s) = Kept(p, o) /\ HunksIn(s \o t) = Ahead(HunksIn(p \o t), o)
  BY HunksConcat
<1>2. Vless!PushHunks(p, t) = HunksIn(p \o t)
  BY PushHunksIs
<1>3. HunksIn(s).pending = p /\ HunksIn(s).out = o
  BY ZenonT(40), <1>1, KeptIs
<1> QED BY <1>1, <1>2, <1>3 DEF HunksIn, Ahead

(* encode_grpc_hunk makes one hunk ...                                     *)
LEMMA HunkIs ==
  ASSUME NEW content \in Seq(Tok)
  PROVE  \E b \in Seq(Tok) :
           /\ Vless!Hunk(content) = b /\ Len(b) = 2 + Len(content)
           /\ b[1] = <<"flag", 0>> /\ b[2][2] = Len(content)
           /\ \A i \in 1 .. Len(content) : b[2 + i] = content[i]
<1>1. PICK l \in Nat : l = Len(content)
  BY LenProperties
<1>2. PICK x \in Tok, y \in Tok : x = <<"flag", 0>> /\ y = <<"length", l>>
  BY DEF Tok, Types
<1>3. y[2] = l
  BY <1>2
<1>4. <<x, y>> \in Seq(Tok)
  OBVIOUS
<1>5. PICK h \in Seq(Tok) : h = <<x, y>>
  BY <1>4
<1>6. Len(h) = 2 /\ h[1] = x /\ h[2] = y
  BY <1>5
<1>7. PICK b : b = h \o content
  OBVIOUS
<1>8. PICK k : k = 2 /\ k = Len(h) /\ 1 \in 1 .. k /\ 2 \in 1 .. k
  BY <1>6
<1>9. /\ b \in Seq(Tok) /\ Len(b) = k + l
      /\ \A i \in 1 .. k : b[i] = h[i]
      /\ \A i \in 1 .. l : b[k + i] = content[i]
  <2>1. k = Len(h) /\ l = Len(content)
    BY <1>1, <1>8
  <2> QED BY <1>7, <2>1, ConcatFacts
<1>10. b[1] = x /\ b[2] = y
  BY <1>6, <1>8, <1>9
<1>11. Vless!Hunk(content) = b
  BY <1>1, <1>2, <1>5, <1>7 DEF Vless!Hunk
<1> QED BY <1>1, <1>2, <1>3, <1>8, <1>9, <1>10, <1>11

(* ... which GrpcHunkDecoder.push takes apart again.                       *)
LEMMA HunkDecodes ==
  ASSUME NEW content \in Seq(Tok), NEW t \in Seq(Tok), NEW h, h = Vless!Hunk(content)
  PROVE  h \in Seq(Tok) /\ HunksIn(h \o t) = Ahead(HunksIn(t), content)
<1>1. PICK l \in Nat : l = Len(content)
  BY LenProperties
<1>2. /\ h \in Seq(Tok) /\ Len(h) = 2 + l /\ h[1] = <<"flag", 0>> /\ h[2][2] = l
      /\ \A i \in 1 .. l : h[2 + i] = content[i]
  BY SMTT(30), <1>1, HunkIs
<1>3. HunkLength(h) = 2 + l
  BY <1>2 DEF HunkLength
<1>4. ~HunkStops(h)
  <2>1. ~(Len(h) < 2) /\ ~(Len(h) < 2 + l)
    BY <1>2
  <2> QED BY <1>2, <1>3, <2>1 DEF HunkStops
<1>5. /\ HunkContent(h) \in Seq(Tok) /\ Len(HunkContent(h)) = l
      /\ \A i \in 1 .. l : HunkContent(h)[i] = h[2 + i]
      /\ HunkBehind(h) \in Seq(Tok) /\ Len(HunkBehind(h)) = 0
  <2>1. /\ HunkContent(h) \in Seq(Tok) /\ Len(HunkContent(h)) = h[2][2]
        /\ \A i \in 1 .. h[2][2] : HunkContent(h)[i] = h[2 + i]
        /\ HunkBehind(h) \in Seq(Tok) /\ Len(HunkBehind(h)) = Len(h) - HunkLength(h)
    BY <1>2, <1>4, HunkFacts
  <2>2. Len(h) - HunkLength(h) = 0
    BY <1>2, <1>3
  <2> QED BY <1>2, <2>1, <2>2
<1>6. HunkContent(h) = content
  <2>1. \A i \in 1 .. l : HunkContent(h)[i] = content[i]
    BY <1>2, <1>5
  <2> QED BY <1>1, <1>5, <2>1, SeqEqual
<1>7. HunkBehind(h) \o t = t
  <2>1. HunkBehind(h) = << >>
    BY <1>5, EmptySeq
  <2> QED BY <2>1, ConcatEmpty
<1>8. PICK w \in Seq(Tok) : /\ w = h \o t /\ ~HunkStops(w) /\ HunkContent(w) = content
                            /\ HunkBehind(w) = t
  <2>1. h \in Seq(Tok) /\ ~HunkStops(h)
    BY <1>2, <1>4
  <2>2. /\ h \o t \in Seq(Tok) /\ ~HunkStops(h \o t)
        /\ HunkContent(h \o t) = HunkContent(h) /\ HunkBehind(h \o t) = HunkBehind(h) \o t
    BY <2>1, HunkOfConcat
  <2> QED BY <1>6, <1>7, <2>2
<1> QED BY <1>2, <1>8, HunkStep

(* The hunks of a peer that answers with gRPC.                             *)
LEMMA GrpcPayload ==
  ASSUME NEW a, a = Vless!Hunk(Vless!Response \o Vless!Plain(1, 1)),
         NEW b, b = Vless!Hunk(Vless!Plain(2, 2))
  PROVE  /\ a \in Seq(Tok) /\ b \in Seq(Tok)
         /\ \E none : none = << >> /\ HunksIn(a \o b) = Kept(none, Logical)
<1>1. PICK r \in Seq(Tok) : r = Vless!Response /\ Len(r) = 3
  BY ResponseIs
<1>2. PICK p \in Seq(Tok) : p = Vless!Plain(1, 1)
  <2>1. PICK n \in Nat : n = 1 /\ n + 1 = n + n /\ n >= 1
    OBVIOUS
  <2> QED BY <2>1, PlainIs
<1>3. PICK q \in Seq(Tok) : q = Vless!Plain(2, 2)
  <2>1. PICK n \in Nat, l \in Nat : n = 2 /\ l = 1 /\ n + 1 = n + l /\ n >= 1
    OBVIOUS
  <2> QED BY <2>1, PlainIs
<1>4. p \o q = Vless!Plain(1, 2)
  <2>1. PICK x \in Tok, y \in Tok : x = <<"plain", 1>> /\ y = <<"plain", 2>>
    BY DEF Tok, Types, Vless!Classes
  <2>2. p = <<x>> /\ q = <<y>> /\ Vless!Plain(1, 2) = <<x, y>>
    BY <1>2, <1>3, <2>1 DEF Vless!Plain
  <2>3. <<x, y>> \in Seq(Tok) /\ <<x>> \in Seq(Tok) /\ <<y>> \in Seq(Tok)
    OBVIOUS
  <2>4. PICK z \in Seq(Tok) : z = <<x, y>>
    BY <2>3
  <2>5. Len(p) = 1 /\ Len(q) = 1 /\ Len(z) = 2 /\ p[1] = x /\ q[1] = y /\ z[1] = x /\ z[2] = y
    BY <2>2, <2>4
  <2>6. /\ Len(z) = Len(p) + Len(q)
        /\ \A i \in 1 .. Len(p) : z[i] = p[i]
        /\ \A i \in 1 .. Len(q) : z[Len(p) + i] = q[i]
    BY <2>5
  <2>7. p \o q = z
    BY <2>6, ConcatIs
  <2> QED BY <2>2, <2>4, <2>7
<1>5. PICK c \in Seq(Tok) : c = r \o p
  BY ConcatProperties
<1>6. c \o q = Logical
  <2>1. (r \o p) \o q = r \o (p \o q)
    BY Associative
  <2> QED BY <1>1, <1>4, <1>5, <2>1 DEF Logical
<1>7. PICK none \in Seq(Tok) : none = << >>
  BY EmptySeq
<1>8. HunksIn(none) = Kept(none, none)
  <2>1. HunkStops(none)
    BY <1>7 DEF HunkStops
  <2> QED BY <1>7, <2>1, HunkStep DEF Kept
<1>9. b \in Seq(Tok) /\ HunksIn(b) = Kept(none, q)
  <2>1. b \in Seq(Tok) /\ HunksIn(b \o none) = Ahead(HunksIn(none), q)
    BY <1>3, HunkDecodes
  <2>2. b \o none = b
    BY <1>7, <2>1, ConcatEmpty
  <2>3. q \o none = q
    BY <1>7, ConcatEmpty
  <2>4. Ahead(Kept(none, none), q) = Kept(none, q \o none)
    BY KeptIs
  <2> QED BY <1>8, <2>1, <2>2, <2>3, <2>4
<1>10. a \in Seq(Tok) /\ HunksIn(a \o b) = Kept(none, c \o q)
  <2>1. a = Vless!Hunk(c)
    BY <1>1, <1>2, <1>5
  <2>2. a \in Seq(Tok) /\ HunksIn(a \o b) = Ahead(HunksIn(b), c)
    BY <1>9, <2>1, HunkDecodes
  <2>3. Ahead(Kept(none, q), c) = Kept(none, c \o q)
    BY KeptIs
  <2> QED BY <1>9, <2>2, <2>3
<1> QED BY <1>6, <1>7, <1>9, <1>10

-----------------------------------------------------------------------------
(* All but the first.                                                      *)
LEMMA AllButHead ==
  ASSUME NEW T \in Seq(Tok), NEW b \in Seq(Tok)
  PROVE  /\ Len(T) = Len(b) + 1
         /\ \A i \in 1 .. Len(b) : T[i + 1] = b[i]
         => Win(T, 1, Len(T)) = b
<1>1. PICK p \in Nat, m \in Nat, l \in Nat : p = 1 /\ m = Len(T) /\ l = Len(b)
  BY LenProperties
<1>2. p <= m /\ m <= Len(T) =>
        /\ Win(T, p, m) \in Seq(Tok) /\ Len(Win(T, p, m)) = m - p
        /\ \A i \in 1 .. m - p : Win(T, p, m)[i] = T[p + i]
  BY WinFacts
<1> SUFFICES ASSUME m = l + 1, \A i \in 1 .. l : T[i + 1] = b[i]
             PROVE  Win(T, p, m) = b
  BY <1>1
<1>3. p <= m /\ m - p = l /\ \A i \in 1 .. l : p + i = i + 1
  BY <1>1
<1>4. /\ Win(T, p, m) \in Seq(Tok) /\ Len(Win(T, p, m)) = l
      /\ \A i \in 1 .. l : Win(T, p, m)[i] = T[p + i]
  BY <1>1, <1>2, <1>3
<1>5. \A i \in 1 .. l : Win(T, p, m)[i] = b[i]
  BY <1>3, <1>4
<1> QED BY <1>1, <1>4, <1>5, SeqEqual

(* What the bridge of a transport gets: a head, and what is behind it.     *)
Headed(a, s, t) ==
  /\ (a \o s) \o t \in Seq(Tok) /\ Len(s \o t) \in Nat
  /\ Len((a \o s) \o t) = Len(s \o t) + 1 /\ ((a \o s) \o t)[1] = a[1]
  /\ \A i \in 1 .. Len(s \o t) : ((a \o s) \o t)[i + 1] = (s \o t)[i]
  /\ Win((a \o s) \o t, 1, Len((a \o s) \o t)) = s \o t

LEMMA BehindHead ==
  ASSUME NEW s \in Seq(Tok), NEW t \in Seq(Tok), NEW a \in Seq(Tok)
  PROVE  Len(a) = 1 => Headed(a, s, t)
<1>1. PICK b \in Seq(Tok) : b = s \o t
  BY ConcatProperties
<1>2. PICK k, l : k = Len(a) /\ l = Len(b)
  OBVIOUS
<1>3. PICK T : T = a \o b
  OBVIOUS
<1>4. /\ k \in Nat /\ l \in Nat /\ a \o b \in Seq(Tok) /\ Len(a \o b) = k + l
      /\ \A i \in 1 .. k : (a \o b)[i] = a[i]
      /\ \A i \in 1 .. l : (a \o b)[k + i] = b[i]
  BY SMTT(40), <1>2, ConcatFacts
<1>5. /\ T \in Seq(Tok) /\ Len(T) = k + l
      /\ \A i \in 1 .. k : T[i] = a[i]
      /\ \A i \in 1 .. l : T[k + i] = b[i]
  BY <1>3, <1>4
<1>6. T = (a \o s) \o t
  <2>1. (a \o s) \o t = a \o (s \o t)
    BY Associative
  <2> QED BY <1>1, <1>3, <2>1
<1>7. /\ T \in Seq(Tok) /\ b \in Seq(Tok)
      /\ Len(T) = Len(b) + 1
      /\ \A i \in 1 .. Len(b) : T[i + 1] = b[i]
      => Win(T, 1, Len(T)) = b
  BY AllButHead
<1> SUFFICES ASSUME k = 1 PROVE Headed(a, s, t)
  BY <1>2
<1>8. k + l = l + 1 /\ 1 \in 1 .. k /\ \A i \in 1 .. l : k + i = i + 1
  BY <1>4
<1>9. Len(T) = l + 1 /\ T[1] = a[1] /\ \A i \in 1 .. l : T[i + 1] = b[i]
  BY <1>5, <1>8
<1>10. Win(T, 1, Len(T)) = b
  BY <1>1, <1>2, <1>5, <1>7, <1>9
<1> QED BY <1>1, <1>2, <1>4, <1>5, <1>6, <1>9, <1>10 DEF Headed

(* The answers of the peers behind a transport.                            *)
Piped(T) ==
  /\ T \in Seq(Tok) /\ Len(T) >= 2
  /\ kind = "ws" =>
       /\ Len(T) = 7 /\ T[1][1] = "ping" /\ T[7][1] = "close"
       /\ \A i \in 1 .. 5 : T[i + 1] = Logical[i]
  /\ kind = "grpc" => HunksIn(Win(T, 1, Len(T))) = Kept(<< >>, Logical)
  /\ kind \notin {"ws", "grpc"} => Len(T) = 6 /\ \A i \in 1 .. 5 : T[i + 1] = Logical[i]

(* All of them are as described.                                           *)
LEMMA AnswersPiped ==
  ASSUME NEW T \in Vless!Answers(kind), kind \notin Vless!Bare
  PROVE  Piped(T)
<1>1. PICK r \in Seq(Tok), p \in Seq(Tok) : r = Vless!Response /\ p = Vless!Plain(1, 2)
  <2>1. PICK n \in Nat, l \in Nat : n = 1 /\ l = 2 /\ l + 1 = n + l /\ n >= 1
    OBVIOUS
  <2>2. Vless!Plain(n, l) \in Seq(Tok)
    BY <2>1, PlainIs
  <2> QED BY <2>1, <2>2, ResponseIs
<1>2. r \o p = Logical /\ Len(Logical) = 5 /\ Logical \in Seq(Tok)
  BY <1>1, LogicalIs DEF Logical
<1>3. kind \notin {"tcp", "vision", "vision_tls"}
  BY DEF Vless!Bare, Vless!Vision
<1>4. CASE kind = "grpc"
  <2>1. PICK x \in Tok : x = <<"head", 0>>
    BY DEF Tok, Types
  <2>2. PICK a, b : /\ a = Vless!Hunk(Vless!Response \o Vless!Plain(1, 1))
                    /\ b = Vless!Hunk(Vless!Plain(2, 2))
    OBVIOUS
  <2>3. T = (<<x>> \o a) \o b
    BY <1>4, <2>1, <2>2 DEF Vless!Answers
  <2>4. a \in Seq(Tok) /\ b \in Seq(Tok) /\ HunksIn(a \o b) = Kept(<< >>, Logical)
    BY <2>2, GrpcPayload
  <2>5. <<x>> \in Seq(Tok) /\ Len(<<x>>) = 1
    OBVIOUS
  <2>6. PICK h : h = <<x>> /\ h \in Seq(Tok) /\ Len(h) = 1 /\ T = (h \o a) \o b
    BY <2>3, <2>5
  <2>7. a \in Seq(Tok) /\ b \in Seq(Tok) /\ h \in Seq(Tok) /\ Len(h) = 1
    BY <2>4, <2>6
  <2>12. PICK U, l : U = (h \o a) \o b /\ l = Len(a \o b)
    OBVIOUS
  <2>8. /\ U = T /\ l = Len(a \o b) /\ l \in Nat
        /\ U \in Seq(Tok) /\ Len(U) = l + 1
        /\ Win(U, 1, Len(U)) = a \o b
    <3>1. U \in Seq(Tok) /\ l \in Nat /\ Len(U) = l + 1 /\ Win(U, 1, Len(U)) = a \o b
      <4>1. Headed(h, a, b)
        BY <2>7, BehindHead
      <4> QED BY <2>12, <4>1 DEF Headed
    <3> QED BY <2>6, <2>12, <3>1
  <2>9. l >= 1
    <3> SUFFICES ASSUME l = 0 PROVE FALSE
      BY <2>8
    <3>1. a \o b = << >>
      <4>1. a \o b \in Seq(Tok)
        BY <2>4, ConcatProperties
      <4> QED BY <2>8, <4>1, EmptySeq
    <3>2. PICK none \in Seq(Tok) : none = << >> /\ Len(none) = 0
      BY EmptySeq
    <3>3. HunkStops(none)
      BY <3>2 DEF HunkStops
    <3>4. HunksIn(none) = Kept(none, none)
      BY <3>2, <3>3, HunkStep DEF Kept
    <3>5. Kept(none, none) = Kept(none, Logical)
      BY <2>4, <3>1, <3>2, <3>4
    <3>6. none = Logical
      <4>1. Kept(none, none).out = none /\ Kept(none, Logical).out = Logical
        BY DEF Kept
      <4> QED BY <3>5, <4>1
    <3>7. Len(none) = 5
      BY <1>2, <3>6
    <3> QED BY <3>2, <3>7
  <2>10. HunksIn(Win(T, 1, Len(T))) = Kept(<< >>, Logical)
    BY <2>4, <2>8
  <2>11. T \in Seq(Tok) /\ Len(T) >= 2
    BY <2>8, <2>9
  <2> QED BY <1>4, <2>10, <2>11 DEF Piped
<1>5. CASE kind = "ws"
  <2>1. PICK x \in Tok, z \in Tok : x = <<"ping", 0>> /\ z = <<"close", 0>>
    BY DEF Tok, Types
  <2>2. T = ((<<x>> \o r) \o p) \o <<z>>
    BY <1>1, <1>5, <2>1 DEF Vless!Answers
  <2>3. /\ <<x>> \in Seq(Tok) /\ Len(<<x>>) = 1 /\ <<x>>[1] = x
        /\ <<z>> \in Seq(Tok) /\ Len(<<z>>) = 1 /\ <<z>>[1] = z
    OBVIOUS
  <2>4. PICK h \in Seq(Tok), e \in Seq(Tok) :
          /\ h = <<x>> /\ Len(h) = 1 /\ h[1] = x
          /\ e = <<z>> /\ Len(e) = 1 /\ e[1] = z
    BY <2>3
  <2>15. PICK u, l : u = (h \o r) \o p /\ l = Len(r \o p)
    OBVIOUS
  <2>5. /\ u = (h \o r) \o p /\ l = Len(r \o p) /\ Len(u) = l + 1 /\ u[1] = h[1]
        /\ u \in Seq(Tok) /\ l \in Nat
        /\ \A i \in 1 .. l : u[i + 1] = (r \o p)[i]
    <3>1. h \in Seq(Tok) /\ r \in Seq(Tok) /\ p \in Seq(Tok) /\ Len(h) = 1
      BY <1>1, <2>4
    <3>2. /\ (h \o r) \o p \in Seq(Tok) /\ Len(r \o p) \in Nat
          /\ Len((h \o r) \o p) = Len(r \o p) + 1 /\ ((h \o r) \o p)[1] = h[1]
          /\ \A i \in 1 .. Len(r \o p) : ((h \o r) \o p)[i + 1] = (r \o p)[i]
      <4>1. Headed(h, r, p)
        BY <3>1, BehindHead
      <4> QED BY <4>1 DEF Headed
    <3> QED BY <2>15, <3>2
  <2>6. l = 5
    BY <1>2, <2>5
  <2>7. PICK k, n : k = Len(u) /\ n = Len(e)
    OBVIOUS
  <2>8. /\ u \o e \in Seq(Tok) /\ Len(u \o e) = k + n
        /\ \A i \in 1 .. k : (u \o e)[i] = u[i]
        /\ \A i \in 1 .. n : (u \o e)[k + i] = e[i]
    <3>1. u \in Seq(Tok) /\ e \in Seq(Tok)
      BY <2>4, <2>5
    <3> QED BY <2>7, <3>1, ConcatFacts
  <2>9. T = u \o e
    BY <2>2, <2>4, <2>5
  <2>10. k = 6 /\ n = 1
    BY <2>4, <2>5, <2>6, <2>7
  <2>11. T \in Seq(Tok) /\ Len(T) = 7 /\ T[1] = x /\ T[7] = z
    <3>1. 1 \in 1 .. k /\ 1 \in 1 .. n /\ k + 1 = 7 /\ k + n = 7
      BY <2>10
    <3>2. Len(T) = 7 /\ T[1] = u[1] /\ T[7] = e[1]
      BY <2>8, <2>9, <3>1
    <3> QED BY <2>4, <2>5, <2>8, <2>9, <3>2
  <2>12. \A i \in 1 .. 5 : T[i + 1] = Logical[i]
    <3> SUFFICES ASSUME NEW i \in 1 .. 5 PROVE T[i + 1] = Logical[i]
      OBVIOUS
    <3>1. i \in 1 .. l /\ i + 1 \in 1 .. k
      BY <2>6, <2>10
    <3>2. T[i + 1] = u[i + 1] /\ u[i + 1] = (r \o p)[i]
      BY <2>5, <2>8, <2>9, <3>1
    <3> QED BY <1>2, <3>2
  <2>13. T[1][1] = "ping" /\ T[7][1] = "close"
    BY <2>1, <2>11
  <2>14. Len(T) = 7 /\ Len(T) >= 2 /\ T \in Seq(Tok)
    BY <2>11
  <2> QED BY <1>5, <2>12, <2>13, <2>14 DEF Piped
<1>6. CASE kind # "grpc" /\ kind # "ws"
  <2>1. PICK x \in Tok : x = <<"head", 0>>
    BY DEF Tok, Types
  <2>2. T = (<<x>> \o r) \o p
    BY <1>1, <1>3, <1>6, <2>1 DEF Vless!Answers
  <2>3. <<x>> \in Seq(Tok) /\ Len(<<x>>) = 1
    OBVIOUS
  <2>4. PICK h \in Seq(Tok) : T = (h \o r) \o p /\ Len(h) = 1
    BY <2>2, <2>3
  <2>9. PICK u, l : u = (h \o r) \o p /\ l = Len(r \o p)
    OBVIOUS
  <2>5. /\ u = (h \o r) \o p /\ l = Len(r \o p) /\ Len(u) = l + 1
        /\ u \in Seq(Tok) /\ l \in Nat
        /\ \A i \in 1 .. l : u[i + 1] = (r \o p)[i]
    <3>1. h \in Seq(Tok) /\ r \in Seq(Tok) /\ p \in Seq(Tok) /\ Len(h) = 1
      BY <1>1, <2>4
    <3>2. /\ (h \o r) \o p \in Seq(Tok) /\ Len(r \o p) \in Nat
          /\ Len((h \o r) \o p) = Len(r \o p) + 1 /\ ((h \o r) \o p)[1] = h[1]
          /\ \A i \in 1 .. Len(r \o p) : ((h \o r) \o p)[i + 1] = (r \o p)[i]
      <4>1. Headed(h, r, p)
        BY <3>1, BehindHead
      <4> QED BY <4>1 DEF Headed
    <3> QED BY <2>9, <3>2
  <2>6. l = 5 /\ T = u
    BY <1>2, <2>4, <2>5
  <2>7. T \in Seq(Tok) /\ Len(T) = 6 /\ Len(T) >= 2
    BY <2>5, <2>6
  <2>8. \A i \in 1 .. 5 : T[i + 1] = Logical[i]
    BY <1>2, <2>5, <2>6
  <2> QED BY <1>6, <2>7, <2>8 DEF Piped
<1> QED BY <1>4, <1>5, <1>6

(* The two parts of a concatenation.                                       *)
LEMMA WinOfConcat ==
  ASSUME NEW a \in Seq(Tok), NEW b \in Seq(Tok)
  PROVE  \E z \in Nat, k \in Nat, l \in Nat :
           /\ z = 0 /\ k = Len(a) /\ l = Len(a \o b) /\ k <= l
           /\ a = Win(a \o b, z, k) /\ b = Win(a \o b, k, l)
<1>1. PICK m \in Nat, n \in Nat, y \in Nat, q \in Nat :
        m = Len(a) /\ n = Len(b) /\ y = 0 /\ q = m + n /\ y <= m /\ m <= q
  BY LenProperties
<1>2. PICK u : u = a \o b
  OBVIOUS
<1>3. /\ u \in Seq(Tok) /\ Len(u) = q
      /\ \A i \in 1 .. m : u[i] = a[i]
      /\ \A i \in 1 .. n : u[m + i] = b[i]
  <2>1. /\ a \o b \in Seq(Tok) /\ Len(a \o b) = m + n
        /\ \A i \in 1 .. m : (a \o b)[i] = a[i]
        /\ \A i \in 1 .. n : (a \o b)[m + i] = b[i]
    <3>1. m = Len(a) /\ n = Len(b)
      BY <1>1
    <3> QED BY <3>1, ConcatFacts
  <2> QED BY <1>1, <1>2, <2>1
<1>4. y \in Nat /\ m \in Nat /\ u \in Seq(Tok) /\ y <= m /\ m <= Len(u)
  BY <1>1, <1>3
<1>5. /\ Win(u, y, m) \in Seq(Tok) /\ Len(Win(u, y, m)) = m - y
      /\ \A i \in 1 .. m - y : Win(u, y, m)[i] = u[y + i]
  BY <1>4, WinFacts
<1>6. m \in Nat /\ q \in Nat /\ u \in Seq(Tok) /\ m <= q /\ q <= Len(u)
  BY <1>1, <1>3
<1>7. /\ Win(u, m, q) \in Seq(Tok) /\ Len(Win(u, m, q)) = q - m
      /\ \A i \in 1 .. q - m : Win(u, m, q)[i] = u[m + i]
  BY <1>6, WinFacts
<1>8. Win(u, y, m) = a
  <2>1. m - y = m /\ \A i \in 1 .. m : y + i = i
    BY <1>1
  <2>2. Len(Win(u, y, m)) = m /\ \A i \in 1 .. m : Win(u, y, m)[i] = a[i]
    BY <1>3, <1>5, <2>1
  <2> QED BY <1>1, <1>5, <2>2, SeqEqual
<1>9. Win(u, m, q) = b
  <2>1. q - m = n
    BY <1>1
  <2>2. Len(Win(u, m, q)) = n /\ \A i \in 1 .. n : Win(u, m, q)[i] = b[i]
    BY <1>3, <1>7, <2>1
  <2> QED BY <1>1, <1>7, <2>2, SeqEqual
<1> QED BY <1>1, <1>2, <1>3, <1>8, <1>9

(* A part of a front.                                                      *)
LEMMA WinOfFront ==
  ASSUME NEW s \in Seq(Tok), NEW e \in Nat, NEW w \in Nat, w <= e, e <= Len(s)
  PROVE  \E z \in Nat : z = 0 /\ Win(Win(s, z, e), w, e) = Win(s, w, e)
<1>1. PICK z \in Nat : z <= e /\ w <= e /\ e <= e - z /\ z = 0 /\ z + w = w /\ z + e = e
  OBVIOUS
<1>2. \A a \in Nat, b \in Nat : a <= b /\ b <= e - z =>
        Win(Win(s, z, e), a, b) = Win(s, z + a, z + b)
  <2>1. z \in Nat /\ z <= e
    BY <1>1
  <2> QED BY <2>1, WinOfWin
<1> QED BY <1>1, <1>2

(* What the bridge of a transport has taken of an answer, n, and what it   *)
(* has made of it: p is kept, and w of what is behind it is handed on.     *)
Carried(T, n, p, w) ==
  /\ n = 0 => p = << >> /\ w = 0
  /\ n > 0 /\ kind = "grpc" => HunksIn(Win(T, 1, n)) = Kept(p, Win(Logical, 0, w))
  /\ n > 0 /\ kind # "grpc" => p = << >> /\ (w = n - 1 \/ (w = 5 /\ n = 7))

(* The head of the answer brings nothing.                                  *)
LEMMA CarriesHead ==
  ASSUME NEW T, Piped(T), NEW p, NEW w, Carried(T, 0, p, w)
  PROVE  Carried(T, 1, p, w)
<1>1. p = << >> /\ w = 0
  BY DEF Carried
<1>2. CASE kind = "grpc"
  <2>1. PICK none \in Seq(Tok) : none = << >> /\ Len(none) = 0
    BY EmptySeq
  <2>2. HunkStops(none)
    BY <2>1 DEF HunkStops
  <2>3. HunksIn(none) = Kept(none, none)
    BY <2>1, <2>2, HunkStep DEF Kept
  <2>4. PICK y \in Nat, z \in Nat : y = 0 /\ z = 1
    OBVIOUS
  <2>5. y <= y /\ y <= Len(Logical) /\ z <= z /\ z <= Len(T) /\ T \in Seq(Tok) /\ Logical \in Seq(Tok)
    BY <2>4, LogicalIs DEF Piped
  <2>6. Win(Logical, y, y) = none /\ Win(T, z, z) = none
    <3>1. (Win(Logical, y, y) = << >> <=> y = y) /\ (Win(T, z, z) = << >> <=> z = z)
      BY <2>5, WinEmpty
    <3> QED BY <2>1, <3>1
  <2> QED BY <1>1, <1>2, <2>1, <2>3, <2>4, <2>6 DEF Carried
<1>3. CASE kind # "grpc"
  BY <1>1, <1>3 DEF Carried
<1> QED BY <1>2, <1>3

(* All of the answer is all of the payload.                                *)
LEMMA CarriesAll ==
  ASSUME NEW T, Piped(T), NEW p \in Seq(Tok), NEW w \in 0 .. 5, Carried(T, Len(T), p, w)
  PROVE  p = << >> /\ w = 5
<1>1. Len(T) > 0
  BY DEF Piped
<1>2. CASE kind = "grpc"
  <2>1. Kept(p, Win(Logical, 0, w)) = Kept(<< >>, Logical)
    BY <1>1, <1>2 DEF Carried, Piped
  <2>2. p = << >> /\ Win(Logical, 0, w) = Logical
    <3>1. PICK none, v : none = << >> /\ v = Win(Logical, 0, w)
      OBVIOUS
    <3>2. /\ Kept(p, v).pending = p /\ Kept(p, v).out = v
          /\ Kept(none, Logical).pending = none /\ Kept(none, Logical).out = Logical
      BY KeptIs
    <3> QED BY <2>1, <3>1, <3>2
  <2>3. PICK y \in Nat : y = 0 /\ y <= w /\ w <= Len(Logical) /\ w \in Nat /\ Logical \in Seq(Tok)
    BY LogicalIs
  <2>4. Len(Win(Logical, y, w)) = w - y
    <3>1. y \in Nat /\ y <= w /\ w <= Len(Logical) /\ w \in Nat /\ Logical \in Seq(Tok)
      BY <2>3
    <3> QED BY <3>1, WinFacts
  <2>5. Len(Logical) = 5
    BY LogicalIs
  <2> QED BY SMTT(30), <2>2, <2>3, <2>4, <2>5
<1>3. CASE kind # "grpc"
  BY SMTT(30), <1>1, <1>3 DEF Carried, Piped
<1> QED BY <1>2, <1>3

(* A read of a gRPC answer.                                                *)
TakesHunks(T, n, m, p, w) ==
  \E q \in Seq(Tok), v \in w .. 5 :
    /\ Vless!PushHunks(p, Win(T, n, m)) = Kept(q, Win(Logical, w, v))
    /\ Carried(T, m, q, v)

(* ... decodes to a part of the payload.                                   *)
LEMMA CarriesHunks ==
  ASSUME NEW T, Piped(T), kind = "grpc", NEW n \in Nat, NEW m \in Nat,
         n >= 1, n <= m, m <= Len(T), NEW p \in Seq(Tok), NEW w \in 0 .. 5,
         Carried(T, n, p, w)
  PROVE  TakesHunks(T, n, m, p, w)
<1>0. PICK l \in Nat : l = Len(T)
  BY LenProperties DEF Piped
<1>1. PICK one \in Nat, z \in Nat : one = 1 /\ z = 0
  OBVIOUS
<1>2. T \in Seq(Tok) /\ one <= n /\ n <= m /\ m <= l /\ l \in Nat /\ l = Len(T) /\ one <= m
      /\ m <= Len(T) /\ n <= Len(T) /\ l <= Len(T)
  BY <1>0, <1>1 DEF Piped
<1>3. PICK s \in Seq(Tok), t \in Seq(Tok), r \in Seq(Tok), st \in Seq(Tok) :
        /\ s = Win(T, one, n) /\ t = Win(T, n, m) /\ r = Win(T, m, l) /\ st = s \o t
  <2>1. Win(T, one, n) \in Seq(Tok) /\ Win(T, n, m) \in Seq(Tok) /\ Win(T, m, l) \in Seq(Tok)
    BY <1>2, WinFacts
  <2> QED BY <2>1, ConcatProperties
<1>4. st = Win(T, one, m) /\ st \o r = Win(T, one, l)
  <2>1. Win(T, one, n) \o Win(T, n, m) = Win(T, one, m)
    BY ZenonT(40), <1>2, WinJoin
  <2>2. Win(T, one, m) \o Win(T, m, l) = Win(T, one, l)
    BY ZenonT(60), <1>2, WinJoin
  <2> QED BY <1>3, <2>1, <2>2
<1>5. HunksIn(s) = Kept(p, Win(Logical, z, w))
  BY <1>1, <1>3 DEF Carried
<1>6. PICK p0 \in Seq(Tok), o \in Seq(Tok) :
        /\ HunksIn(s) = Kept(p0, o)
        /\ HunksIn(st) = Ahead(HunksIn(p0 \o t), o)
        /\ \E q \in Seq(Tok), v \in Seq(Tok) : HunksIn(p0 \o t) = Kept(q, v)
  <2>1. \E p0 \in Seq(Tok), o \in Seq(Tok) :
           /\ HunksIn(s) = Kept(p0, o)
           /\ HunksIn(s \o t) = Ahead(HunksIn(p0 \o t), o)
           /\ \E q \in Seq(Tok), v \in Seq(Tok) : HunksIn(p0 \o t) = Kept(q, v)
    BY HunksConcat
  <2> QED BY <1>3, <2>1
<1>7. p0 = p /\ o = Win(Logical, z, w)
  <2>1. PICK x : x = Win(Logical, z, w)
    OBVIOUS
  <2>2. Kept(p, x).pending = p /\ Kept(p, x).out = x /\ Kept(p0, o).pending = p0 /\ Kept(p0, o).out = o
    BY KeptIs
  <2> QED BY <1>5, <1>6, <2>1, <2>2
<1>8. PICK q \in Seq(Tok), v \in Seq(Tok) : HunksIn(p \o t) = Kept(q, v)
  BY <1>6, <1>7
<1>9. HunksIn(st) = Kept(q, o \o v)
  BY <1>6, <1>7, <1>8, KeptIs
<1>10. PICK p1 \in Seq(Tok), o1 \in Seq(Tok) :
        /\ HunksIn(st) = Kept(p1, o1)
        /\ HunksIn(st \o r) = Ahead(HunksIn(p1 \o r), o1)
        /\ \E q1 \in Seq(Tok), v1 \in Seq(Tok) : HunksIn(p1 \o r) = Kept(q1, v1)
  BY HunksConcat
<1>11. PICK q1 \in Seq(Tok), v1 \in Seq(Tok) : HunksIn(p1 \o r) = Kept(q1, v1)
  BY <1>10
<1>12. HunksIn(st \o r) = Kept(q1, o1 \o v1)
  BY <1>10, <1>11, KeptIs
<1>13. o1 \o v1 = Logical
  <2>1. HunksIn(st \o r) = Kept(<< >>, Logical)
    BY <1>1, <1>2, <1>4 DEF Piped
  <2>2. PICK none, x : none = << >> /\ x = o1 \o v1
    OBVIOUS
  <2>3. Kept(none, Logical).out = Logical /\ Kept(q1, x).out = x
    BY KeptIs
  <2> QED BY <1>12, <2>1, <2>2, <2>3
<1>14. o1 = o \o v
  <2>1. PICK x : x = o \o v
    OBVIOUS
  <2>2. Kept(q, x).out = x /\ Kept(p1, o1).out = o1
    BY KeptIs
  <2> QED BY <1>9, <1>10, <2>1, <2>2
<1>15. PICK e \in Nat : e = Len(o1) /\ e <= 5 /\ o1 = Win(Logical, z, e)
  <2>1. PICK y \in Nat, k \in Nat, c \in Nat :
           /\ y = 0 /\ k = Len(o1) /\ c = Len(o1 \o v1) /\ k <= c
           /\ o1 = Win(o1 \o v1, y, k)
    <3>1. o1 \in Seq(Tok) /\ v1 \in Seq(Tok)
      BY <1>10, <1>11
    <3>2. \E y \in Nat, k \in Nat, c \in Nat :
             /\ y = 0 /\ k = Len(o1) /\ c = Len(o1 \o v1) /\ k <= c
             /\ o1 = Win(o1 \o v1, y, k) /\ v1 = Win(o1 \o v1, k, c)
      BY <3>1, WinOfConcat
    <3> QED BY <3>2
  <2>2. c = 5
    BY <1>13, <2>1, LogicalIs
  <2> QED BY <1>1, <1>13, <2>1, <2>2
<1>16. PICK k \in Nat : k = Len(o) /\ k <= e /\ v = Win(o1, k, e)
  <2>1. PICK y \in Nat, k \in Nat, c \in Nat :
           /\ k = Len(o) /\ c = Len(o \o v) /\ k <= c /\ v = Win(o \o v, k, c)
    <3>1. o \in Seq(Tok) /\ v \in Seq(Tok)
      BY <1>6, <1>8
    <3>2. \E y \in Nat, k \in Nat, c \in Nat :
             /\ y = 0 /\ k = Len(o) /\ c = Len(o \o v) /\ k <= c
             /\ o = Win(o \o v, y, k) /\ v = Win(o \o v, k, c)
      BY <3>1, WinOfConcat
    <3> QED BY <3>2
  <2>2. c = e
    BY <1>14, <1>15, <2>1
  <2> QED BY <1>14, <2>1, <2>2
<1>20. k = w
  <2>1. z \in Nat /\ w \in Nat /\ z <= w /\ w <= Len(Logical) /\ Logical \in Seq(Tok)
    <3>1. Len(Logical) = 5 /\ Logical \in Seq(Tok)
      BY LogicalIs
    <3>2. z \in Nat /\ z = 0
      BY <1>1
    <3> QED BY <3>1, <3>2
  <2>2. Len(Win(Logical, z, w)) = w - z
    <3>1. Part(Tok, Logical, z, w)
      BY <2>1, WinPart
    <3> QED BY <3>1 DEF Part
  <2> QED BY <1>1, <1>7, <1>16, <2>2
<1>21. v = Win(Logical, w, e)
  <2>1. Logical \in Seq(Tok) /\ w \in Nat /\ e \in Nat /\ w <= e /\ e <= Len(Logical) /\ z \in Nat
    <3>1. Len(Logical) = 5 /\ Logical \in Seq(Tok)
      BY LogicalIs
    <3> QED BY <1>1, <1>15, <1>16, <1>20, <3>1
  <2>2. PICK L : L = Logical
    OBVIOUS
  <2>3. L \in Seq(Tok) /\ w \in Nat /\ e \in Nat /\ w <= e /\ e <= Len(L)
    BY <2>1, <2>2
  <2>4. \E y \in Nat : y = 0 /\ Win(Win(L, y, e), w, e) = Win(L, w, e)
    BY <2>3, WinOfFront
  <2> QED BY <1>1, <1>15, <1>16, <1>20, <2>2, <2>4
<1>22. Vless!PushHunks(p, t) = Kept(q, Win(Logical, w, e))
  BY <1>8, <1>21, PushHunksIs
<1>23. e \in w .. 5 /\ Carried(T, m, q, e)
  <2>1. e \in w .. 5
    BY <1>15, <1>16, <1>20
  <2>2. HunksIn(Win(T, 1, m)) = Kept(q, Win(Logical, 0, e))
    BY <1>1, <1>4, <1>9, <1>14, <1>15
  <2>3. m > 0
    OBVIOUS
  <2> QED BY <2>1, <2>2, <2>3 DEF Carried
<1> QED BY <1>3, <1>22, <1>23 DEF TakesHunks

(* The same bytes at two places are the same part.                         *)
Agree(s, p, q, t, a, b) == q - p = b - a /\ \A i \in 1 .. q - p : s[p + i] = t[a + i]

(* ... are equal.                                                          *)
LEMMA WinsEqual ==
  ASSUME NEW s \in Seq(Tok), NEW t \in Seq(Tok), NEW p \in Nat, NEW q \in Nat, NEW a \in Nat,
         NEW b \in Nat, p <= q, q <= Len(s), a <= b, b <= Len(t), Agree(s, p, q, t, a, b)
  PROVE  Win(s, p, q) = Win(t, a, b)
<1>1. /\ Win(s, p, q) \in Seq(Tok) /\ Len(Win(s, p, q)) = q - p
      /\ \A i \in 1 .. q - p : Win(s, p, q)[i] = s[p + i]
  BY WinFacts
<1>2. /\ Win(t, a, b) \in Seq(Tok) /\ Len(Win(t, a, b)) = b - a
      /\ \A i \in 1 .. b - a : Win(t, a, b)[i] = t[a + i]
  BY WinFacts
<1>3. q - p = b - a /\ \A i \in 1 .. q - p : s[p + i] = t[a + i]
  BY DEF Agree
<1>4. PICK x \in Seq(Tok), y \in Seq(Tok) : x = Win(s, p, q) /\ y = Win(t, a, b)
  BY <1>1, <1>2
<1>5. Len(x) = Len(y)
  BY <1>1, <1>2, <1>3, <1>4
<1>6. \A i \in 1 .. Len(x) : x[i] = y[i]
  BY <1>1, <1>2, <1>3, <1>4
<1>7. x = y
  BY <1>5, <1>6, SeqEqual
<1> QED BY <1>4, <1>7

(* What a transport that only copies hands on.                             *)
LEMMA CarriesCopy ==
  ASSUME NEW T, Piped(T), kind \notin {"ws", "grpc"}, NEW n \in Nat, NEW m \in Nat, NEW p, NEW w \in 0 .. 5,
         n >= 1, n <= m, m <= Len(T), Carried(T, n, p, w)
  PROVE  p = << >> /\ \E v \in w .. 5 :
           Win(T, n, m) = Win(Logical, w, v) /\ Carried(T, m, p, v)
<1>1. T \in Seq(Tok) /\ Len(T) = 6 /\ \A i \in 1 .. 5 : T[i + 1] = Logical[i]
  BY DEF Piped
<1>2. p = << >> /\ w = n - 1
  BY <1>1 DEF Carried
<1>3. PICK v \in Nat : v = m - 1
  OBVIOUS
<1>4. v \in w .. 5 /\ m \in 1 .. 6
  BY <1>1, <1>2, <1>3
<1>5. Carried(T, m, p, v)
  BY <1>2, <1>3 DEF Carried
<1>7. Win(T, n, m) = Win(Logical, w, v)
  <2>1. PICK L \in Seq(Tok) : L = Logical /\ Len(L) = 5
    BY LogicalIs
  <2>2. /\ T \in Seq(Tok) /\ L \in Seq(Tok) /\ w \in Nat /\ v \in Nat
        /\ n <= m /\ m <= Len(T) /\ w <= v /\ v <= Len(L)
    BY <1>1, <1>4, <2>1
  <2>3. m - n = v - w
    BY <1>2, <1>3
  <2>4. \A i \in 1 .. m - n : T[n + i] = L[w + i]
    <3> TAKE i \in 1 .. m - n
    <3>1. w + i \in 1 .. 5 /\ n + i = (w + i) + 1
      BY <1>1, <1>2
    <3> QED BY <1>1, <2>1, <3>1
  <2>5. Agree(T, n, m, L, w, v)
    BY <2>3, <2>4 DEF Agree
  <2>6. Win(T, n, m) = Win(L, w, v)
    BY <2>2, <2>5, WinsEqual
  <2> QED BY <2>1, <2>6
<1> QED BY <1>2, <1>4, <1>5, <1>7

(* A message of a WebSocket: the pings and the end are not handed on.      *)
TakesMessage(T, n, p, w) ==
  /\ T[n + 1][1] = "close" => n + 1 = Len(T) /\ Carried(T, n + 1, p, w)
  /\ T[n + 1][1] = "ping" => Carried(T, n + 1, p, w)
  /\ T[n + 1][1] \notin {"close", "ping"} => \E v \in w .. 5 :
       <<T[n + 1]>> = Win(Logical, w, v) /\ Carried(T, n + 1, p, v)

(* One message at a time.                                                  *)
LEMMA CarriesMessage ==
  ASSUME NEW T, Piped(T), kind = "ws", NEW n \in 0 .. 6, NEW p, NEW w \in 0 .. 5,
         Carried(T, n, p, w)
  PROVE  p = << >> /\ Len(T) = 7 /\ TakesMessage(T, n, p, w)
<1>1. /\ T \in Seq(Tok) /\ Len(T) = 7 /\ T[1][1] = "ping" /\ T[7][1] = "close"
      /\ \A i \in 1 .. 5 : T[i + 1] = Logical[i]
  BY DEF Piped
<1>2. \A i \in 1 .. 5 : Logical[i][1] \notin {"close", "ping"}
  <2> TAKE i \in 1 .. 5
  <2>1. Logical[1] = <<"version", 0>> /\ Logical[2] = <<"addons", 1>> /\ Logical[3] = <<"addon", 0>>
        /\ Logical[4] = <<"plain", 1>> /\ Logical[5] = <<"plain", 2>>
    BY LogicalIs
  <2>2. i = 1 \/ i = 2 \/ i = 3 \/ i = 4 \/ i = 5
    OBVIOUS
  <2> QED BY <2>1, <2>2
<1>3. CASE n = 0
  <2>1. p = << >> /\ w = 0
    BY <1>3 DEF Carried
  <2>2. Carried(T, 1, p, w)
    BY <2>1 DEF Carried
  <2> QED BY <1>1, <1>3, <2>1, <2>2 DEF TakesMessage
<1>4. CASE n \in 1 .. 5
  <2>1. p = << >> /\ w = n - 1
    BY <1>4 DEF Carried
  <2>2. T[n + 1] = Logical[n] /\ T[n + 1][1] \notin {"close", "ping"}
    BY <1>1, <1>2, <1>4
  <2>3. Carried(T, n + 1, p, n)
    BY <1>4, <2>1 DEF Carried
  <2>4. <<T[n + 1]>> = Win(Logical, w, n)
    <3>1. PICK L \in Seq(Tok) : L = Logical /\ Len(L) = 5
      BY LogicalIs
    <3>2. w \in Nat /\ n \in Nat /\ w <= n /\ n <= Len(L) /\ n - w = 1 /\ w + 1 = n
      BY <1>4, <2>1, <3>1
    <3>3. /\ Win(L, w, n) \in Seq(Tok) /\ Len(Win(L, w, n)) = n - w
          /\ \A i \in 1 .. n - w : Win(L, w, n)[i] = L[w + i]
      BY <3>2, WinFacts
    <3>4. Win(L, w, n)[1] = L[n] /\ Len(Win(L, w, n)) = 1
      BY <3>2, <3>3
    <3>5. PICK x \in Seq(Tok) : x = Win(L, w, n)
      BY <3>3
    <3>6. PICK y \in Tok : y = L[n]
      BY <1>4, <3>1, ElementOfSeq
    <3>7. x = <<y>>
      BY <3>4, <3>5, <3>6
    <3> QED BY <2>2, <3>1, <3>5, <3>6, <3>7
  <2>5. n \in w .. 5
    BY <1>4, <2>1
  <2> QED BY <1>1, <2>1, <2>2, <2>3, <2>4, <2>5 DEF TakesMessage
<1>5. CASE n = 6
  <2>1. p = << >> /\ w = 5
    BY <1>5 DEF Carried
  <2>2. Carried(T, 7, p, w)
    BY <2>1 DEF Carried
  <2> QED BY <1>1, <1>5, <2>1, <2>2 DEF TakesMessage
<1> QED BY <1>3, <1>4, <1>5

-----------------------------------------------------------------------------
(* The download, from the peer to the user.  Of the answer T the bytes up  *)
(* to m have arrived, and those up to n have been read by the first task   *)
(* behind the connection.                                                  *)
Net(T, n, m) ==
  /\ n <= m /\ m <= Len(T)
  /\ rx = Win(T, n, m)
  /\ coming = Win(T, m, Len(T)) \/ (coming = << >> /\ reset)
  /\ rxEnd => coming = << >>
  /\ reset => rxEnd

(* The task of a transport has handed on the bytes up to w of the stream   *)
(* behind the head: once it has ended on a connection that works, all of   *)
(* them, unless bridge_vless_stream had given up before.                   *)
Handed(T, n, w) ==
  /\ frag \in Seq(Tok)
  /\ tdown # "end" => Carried(T, n, frag, w)
  /\ tdown \in {"connect", "response"} => n = 0
  /\ tdown = "relay" /\ kind # "ws" => n >= 1
  /\ dn2End <=> tdown = "end"
  /\ tup = "connect" <=> tdown = "connect"
  /\ tdown = "end" /\ (down # "end" \/ gotEnd) /\ ~reset =>
       n = Len(T) /\ w = 5 /\ frag = << >>
  /\ gotEnd => tdown = "end"

(* A bare transport has no task and no pipe of its own; the pipe of the    *)
(* others holds what bridge_vless_stream has not read.                     *)
Straight(n, c) ==
  c = n /\ tdown = "end" /\ tup = "end" /\ frag = << >> /\ dn2 = << >> /\ ~dn2End
Between(c, w) == c <= w /\ w <= 5 /\ dn2 = Win(Logical, c, w)
Linked(T, n, c, w) ==
  /\ kind \in Vless!Bare => Straight(n, c)
  /\ kind \notin Vless!Bare => Handed(T, n, w) /\ Between(c, w)

(* What is to be read in TLS.                                              *)
Readable(L, c, d) == \A i \in c + 1 .. d : L[i][1] # "bare"

(* bridge_vless_stream has read the bytes up to c of its stream L; what it *)
(* has decoded is behind the header and before b.                          *)
ReadTo(L, c, b) ==
  /\ HeadLen(L) <= b /\ b <= Len(L)
  /\ Readable(L, 0, b)
  /\ got = Decoded(Win(L, HeadLen(L), b)).out
  /\ down # "end" \/ gotEnd => unpad = Decoded(Win(L, HeadLen(L), b)).state
  /\ down = "header" => c = 0 /\ b = HeadLen(L)
  /\ down = "addon" => c = 2 /\ b = 3 /\ HeadLen(L) = 3
  /\ down = "relay" => c = b
  /\ gotEnd => down = "end"
  /\ gotEnd /\ ~reset => c = b /\ (c = Len(L) \/ (c + 1 = Len(L) /\ L[c + 1][1] = "bare"))

DownAt(T, n, m, c, w, b) ==
  /\ n \in Nat /\ m \in Nat /\ c \in Nat /\ w \in Nat /\ b \in Nat
  /\ Net(T, n, m)
  /\ Linked(T, n, c, w)
  /\ ReadTo(Stream(T), c, b)
DownInv ==
  \E T \in Vless!Answers(kind), n, m, c, w, b \in Nat : DownAt(T, n, m, c, w, b)

(* The network.                                                            *)
LEMMA NetArrives ==
  ASSUME NEW T \in Seq(Tok), NEW n \in Nat, NEW m \in Nat, Net(T, n, m), Vless!Arrive
  PROVE  \E q \in Nat : q = m + 1 /\ Net(T, n, q)'
<1>1. PICK l \in Nat : l = Len(T) /\ m <= l /\ n <= m /\ l <= Len(T) /\ m <= Len(T)
  BY LenProperties DEF Net
<1>2. coming = Win(T, m, l) /\ coming # << >> /\ rx = Win(T, n, m)
  BY <1>1 DEF Net, Vless!Arrive
<1>3. m < l
  <2>1. Win(T, m, l) = << >> <=> m = l
    BY <1>1, WinEmpty
  <2> QED BY <1>1, <1>2, <2>1
<1>4. /\ Append(Win(T, n, m), Head(Win(T, m, l))) = Win(T, n, m + 1)
      /\ Tail(Win(T, m, l)) = Win(T, m + 1, l)
  BY <1>1, <1>3, WinGrows
<1>5. rx' = Win(T, n, m + 1) /\ coming' = Win(T, m + 1, l)
  BY <1>2, <1>4 DEF Vless!Arrive
<1>6. rxEnd' = rxEnd /\ reset' = reset /\ ~rxEnd
  BY <1>2 DEF Vless!Arrive, Vless!peerOut, Net
<1>7. PICK q \in Nat : q = m + 1
  OBVIOUS
<1> QED BY <1>1, <1>3, <1>5, <1>6, <1>7 DEF Net

(* The end of the connection.                                              *)
LEMMA NetEnds ==
  ASSUME NEW T \in Seq(Tok), NEW n \in Nat, NEW m \in Nat, Net(T, n, m),
         Vless!PeerEnds \/ Vless!ConnectionBreaks
  PROVE  Net(T, n, m)'
<1>1. rx' = rx
  BY DEF Vless!PeerEnds, Vless!ConnectionBreaks
<1> QED BY <1>1 DEF Net, Vless!PeerEnds, Vless!ConnectionBreaks

(* A read of k bytes of a part.                                            *)
LEMMA WinTaken ==
  ASSUME NEW s \in Seq(Tok), NEW p \in Nat, NEW q \in Nat, p <= q, q <= Len(s),
         NEW k \in Nat, k <= Len(Win(s, p, q))
  PROVE  \E r \in Nat : /\ r = p + k /\ r <= q
                        /\ SubSeq(Win(s, p, q), 1, k) = Win(s, p, r)
                        /\ Vless!From(Win(s, p, q), k + 1) = Win(s, r, q)
<1>1. Len(Win(s, p, q)) = q - p
  BY WinFacts
<1>2. PICK r \in Nat : r = p + k
  OBVIOUS
<1>3. r <= q /\ r \in p .. q /\ k = r - p
  BY <1>1, <1>2
<1>4. PICK j \in Nat : j = k + 1
  OBVIOUS
<1>5. \A x \in p .. q, i \in Nat, h \in Nat : i = x - p /\ h = i + 1 =>
        /\ SubSeq(Win(s, p, q), 1, i) = Win(s, p, x)
        /\ Vless!From(Win(s, p, q), h) = Win(s, x, q)
  BY WinRead
<1>6. /\ SubSeq(Win(s, p, q), 1, k) = Win(s, p, r)
      /\ Vless!From(Win(s, p, q), j) = Win(s, r, q)
  BY <1>3, <1>4, <1>5
<1> QED BY <1>2, <1>3, <1>4, <1>6

(* A read of what has arrived.                                             *)
LEMMA NetRead ==
  ASSUME NEW T \in Seq(Tok), NEW n \in Nat, NEW m \in Nat, Net(T, n, m),
         NEW k \in Nat, k <= Len(rx), rx' = Vless!From(rx, k + 1),
         UNCHANGED <<coming, rxEnd, reset>>
  PROVE  \E q \in Nat : q = n + k /\ q <= m /\ SubSeq(rx, 1, k) = Win(T, n, q) /\ Net(T, q, m)'
<1>1. n <= m /\ m <= Len(T) /\ rx = Win(T, n, m)
  BY DEF Net
<1>2. k <= Len(Win(T, n, m))
  BY <1>1
<1>3. PICK q \in Nat : /\ q = n + k /\ q <= m
                      /\ SubSeq(Win(T, n, m), 1, k) = Win(T, n, q)
                      /\ Vless!From(Win(T, n, m), k + 1) = Win(T, q, m)
  BY <1>1, <1>2, WinTaken
<1>4. Net(T, q, m)'
  BY <1>1, <1>3 DEF Net
<1> QED BY <1>1, <1>3, <1>4

(* The others leave the network alone.                                     *)
LEMMA NetSame ==
  ASSUME NEW T, NEW n, NEW m, Net(T, n, m), UNCHANGED <<coming, rx, rxEnd, reset>>
  PROVE  Net(T, n, m)'
BY DEF Net

(* Without its head.                                                       *)
LEMMA TailIs ==
  ASSUME NEW s \in Seq(Tok), s # << >>
  PROVE  Tail(s) = Vless!From(s, 1 + 1) /\ 1 <= Len(s)
<1>1. Tail(s) = SubSeq(s, 2, Len(s))
  OBVIOUS
<1>2. Len(s) \in Nat /\ Len(s) # 0
  BY LenProperties, EmptySeq
<1> QED BY <1>1, <1>2 DEF Vless!From

(* The transport of a connection does not change.                          *)
LEMMA CarriedSame ==
  ASSUME NEW T, NEW n, NEW p, NEW w, kind' = kind, Carried(T, n, p, w)
  PROVE  Carried(T, n, p, w)'
BY DEF Carried

(* What is written to the pipe is behind what is in it.                    *)
LEMMA PipeFills ==
  ASSUME NEW c \in Nat, NEW w \in Nat, Between(c, w), NEW v \in w .. 5,
         dn2' = dn2 \o Win(Logical, w, v)
  PROVE  v \in Nat /\ Between(c, v)'
<1>1. c <= w /\ dn2 = Win(Logical, c, w) /\ w <= v /\ v \in Nat /\ v <= 5 /\ c <= v
  BY DEF Between
<1>2. PICK L \in Seq(Tok) : L = Logical /\ v <= Len(L)
  BY <1>1, LogicalIs
<1>3. Win(L, c, w) \o Win(L, w, v) = Win(L, c, v)
  BY <1>1, <1>2, WinJoin
<1>4. dn2' = Win(Logical, c, v)
  BY <1>1, <1>2, <1>3
<1> QED BY <1>1, <1>4 DEF Between

(* A read of the transport's task, of which out is handed on.              *)
LEMMA HandsOn ==
  ASSUME NEW T, NEW n \in Nat, NEW q \in Nat, NEW c \in Nat, NEW w \in Nat, NEW v \in w .. 5,
         Handed(T, n, w), Between(c, w), tdown = "relay", kind' = kind,
         UNCHANGED <<down, gotEnd, reset, tup>>, kind = "ws" \/ q >= 1,
         frag' \in Seq(Tok), Carried(T, q, frag', v), Vless!WritePiped(Win(Logical, w, v))
  PROVE  \E x \in Nat : Handed(T, q, x)' /\ Between(c, x)'
<1>1. ~gotEnd /\ tup # "connect" /\ ~dn2End
  BY DEF Handed
<1>2. CASE Vless!InDropped /\ Win(Logical, w, v) # << >>
  <2>1. tdown' = "end" /\ dn2End' /\ dn2' = dn2 /\ down = "end"
    BY <1>2 DEF Vless!WritePiped, Vless!DownEnd, Vless!InDropped
  <2>2. Between(c, w)'
    BY <2>1 DEF Between
  <2>3. Handed(T, q, w)'
    BY <1>1, <2>1 DEF Handed
  <2> QED BY <2>2, <2>3
<1>3. CASE ~(Vless!InDropped /\ Win(Logical, w, v) # << >>)
  <2>1. tdown' = tdown /\ dn2End' = dn2End /\ dn2' = dn2 \o Win(Logical, w, v)
    BY <1>3 DEF Vless!WritePiped
  <2>2. v \in Nat /\ Between(c, v)'
    BY <2>1, PipeFills
  <2>3. PICK p : p = frag'
    OBVIOUS
  <2>4. Carried(T, q, p, v)'
    BY <2>3, CarriedSame
  <2>5. Carried(T, q, frag, v)'
    BY <2>3, <2>4
  <2>6. Handed(T, q, v)'
    BY <1>1, <2>1, <2>5 DEF Handed
  <2> QED BY <2>2, <2>6
<1> QED BY <1>2, <1>3

(* The end of the connection, or of its last answer.                       *)
LEMMA NetDrained ==
  ASSUME NEW T \in Seq(Tok), NEW n \in Nat, NEW m \in Nat, Net(T, n, m), rx = << >>, rxEnd, ~reset
  PROVE  n = Len(T) /\ m = Len(T)
<1>1. PICK l \in Nat : l = Len(T)
  BY LenProperties
<1>2. /\ n <= m /\ m <= l /\ l <= Len(T) /\ m <= Len(T) /\ n <= Len(T)
      /\ Win(T, n, m) = << >> /\ Win(T, m, l) = << >>
  BY <1>1 DEF Net
<1>3. Win(T, n, m) = << >> <=> n = m
  BY <1>2, WinEmpty
<1>4. Win(T, m, l) = << >> <=> m = l
  BY <1>2, WinEmpty
<1> QED BY <1>1, <1>2, <1>3, <1>4

(* The head of the answer.                                                 *)
LEMMA AwaitStep ==
  ASSUME NEW T, Piped(T), kind # "ws", NEW n \in Nat, NEW m \in Nat, NEW c \in Nat, NEW w \in Nat,
         Net(T, n, m), Handed(T, n, w), Between(c, w), Vless!AwaitsResponse
  PROVE  \E q \in Nat : Net(T, q, m)' /\ Handed(T, q, w)' /\ Between(c, w)'
<1>1. T \in Seq(Tok) /\ Len(T) >= 2
  BY DEF Piped
<1>2. /\ UNCHANGED <<dn2, frag, kind, coming, rxEnd, reset, tup, down, gotEnd>>
      /\ tdown = "response"
  BY DEF Vless!AwaitsResponse, Vless!tdownRest, Vless!downVars
<1>3. n = 0 /\ Carried(T, n, frag, w) /\ frag \in Seq(Tok) /\ ~gotEnd /\ tup # "connect" /\ ~dn2End
  BY <1>2 DEF Handed
<1>4. Between(c, w)'
  BY <1>2 DEF Between
<1>5. CASE rx # << >> /\ rx' = Tail(rx) /\ tdown' = "relay" /\ UNCHANGED dn2End
  <2>1. rx \in Seq(Tok)
    <3>1. n <= m /\ m <= Len(T) /\ rx = Win(T, n, m)
      BY DEF Net
    <3>2. Win(T, n, m) \in Seq(Tok)
      BY <1>1, <3>1, WinFacts
    <3> QED BY <3>1, <3>2
  <2>2. rx' = Vless!From(rx, 1 + 1) /\ 1 <= Len(rx)
    BY <1>5, <2>1, TailIs
  <2>3. PICK k \in Nat : k = 1
    OBVIOUS
  <2>4. PICK q \in Nat : q = n + k /\ Net(T, q, m)'
    <3>1. T \in Seq(Tok) /\ k <= Len(rx) /\ rx' = Vless!From(rx, k + 1) /\ UNCHANGED <<coming, rxEnd, reset>>
      BY <1>1, <1>2, <2>2, <2>3
    <3> QED BY <3>1, NetRead
  <2>5. q = 1
    BY <1>3, <2>3, <2>4
  <2>6. Carried(T, 1, frag, w)
    <3>1. PICK p : p = frag
      OBVIOUS
    <3>2. Carried(T, 0, p, w)
      BY <1>3, <3>1
    <3>3. Carried(T, 1, p, w)
      BY <3>2, CarriesHead
    <3> QED BY <3>1, <3>3
  <2>7. Carried(T, q, frag, w)'
    BY <1>2, <2>5, <2>6 DEF Carried
  <2>8. Handed(T, q, w)'
    BY <1>2, <1>3, <1>5, <2>5, <2>7 DEF Handed
  <2> QED BY <1>4, <2>4, <2>8
<1>6. CASE rx = << >> /\ rxEnd /\ Vless!DownEnd /\ UNCHANGED rx
  <2>1. reset
    <3>1. ~reset => n = Len(T)
      BY <1>1, <1>6, NetDrained
    <3> QED BY <1>1, <1>3, <3>1
  <2>2. Net(T, n, m)'
    BY <1>2, <1>6 DEF Net
  <2>3. Handed(T, n, w)'
    BY <1>2, <1>3, <1>6, <2>1 DEF Handed, Vless!DownEnd
  <2> QED BY <1>4, <2>2, <2>3
<1> QED BY <1>5, <1>6 DEF Vless!AwaitsResponse

(* ... which leaves nothing behind.                                        *)
LEMMA EndStep ==
  ASSUME NEW T, Piped(T), NEW n \in Nat, NEW m \in Nat, NEW c \in Nat, NEW w \in Nat,
         Net(T, n, m), Handed(T, n, w), Between(c, w), Vless!ResponseEnds
  PROVE  Net(T, n, m)' /\ Handed(T, n, w)' /\ Between(c, w)'
<1>1. T \in Seq(Tok) /\ Len(T) >= 2
  BY DEF Piped
<1>2. /\ UNCHANGED <<rx, dn2, frag, kind, coming, rxEnd, reset, tup, down, gotEnd>>
      /\ tdown = "relay" /\ rx = << >> /\ rxEnd /\ tdown' = "end" /\ dn2End'
  BY DEF Vless!ResponseEnds, Vless!tdownRest, Vless!downVars, Vless!DownEnd
<1>3. Carried(T, n, frag, w) /\ frag \in Seq(Tok) /\ ~gotEnd /\ tup # "connect"
  BY <1>2 DEF Handed
<1>4. Between(c, w)' /\ Net(T, n, m)'
  BY <1>2 DEF Between, Net
<1>5. ~reset => n = Len(T) /\ w = 5 /\ frag = << >>
  <2> SUFFICES ASSUME ~reset PROVE n = Len(T) /\ w = 5 /\ frag = << >>
    OBVIOUS
  <2>1. n = Len(T)
    BY <1>1, <1>2, NetDrained
  <2>2. PICK p \in Seq(Tok) : p = frag
    BY <1>3
  <2>3. w \in 0 .. 5 /\ Carried(T, Len(T), p, w)
    BY <1>3, <2>1, <2>2 DEF Between
  <2>4. p = << >> /\ w = 5
    BY <2>3, CarriesAll
  <2> QED BY <2>1, <2>2, <2>4
<1>6. Handed(T, n, w)'
  BY <1>2, <1>3, <1>5 DEF Handed
<1> QED BY <1>4, <1>6

(* What is read of the peer.                                               *)
LEMMA PeerRead ==
  ASSUME NEW T, Piped(T), NEW n \in Nat, NEW m \in Nat, Net(T, n, m), NEW k \in Nat,
         k >= 1, Vless!ReadsPeer(k), Vless!tdownRest' = Vless!tdownRest
  PROVE  /\ T \in Seq(Tok) /\ rx \in Seq(Tok) /\ m <= Len(T) /\ n <= m
         /\ \E q \in Nat : /\ q = n + k /\ q <= m /\ n <= q /\ q >= 1 /\ q <= Len(T)
                           /\ SubSeq(rx, 1, k) = Win(T, n, q) /\ Net(T, q, m)'
<1>1. T \in Seq(Tok) /\ n <= m /\ m <= Len(T) /\ rx = Win(T, n, m)
  BY DEF Piped, Net
<1>2. rx \in Seq(Tok)
  <2>1. Win(T, n, m) \in Seq(Tok)
    BY <1>1, WinFacts
  <2> QED BY <1>1, <2>1
<1>3. UNCHANGED <<coming, rxEnd, reset>> /\ k <= Len(rx) /\ rx' = Vless!From(rx, k + 1)
  BY DEF Vless!tdownRest, Vless!ReadsPeer
<1>4. PICK q \in Nat : q = n + k /\ q <= m /\ SubSeq(rx, 1, k) = Win(T, n, q) /\ Net(T, q, m)'
  BY <1>1, <1>3, NetRead
<1>5. n <= q /\ q >= 1 /\ q <= Len(T)
  <2>1. Len(T) \in Nat
    BY <1>1, LenProperties
  <2> QED BY <1>1, <1>4, <2>1
<1> QED BY <1>1, <1>2, <1>4, <1>5

(* What the transports but WebSocket and gRPC do with it.                  *)
LEMMA CopyStep ==
  ASSUME NEW T, Piped(T), kind \notin {"ws", "grpc"}, NEW n \in Nat, NEW m \in Nat, NEW c \in Nat,
         NEW w \in Nat, Net(T, n, m), Handed(T, n, w), Between(c, w),
         NEW k \in Nat, k >= 1, Vless!ReadsPeer(k), Vless!WritePiped(SubSeq(rx, 1, k)),
         UNCHANGED frag, Vless!tdownRest' = Vless!tdownRest
  PROVE  \E q \in Nat, x \in Nat : Net(T, q, m)' /\ Handed(T, q, x)' /\ Between(c, x)'
<1>1. PICK q \in Nat : /\ n <= q /\ q >= 1 /\ q <= Len(T)
                       /\ SubSeq(rx, 1, k) = Win(T, n, q) /\ Net(T, q, m)'
  BY PeerRead
<1>2. tdown = "relay" /\ UNCHANGED <<kind, down, gotEnd, reset, tup>>
  BY DEF Vless!tdownRest, Vless!ReadsPeer, Vless!downVars
<1>3. PICK p \in Seq(Tok) : p = frag /\ Carried(T, n, p, w) /\ n >= 1
  BY <1>2 DEF Handed
<1>4. w \in 0 .. 5
  BY DEF Between
<1>5. PICK v \in w .. 5 : Win(T, n, q) = Win(Logical, w, v) /\ Carried(T, q, p, v)
  <2>1. \E v \in w .. 5 : Win(T, n, q) = Win(Logical, w, v) /\ Carried(T, q, p, v)
    BY SMTT(30), <1>1, <1>3, <1>4, CarriesCopy
  <2> QED BY <2>1
<1>6. frag' \in Seq(Tok) /\ Carried(T, q, frag', v)
  BY <1>3, <1>5
<1>7. Vless!WritePiped(Win(Logical, w, v))
  BY <1>1, <1>5
<1>8. \E x \in Nat : Handed(T, q, x)' /\ Between(c, x)'
  BY <1>1, <1>2, <1>6, <1>7, HandsOn
<1> QED BY <1>1, <1>8

(* ... which for gRPC is to take the hunks apart.                          *)
LEMMA HunkRead ==
  ASSUME NEW T, Piped(T), kind = "grpc", NEW n \in Nat, NEW m \in Nat, NEW c \in Nat,
         NEW w \in Nat, Net(T, n, m), Handed(T, n, w), Between(c, w),
         NEW k \in Nat, k >= 1, Vless!ReadsPeer(k),
         frag' = Vless!PushHunks(frag, SubSeq(rx, 1, k)).pending,
         Vless!WritePiped(Vless!PushHunks(frag, SubSeq(rx, 1, k)).out),
         Vless!tdownRest' = Vless!tdownRest
  PROVE  \E q \in Nat, x \in Nat : Net(T, q, m)' /\ Handed(T, q, x)' /\ Between(c, x)'
<1>1. PICK q \in Nat : /\ n <= q /\ q >= 1 /\ q <= Len(T)
                       /\ SubSeq(rx, 1, k) = Win(T, n, q) /\ Net(T, q, m)'
  BY PeerRead
<1>2. tdown = "relay" /\ UNCHANGED <<kind, down, gotEnd, reset, tup>>
  BY DEF Vless!tdownRest, Vless!ReadsPeer, Vless!downVars
<1>3. PICK p \in Seq(Tok) : p = frag /\ Carried(T, n, p, w) /\ n >= 1
  BY <1>2 DEF Handed
<1>4. w \in 0 .. 5
  BY DEF Between
<1>5. PICK o \in Seq(Tok), v \in w .. 5 :
        /\ Vless!PushHunks(p, Win(T, n, q)) = Kept(o, Win(Logical, w, v))
        /\ Carried(T, q, o, v)
  <2>1. TakesHunks(T, n, q, p, w)
    BY <1>1, <1>3, <1>4, CarriesHunks
  <2> QED BY <2>1 DEF TakesHunks
<1>6. frag' = o /\ Vless!WritePiped(Win(Logical, w, v))
  <2>1. PICK y : y = Win(Logical, w, v)
    OBVIOUS
  <2>2. Kept(o, y).pending = o /\ Kept(o, y).out = y
    BY KeptIs
  <2>3. Vless!PushHunks(frag, SubSeq(rx, 1, k)) = Kept(o, y)
    BY <1>1, <1>3, <1>5, <2>1
  <2> QED BY <2>1, <2>2, <2>3
<1>7. frag' \in Seq(Tok) /\ Carried(T, q, frag', v)
  BY <1>5, <1>6
<1>8. \E x \in Nat : Handed(T, q, x)' /\ Between(c, x)'
  BY <1>1, <1>2, <1>6, <1>7, HandsOn
<1> QED BY <1>1, <1>8

(* The download tasks of the transports.                                   *)
LEMMA CopiesStep ==
  ASSUME NEW T, Piped(T), kind \notin {"ws", "grpc"}, NEW n \in Nat, NEW m \in Nat, NEW c \in Nat,
         NEW w \in Nat, Net(T, n, m), Handed(T, n, w), Between(c, w), Vless!Copies
  PROVE  \E q \in Nat, x \in Nat : Net(T, q, m)' /\ Handed(T, q, x)' /\ Between(c, x)'
<1>1. CASE Vless!AwaitsResponse
  <2>1. \E q \in Nat : Net(T, q, m)' /\ Handed(T, q, w)' /\ Between(c, w)'
    BY <1>1, AwaitStep
  <2> QED BY <2>1
<1>2. CASE Vless!ResponseEnds
  <2>1. Net(T, n, m)' /\ Handed(T, n, w)' /\ Between(c, w)'
    BY <1>2, EndStep
  <2> QED BY <2>1
<1>3. CASE (\E k \in 1 .. Len(rx) : Vless!ReadsPeer(k) /\ Vless!WritePiped(SubSeq(rx, 1, k)))
           /\ UNCHANGED <<frag, Vless!tdownRest>>
  <2>1. PICK k \in 1 .. Len(rx) : Vless!ReadsPeer(k) /\ Vless!WritePiped(SubSeq(rx, 1, k))
    BY <1>3
  <2>2. k \in Nat /\ k >= 1 /\ UNCHANGED frag /\ Vless!tdownRest' = Vless!tdownRest
    BY <1>3
  <2> QED BY <2>1, <2>2, CopyStep
<1> QED BY <1>1, <1>2, <1>3 DEF Vless!Copies

(* HTTP/2 and gRPC.                                                        *)
LEMMA H2Step ==
  ASSUME NEW T, Piped(T), NEW n \in Nat, NEW m \in Nat, NEW c \in Nat,
         NEW w \in Nat, Net(T, n, m), Handed(T, n, w), Between(c, w), Vless!H2Download
  PROVE  \E q \in Nat, x \in Nat : Net(T, q, m)' /\ Handed(T, q, x)' /\ Between(c, x)'
<1>0. kind \in {"h2", "grpc"}
  BY DEF Vless!H2Download
<1>1. CASE Vless!AwaitsResponse
  <2>1. \E q \in Nat : Net(T, q, m)' /\ Handed(T, q, w)' /\ Between(c, w)'
    BY <1>0, <1>1, AwaitStep
  <2> QED BY <2>1
<1>2. CASE Vless!ResponseEnds
  <2>1. Net(T, n, m)' /\ Handed(T, n, w)' /\ Between(c, w)'
    BY <1>2, EndStep
  <2> QED BY <2>1
<1>3. CASE ~Vless!AwaitsResponse /\ ~Vless!ResponseEnds
  <2>1. PICK k \in 1 .. Len(rx) :
          LET hunks == IF kind = "grpc" THEN Vless!PushHunks(frag, SubSeq(rx, 1, k))
                       ELSE [pending |-> frag, out |-> SubSeq(rx, 1, k)]
          IN Vless!ReadsPeer(k) /\ frag' = hunks.pending /\ Vless!WritePiped(hunks.out)
    BY <1>3 DEF Vless!H2Download
  <2>2. k \in Nat /\ k >= 1 /\ Vless!tdownRest' = Vless!tdownRest
    BY <1>3 DEF Vless!H2Download
  <2>3. CASE kind = "grpc"
    <3>1. /\ Vless!ReadsPeer(k) /\ frag' = Vless!PushHunks(frag, SubSeq(rx, 1, k)).pending
          /\ Vless!WritePiped(Vless!PushHunks(frag, SubSeq(rx, 1, k)).out)
      BY <2>1, <2>3
    <3> QED BY <2>2, <2>3, <3>1, HunkRead
  <2>4. CASE kind = "h2"
    <3>1. Vless!ReadsPeer(k) /\ UNCHANGED frag /\ Vless!WritePiped(SubSeq(rx, 1, k))
      BY <2>1, <2>4
    <3> QED BY <2>2, <2>4, <3>1, CopyStep
  <2> QED BY <1>0, <2>3, <2>4
<1> QED BY <1>1, <1>2, <1>3

(* A message of a WebSocket: a copy of what is neither a ping nor the end. *)
LEMMA WsStep ==
  ASSUME NEW T, Piped(T), NEW n \in Nat, NEW m \in Nat, NEW c \in Nat,
         NEW w \in Nat, Net(T, n, m), Handed(T, n, w), Between(c, w), Vless!WsDownload
  PROVE  \E q \in Nat, x \in Nat : Net(T, q, m)' /\ Handed(T, q, x)' /\ Between(c, x)'
<1>0. kind = "ws"
  BY DEF Vless!WsDownload
<1>1. CASE Vless!ResponseEnds
  <2>1. Net(T, n, m)' /\ Handed(T, n, w)' /\ Between(c, w)'
    BY <1>1, EndStep
  <2> QED BY <2>1
<1>2. CASE ~Vless!ResponseEnds
  <2>1. PICK k \in Nat : k = 1
    OBVIOUS
  <2>2. /\ k >= 1 /\ Vless!ReadsPeer(k) /\ UNCHANGED frag /\ Vless!tdownRest' = Vless!tdownRest
        /\ CASE rx[1][1] = "close" -> Vless!DownEnd /\ UNCHANGED dn2
             [] rx[1][1] = "ping" -> UNCHANGED <<tdown, dn2, dn2End>>
             [] OTHER -> Vless!WritePiped(<<rx[1]>>)
    BY <1>2, <2>1 DEF Vless!WsDownload, Vless!hopDown
  <2>3. tdown = "relay" /\ UNCHANGED <<kind, down, gotEnd, reset, tup>>
    BY <2>2 DEF Vless!tdownRest, Vless!ReadsPeer, Vless!downVars
  <2>4. /\ T \in Seq(Tok) /\ m <= Len(T) /\ n <= m
        /\ \E q \in Nat : /\ q = n + k /\ q <= m /\ n <= q /\ q >= 1 /\ q <= Len(T)
                          /\ SubSeq(rx, 1, k) = Win(T, n, q) /\ Net(T, q, m)'
    BY <2>1, <2>2, PeerRead
  <2>5. PICK q \in Nat : q = n + 1 /\ q <= m /\ Net(T, q, m)'
    BY <2>1, <2>4
  <2>6. rx[1] = T[n + 1]
    <3>1. rx = Win(T, n, m)
      BY DEF Net
    <3>2. \A i \in 1 .. m - n : Win(T, n, m)[i] = T[n + i]
      BY <2>4, WinFacts
    <3> QED BY <2>5, <3>1, <3>2
  <2>7. PICK p \in Seq(Tok) : p = frag /\ Carried(T, n, p, w)
    BY <2>3 DEF Handed
  <2>8. w \in 0 .. 5 /\ n \in 0 .. 6
    <3>1. Len(T) = 7
      BY <1>0 DEF Piped
    <3> QED BY <2>4, <2>5, <3>1 DEF Between
  <2>9. p = << >> /\ Len(T) = 7 /\ TakesMessage(T, n, p, w)
    BY <1>0, <2>7, <2>8, CarriesMessage
  <2>10. ~gotEnd /\ tup # "connect" /\ ~dn2End
    BY <2>3 DEF Handed
  <2>11. CASE T[n + 1][1] = "close"
    <3>1. tdown' = "end" /\ dn2End' /\ dn2' = dn2
      BY <2>2, <2>6, <2>11 DEF Vless!DownEnd
    <3>2. q = Len(T) /\ Carried(T, Len(T), p, w)
      BY <2>5, <2>9, <2>11 DEF TakesMessage
    <3>3. p = << >> /\ w = 5
      BY <2>8, <3>2, CarriesAll
    <3>4. Handed(T, q, w)'
      BY <2>2, <2>3, <2>7, <2>10, <3>1, <3>2, <3>3 DEF Handed
    <3>5. Between(c, w)'
      BY <3>1 DEF Between
    <3> QED BY <2>5, <3>4, <3>5
  <2>12. CASE T[n + 1][1] = "ping"
    <3>1. UNCHANGED <<tdown, dn2, dn2End>>
      BY <2>2, <2>6, <2>12
    <3>2. Carried(T, q, p, w)'
      BY <2>3, <2>5, <2>9, <2>12, CarriedSame DEF TakesMessage
    <3>3. Handed(T, q, w)'
      BY <1>0, <2>2, <2>3, <2>7, <2>10, <3>1, <3>2 DEF Handed
    <3>4. Between(c, w)'
      BY <3>1 DEF Between
    <3> QED BY <2>5, <3>3, <3>4
  <2>13. CASE T[n + 1][1] \notin {"close", "ping"}
    <3>1. PICK v \in w .. 5 : <<T[n + 1]>> = Win(Logical, w, v) /\ Carried(T, q, p, v)
      BY <2>5, <2>9, <2>13 DEF TakesMessage
    <3>2. Vless!WritePiped(Win(Logical, w, v))
      BY <2>2, <2>6, <2>13, <3>1
    <3>3. frag' \in Seq(Tok) /\ Carried(T, q, frag', v)
      BY <2>2, <2>7, <3>1
    <3>4. \E x \in Nat : Handed(T, q, x)' /\ Between(c, x)'
      BY <1>0, <2>3, <3>2, <3>3, HandsOn
    <3> QED BY <2>5, <3>4
  <2> QED BY <2>11, <2>12, <2>13
<1> QED BY <1>1, <1>2

(* The pipe of HTTP/3, before and when its connection is there.            *)
LEMMA H3ConnectsStep ==
  ASSUME NEW T, NEW n \in Nat, NEW m \in Nat, NEW c \in Nat, kind \notin Vless!Bare,
         NEW w \in Nat, Net(T, n, m), Handed(T, n, w), Between(c, w), Vless!H3Connects
  PROVE  Net(T, n, m)' /\ Handed(T, n, w)' /\ Between(c, w)'
<1>1. UNCHANGED <<kind, rx, coming, rxEnd, reset, dn2, frag, down, gotEnd>> /\ tup = "connect"
  BY DEF Vless!H3Connects, Vless!peerOut, Vless!downVars
<1>2. Net(T, n, m)' /\ Between(c, w)'
  BY <1>1 DEF Net, Between
<1>3. tdown = "connect" /\ n = 0 /\ Carried(T, n, frag, w) /\ frag \in Seq(Tok) /\ ~gotEnd /\ ~dn2End
  BY <1>1 DEF Handed
<1>4. CASE ~reset /\ tup' = "relay" /\ tdown' = "response" /\ UNCHANGED dn2End
  <2>1. Carried(T, n, frag, w)'
    BY <1>1, <1>3 DEF Carried
  <2> QED BY <1>1, <1>2, <1>3, <1>4, <2>1 DEF Handed
<1>5. CASE reset /\ tup' = "end" /\ Vless!DownEnd
  BY <1>1, <1>2, <1>3, <1>5 DEF Handed, Vless!DownEnd
<1> QED BY <1>4, <1>5 DEF Vless!H3Connects

-----------------------------------------------------------------------------
(* What has been decoded is payload, and a state of VisionUnpaddingState.  *)
LEMMA StartIs ==
  ASSUME NEW s \in Seq(Tok)
  PROVE  \E m \in {"unknown", "padding", "raw"}, p \in Seq(Tok), o \in Seq(Tok) :
           Start(s) = Vless!Push(m, p, o)
<1>1. Len(s) \in Nat /\ << >> \in Seq(Tok)
  BY LenProperties, EmptySeq
<1>2. CASE Len(s) < 2
  BY <1>1, <1>2 DEF Start
<1>3. CASE Len(s) >= 2 /\ SubSeq(s, 1, 2) # Vless!Uuid
  <2>1. Start(s) = Vless!Push("raw", << >>, s)
    BY <1>1, <1>3 DEF Start
  <2> QED BY <1>1, <2>1
<1>4. CASE Len(s) >= 2 /\ SubSeq(s, 1, 2) = Vless!Uuid
  <2>1. Vless!From(s, 3) \in Seq(Tok)
    <3>1. 3 \in 1 .. Len(s) + 1
      BY <1>1, <1>4
    <3> QED BY <3>1, FromFacts
  <2>2. Start(s) = Vless!UnpadBlocks(Vless!From(s, 3))
    BY <1>1, <1>4 DEF Start
  <2>3. PICK y \in UnpadResult : y = Start(s)
    BY <2>1, <2>2, UnpadType
  <2>4. PICK m \in {"padding", "raw"}, p \in Seq(Tok), o \in Seq(Tok) : y = Vless!Push(m, p, o)
    BY ResultIsPush
  <2> QED BY <2>3, <2>4
<1> QED BY <1>1, <1>2, <1>3, <1>4

(* One more read of it.                                                    *)
LEMMA PushIsPush ==
  ASSUME NEW m \in {"unknown", "padding", "raw"}, NEW p \in Seq(Tok), NEW t \in Seq(Tok)
  PROVE  \E n \in {"unknown", "padding", "raw"}, q \in Seq(Tok), r \in Seq(Tok) :
           Vless!PushDownlink([mode |-> m, pending |-> p], t) = Vless!Push(n, q, r)
<1>1. p \o t \in Seq(Tok) /\ << >> \in Seq(Tok)
  BY ConcatProperties, EmptySeq
<1>2. CASE m = "raw"
  <2>1. Vless!PushDownlink([mode |-> "raw", pending |-> p], t) = Vless!Push("raw", << >>, t)
    BY PushDownlinkIs
  <2> QED BY <1>1, <1>2, <2>1
<1>3. CASE m = "padding"
  <2>1. Vless!PushDownlink([mode |-> "padding", pending |-> p], t) = Vless!UnpadBlocks(p \o t)
    BY PushDownlinkIs
  <2>2. PICK y \in UnpadResult : y = Vless!UnpadBlocks(p \o t)
    BY <1>1, UnpadType
  <2>3. PICK n \in {"padding", "raw"}, q \in Seq(Tok), r \in Seq(Tok) : y = Vless!Push(n, q, r)
    BY ResultIsPush
  <2> QED BY <1>3, <2>1, <2>2, <2>3
<1>4. CASE m = "unknown"
  <2>1. Vless!PushDownlink([mode |-> "unknown", pending |-> p], t) = Start(p \o t)
    BY PushDownlinkIs
  <2>2. PICK k \in Seq(Tok) : k = p \o t
    BY <1>1
  <2>3. PICK n \in {"unknown", "padding", "raw"}, q \in Seq(Tok), r \in Seq(Tok) :
          Start(k) = Vless!Push(n, q, r)
    BY StartIs
  <2> QED BY <1>4, <2>1, <2>2, <2>3
<1> QED BY <1>2, <1>3, <1>4

(* What write_downlink makes of a read.                                    *)
Downlink(u, d) ==
  IF kind \in Vless!Vision THEN Vless!PushDownlink(u, d) ELSE [state |-> u, out |-> d]

(* It goes on where the reads before it ended.                             *)
LEMMA DecodedStep ==
  ASSUME NEW s \in Seq(Tok), NEW t \in Seq(Tok)
  PROVE  /\ Decoded(s).out \in Seq(Tok) /\ Downlink(Decoded(s).state, t).out \in Seq(Tok)
         /\ Decoded(s \o t).state = Downlink(Decoded(s).state, t).state
         /\ Decoded(s \o t).out = Decoded(s).out \o Downlink(Decoded(s).state, t).out
<1>1. CASE kind \notin Vless!Vision
  <2>1. PICK x : x = s \o t
    OBVIOUS
  <2>2. Decoded(s).state = Vless!FirstUnpadding /\ Decoded(s).out = s
    BY <1>1 DEF Decoded
  <2>3. Decoded(x).state = Vless!FirstUnpadding /\ Decoded(x).out = x
    BY <1>1 DEF Decoded
  <2>4. \A u : Downlink(u, t).state = u /\ Downlink(u, t).out = t
    BY <1>1 DEF Downlink
  <2> QED BY <2>1, <2>2, <2>3, <2>4
<1>2. CASE kind \in Vless!Vision
  <2>1. \A k : Decoded(k) = Start(k)
    BY <1>2 DEF Decoded
  <2>2. PICK m \in {"unknown", "padding", "raw"}, p \in Seq(Tok), o \in Seq(Tok) :
          Start(s) = Vless!Push(m, p, o)
    BY StartIs
  <2>3. Start(s).state = [mode |-> m, pending |-> p] /\ Start(s).out = o
    BY <2>2, PushIs
  <2>4. PICK n \in {"unknown", "padding", "raw"}, q \in Seq(Tok), r \in Seq(Tok) :
          Vless!PushDownlink([mode |-> m, pending |-> p], t) = Vless!Push(n, q, r)
    BY PushIsPush
  <2>5. Start(s \o t) = Ahead(Vless!PushDownlink(Start(s).state, t), Start(s).out)
    BY StartConcat DEF Pushed
  <2>6. Start(s \o t) = Vless!Push(n, q, o \o r)
    <3>1. Start(s \o t) = Ahead(Vless!Push(n, q, r), o)
      BY <2>3, <2>4, <2>5
    <3> QED BY <3>1, OutIs
  <2>7. PICK v : v = o \o r
    OBVIOUS
  <2>8. /\ Vless!Push(n, q, v).state = [mode |-> n, pending |-> q] /\ Vless!Push(n, q, v).out = v
        /\ Vless!Push(n, q, r).state = [mode |-> n, pending |-> q] /\ Vless!Push(n, q, r).out = r
    BY PushIs
  <2>9. Downlink(Start(s).state, t) = Vless!Push(n, q, r)
    BY <1>2, <2>3, <2>4 DEF Downlink
  <2> QED BY <2>1, <2>3, <2>6, <2>7, <2>8, <2>9
<1> QED BY <1>1, <1>2

(* The two ways into bridge_vless_stream.                                  *)
LEMMA InIs ==
  ASSUME NEW T \in Seq(Tok), NEW n \in Nat, NEW m \in Nat, NEW c \in Nat, NEW w \in Nat,
         Net(T, n, m), Linked(T, n, c, w)
  PROVE  \E e \in Nat : /\ c <= e /\ e <= Len(Stream(T)) /\ Vless!In = Win(Stream(T), c, e)
                        /\ kind \in Vless!Bare => e = m /\ c = n
                        /\ kind \notin Vless!Bare => e = w
<1>1. CASE kind \in Vless!Bare
  <2>1. c = n /\ n <= m /\ m <= Len(T) /\ rx = Win(T, n, m)
    BY <1>1 DEF Linked, Straight, Net
  <2>2. Stream(T) = T /\ Vless!In = rx
    BY <1>1 DEF Stream, Vless!In
  <2> QED BY <1>1, <2>1, <2>2
<1>2. CASE kind \notin Vless!Bare
  <2>1. c <= w /\ w <= 5 /\ dn2 = Win(Logical, c, w)
    BY <1>2 DEF Linked, Between
  <2>2. Stream(T) = Logical /\ Vless!In = dn2 /\ Len(Logical) = 5
    BY <1>2, LogicalIs DEF Stream, Vless!In
  <2> QED BY <1>2, <2>1, <2>2
<1> QED BY <1>1, <1>2

(* Nothing of what a transport hands on is below TLS.                      *)
LEMMA LogicalReadable ==
  ASSUME NEW c \in Nat, NEW d \in Nat, d <= 5
  PROVE  Readable(Logical, c, d)
<1>1. Logical[1] = <<"version", 0>> /\ Logical[2] = <<"addons", 1>> /\ Logical[3] = <<"addon", 0>>
      /\ Logical[4] = <<"plain", 1>> /\ Logical[5] = <<"plain", 2>>
  BY LogicalIs
<1>2. \A i \in 1 .. 5 : Logical[i][1] # "bare"
  <2> TAKE i \in 1 .. 5
  <2>1. i = 1 \/ i = 2 \/ i = 3 \/ i = 4 \/ i = 5
    OBVIOUS
  <2> QED BY <1>1, <2>1
<1> QED BY <1>2 DEF Readable

(* A read of bridge_vless_stream.                                          *)
LEMMA TakesIn ==
  ASSUME NEW T \in Seq(Tok), NEW n \in Nat, NEW m \in Nat, NEW c \in Nat, NEW w \in Nat,
         Net(T, n, m), Linked(T, n, c, w), Stream(T) \in Seq(Tok),
         down # "end", ~gotEnd, UNCHANGED gotEnd,
         NEW k \in Nat, Vless!TakeIn(k), Vless!downRest' = Vless!downRest
  PROVE  \E d \in Nat : /\ d = c + k /\ d <= Len(Stream(T))
                        /\ SubSeq(Vless!In, 1, k) = Win(Stream(T), c, d)
                        /\ Readable(Stream(T), c, d)
                        /\ \E q \in Nat : Net(T, q, m)' /\ Linked(T, q, d, w)'
<1>1. PICK e \in Nat : /\ c <= e /\ e <= Len(Stream(T)) /\ Vless!In = Win(Stream(T), c, e)
                       /\ kind \in Vless!Bare => e = m /\ c = n
                       /\ kind \notin Vless!Bare => e = w
  BY InIs
<1>2. /\ k <= Len(Win(Stream(T), c, e))
      /\ kind \in Vless!Bare => /\ \A i \in 1 .. k : rx[i][1] # "bare"
                                /\ rx' = Vless!From(rx, k + 1) /\ UNCHANGED dn2
      /\ kind \notin Vless!Bare => dn2' = Vless!From(dn2, k + 1) /\ UNCHANGED rx
  BY <1>1 DEF Vless!TakeIn
<1>3. UNCHANGED <<kind, coming, rxEnd, reset, dn2End, tup, tdown, frag>>
  BY DEF Vless!downRest, Vless!transport
<1>4. PICK d \in Nat : /\ d = c + k /\ d <= e
                       /\ SubSeq(Win(Stream(T), c, e), 1, k) = Win(Stream(T), c, d)
                       /\ Vless!From(Win(Stream(T), c, e), k + 1) = Win(Stream(T), d, e)
  <2>1. PICK L \in Seq(Tok) : L = Stream(T)
    OBVIOUS
  <2>2. c <= e /\ e <= Len(L) /\ k <= Len(Win(L, c, e))
    BY <1>1, <1>2, <2>1
  <2>3. \E d \in Nat : /\ d = c + k /\ d <= e
                       /\ SubSeq(Win(L, c, e), 1, k) = Win(L, c, d)
                       /\ Vless!From(Win(L, c, e), k + 1) = Win(L, d, e)
    BY <2>2, WinTaken
  <2> QED BY <2>1, <2>3
<1>5. d <= Len(Stream(T)) /\ SubSeq(Vless!In, 1, k) = Win(Stream(T), c, d)
  <2>1. Len(Stream(T)) \in Nat
    BY LenProperties
  <2> QED BY <1>1, <1>4, <2>1
<1>6. CASE kind \in Vless!Bare
  <2>1. Stream(T) = T /\ Vless!In = rx /\ rx = Win(T, n, m) /\ n <= m /\ m <= Len(T)
    BY <1>6 DEF Stream, Vless!In, Net
  <2>2. Net(T, d, m)'
    BY <1>1, <1>2, <1>3, <1>4, <1>6, <2>1 DEF Net
  <2>3. Linked(T, d, d, w)'
    BY <1>2, <1>3, <1>6 DEF Linked, Straight
  <2>4. Readable(T, c, d)
    <3> SUFFICES ASSUME NEW i \in c + 1 .. d PROVE T[i][1] # "bare"
      BY DEF Readable
    <3>1. \A j \in 1 .. m - n : Win(T, n, m)[j] = T[n + j]
      BY <2>1, WinFacts
    <3>2. PICK j \in 1 .. k : i = n + j /\ j \in 1 .. m - n
      <4>1. i - n \in 1 .. k /\ i = n + (i - n) /\ i - n \in 1 .. m - n
        BY <1>1, <1>4, <1>6
      <4> QED BY <4>1
    <3> QED BY <1>2, <1>6, <2>1, <3>1, <3>2
  <2> QED BY <1>4, <1>5, <2>1, <2>2, <2>3, <2>4
<1>7. CASE kind \notin Vless!Bare
  <2>1. Stream(T) = Logical /\ Vless!In = dn2
    BY <1>7 DEF Stream, Vless!In
  <2>2. Net(T, n, m)'
    BY <1>2, <1>3, <1>7 DEF Net
  <2>3. Handed(T, n, w) /\ Between(c, w)
    BY <1>7 DEF Linked
  <2>4. Between(d, w)'
    BY <1>1, <1>2, <1>4, <1>7, <2>1, <2>3 DEF Between
  <2>5. Handed(T, n, w)'
    <3>1. tdown # "end" => Carried(T, n, frag, w)'
      BY <1>3, <2>3 DEF Handed, Carried
    <3> QED BY <1>3, <2>3, <3>1 DEF Handed
  <2>6. Linked(T, n, d, w)'
    BY <1>3, <1>7, <2>4, <2>5 DEF Linked
  <2>7. Readable(Logical, c, d)
    <3>1. d <= 5
      BY <1>1, <1>4, <1>7, <2>3 DEF Between
    <3> QED BY <3>1, LogicalReadable
  <2> QED BY <1>4, <1>5, <2>1, <2>2, <2>6, <2>7
<1> QED BY <1>6, <1>7

(* Neither the transport nor what it makes of a sequence changes.          *)
LEMMA DecodedSame ==
  ASSUME kind' = kind, NEW s
  PROVE  (Decoded(s).out)' = Decoded(s).out /\ (Decoded(s).state)' = Decoded(s).state
BY DEF Decoded

(* Three bytes of a header, or none.                                       *)
LEMMA HeadLenIs ==
  ASSUME NEW L
  PROVE  HeadLen(L) \in Nat /\ (HeadLen(L) = 0 \/ HeadLen(L) = 3)
BY DEF HeadLen

(* A read of payload.                                                      *)
LEMMA ReadOn ==
  ASSUME NEW L \in Seq(Tok), NEW c, NEW b \in Nat, NEW d \in Nat, ReadTo(L, c, b),
         down # "end", b <= d, d <= Len(L), Readable(L, b, d),
         Vless!WriteDownlink(Win(L, b, d), "relay"), kind' = kind
  PROVE  \E x \in Nat : ReadTo(L, d, x)'
<1>1. PICK h \in Nat : h = HeadLen(L)
  BY HeadLenIs
<1>2. PICK s \in Seq(Tok), t \in Seq(Tok), r \in Seq(Tok) :
        s = Win(L, h, b) /\ t = Win(L, b, d) /\ r = Win(L, h, d) /\ s \o t = r
  <2>1. h <= b /\ b <= d /\ d <= Len(L) /\ h <= d /\ b <= Len(L) /\ h \in Nat
    BY <1>1 DEF ReadTo
  <2>2. Win(L, h, b) \in Seq(Tok) /\ Win(L, b, d) \in Seq(Tok) /\ Win(L, h, d) \in Seq(Tok)
    BY <2>1, WinFacts
  <2>3. Win(L, h, b) \o Win(L, b, d) = Win(L, h, d)
    BY <2>1, WinJoin
  <2> QED BY <2>2, <2>3
<1>3. got = Decoded(s).out /\ unpad = Decoded(s).state /\ ~gotEnd
  BY <1>1, <1>2 DEF ReadTo
<1>4. /\ Decoded(r).state = Downlink(unpad, t).state
      /\ Decoded(r).out = got \o Downlink(unpad, t).out
  <2>1. /\ Decoded(s \o t).state = Downlink(Decoded(s).state, t).state
        /\ Decoded(s \o t).out = Decoded(s).out \o Downlink(Decoded(s).state, t).out
    BY DecodedStep
  <2> QED BY <1>2, <1>3, <2>1
<1>5. /\ unpad' = Downlink(unpad, t).state
      /\ \/ down' = "end" /\ UNCHANGED <<got, gotEnd>>
         \/ down' = "relay" /\ got' = got \o Downlink(unpad, t).out /\ UNCHANGED gotEnd
  BY <1>2 DEF Vless!WriteDownlink, Downlink
<1>6. CASE down' = "end" /\ UNCHANGED <<got, gotEnd>>
  <2>1. got' = (Decoded(s).out)'
    BY <1>3, <1>6, DecodedSame
  <2>2. ReadTo(L, d, b)'
    BY <1>1, <1>2, <1>3, <1>6, <2>1 DEF ReadTo
  <2> QED BY <2>2
<1>7. CASE down' = "relay" /\ got' = got \o Downlink(unpad, t).out /\ UNCHANGED gotEnd
  <2>1. got' = (Decoded(r).out)' /\ unpad' = (Decoded(r).state)'
    BY <1>4, <1>5, <1>7, DecodedSame
  <2>2. Readable(L, 0, d)
    BY DEF ReadTo, Readable
  <2>3. HeadLen(L) <= d
    BY <1>1 DEF ReadTo
  <2>4. ReadTo(L, d, d)'
    BY <1>1, <1>2, <1>3, <1>7, <2>1, <2>2, <2>3 DEF ReadTo
  <2> QED BY <2>4
<1> QED BY <1>5, <1>6, <1>7

(* The response header, or none.                                           *)
LEMMA HeaderStep ==
  ASSUME NEW L, StreamOK(L), NEW c, NEW b \in Nat, ReadTo(L, c, b), down = "header",
         NEW d \in Nat, d = 2, Readable(L, c, d),
         IF L[1] = <<"version", 0>>
         THEN /\ down' = IF L[2][2] > 0 THEN "addon" ELSE "relay"
              /\ UNCHANGED <<unpad, got, gotEnd>>
         ELSE Vless!WriteDownlink(Win(L, c, d), "relay"),
         kind' = kind
  PROVE  \E x \in Nat : ReadTo(L, d, x)'
<1>1. L \in Seq(Tok) /\ Len(L) >= 2 /\ (L[1] = <<"version", 0>> => Len(L) >= 3 /\ L[2][2] > 0)
  BY DEF StreamOK
<1>2. c = 0 /\ b = HeadLen(L)
  BY DEF ReadTo
<1>3. CASE L[1] = <<"version", 0>>
  <2>1. HeadLen(L) = 3 /\ b = 3 /\ down' = "addon" /\ UNCHANGED <<unpad, got, gotEnd>>
    BY <1>1, <1>2, <1>3 DEF HeadLen
  <2>2. PICK s : s = Win(L, HeadLen(L), b)
    OBVIOUS
  <2>3. got' = (Decoded(s).out)' /\ unpad' = (Decoded(s).state)' /\ ~gotEnd
    BY <2>1, <2>2, DecodedSame DEF ReadTo
  <2>4. ReadTo(L, d, b)'
    BY <1>2, <2>1, <2>2, <2>3 DEF ReadTo
  <2> QED BY <2>4
<1>4. CASE L[1] # <<"version", 0>>
  <2>1. HeadLen(L) = 0 /\ b = c
    BY <1>2, <1>4 DEF HeadLen
  <2>2. Vless!WriteDownlink(Win(L, b, d), "relay") /\ Readable(L, b, d)
    BY <1>4, <2>1
  <2>3. b <= d /\ d <= Len(L)
    BY <1>1, <1>2, <2>1
  <2> QED BY <1>1, <2>2, <2>3, ReadOn
<1> QED BY <1>3, <1>4

(* What the peer answers.                                                  *)
LEMMA AnswerIs ==
  ASSUME NEW T \in Vless!Answers(kind)
  PROVE  /\ T \in Seq(Tok) /\ StreamOK(Stream(T)) /\ Stream(T) \in Seq(Tok)
         /\ kind \notin Vless!Bare => Piped(T)
<1>1. StreamOK(Stream(T)) /\ Stream(T) \in Seq(Tok)
  BY StreamsOK DEF StreamOK
<1>2. kind \notin Vless!Bare => Piped(T)
  BY AnswersPiped
<1> QED BY <1>1, <1>2 DEF Stream, Piped

(* The bytes behind what bridge_vless_stream has taken.                    *)
LEMMA FirstOfIn ==
  ASSUME NEW L \in Seq(Tok), NEW c \in Nat, NEW e \in Nat, c <= e, e <= Len(L)
  PROVE  /\ Len(Win(L, c, e)) = e - c
         /\ Win(L, c, e) = << >> => c = e
         /\ \A k \in 1 .. e - c : Win(L, c, e)[k] = L[c + k]
<1>1. Win(L, c, e) = << >> <=> c = e
  BY WinEmpty
<1> QED BY <1>1, WinFacts

(* The end of what there is to read.                                       *)
LEMMA InIsWhole ==
  ASSUME NEW T \in Vless!Answers(kind), NEW n \in Nat, NEW m \in Nat, NEW c \in Nat, NEW w \in Nat,
         Net(T, n, m), Linked(T, n, c, w), down # "end", ~reset,
         IF kind \in Vless!Bare THEN rxEnd ELSE dn2End
  PROVE  \E e \in Nat : e = Len(Stream(T)) /\ Vless!In = Win(Stream(T), c, e) /\ c <= e
<1>1. T \in Seq(Tok)
  BY AnswerIs
<1>2. PICK e \in Nat : /\ c <= e /\ e <= Len(Stream(T)) /\ Vless!In = Win(Stream(T), c, e)
                       /\ kind \in Vless!Bare => e = m /\ c = n
                       /\ kind \notin Vless!Bare => e = w
  BY <1>1, InIs
<1>3. CASE kind \in Vless!Bare
  <2>1. PICK l \in Nat : l = Len(T)
    BY <1>1, LenProperties
  <2>2. Win(T, m, l) = << >> /\ m <= l /\ l <= Len(T)
    BY <1>3, <2>1 DEF Net
  <2>3. Win(T, m, l) = << >> <=> m = l
    BY <1>1, <2>2, WinEmpty
  <2> QED BY <1>2, <1>3, <2>1, <2>2, <2>3 DEF Stream
<1>4. CASE kind \notin Vless!Bare
  <2>1. w = 5
    BY <1>4 DEF Linked, Handed
  <2> QED BY <1>2, <1>4, <2>1, LogicalIs DEF Stream
<1> QED BY <1>3, <1>4

(* Where the user's download may end on a connection that works.           *)
LEMMA EndsThere ==
  ASSUME NEW T \in Vless!Answers(kind), NEW n \in Nat, NEW m \in Nat, NEW c \in Nat, NEW w \in Nat,
         NEW b \in Nat, Net(T, n, m), Linked(T, n, c, w), ReadTo(Stream(T), c, b), ~reset,
         Vless!DownEnds
  PROVE  LET L == Stream(T) IN
         c = b /\ (c = Len(L) \/ (c + 1 = Len(L) /\ L[c + 1][1] = "bare"))
<1>1. PICK L \in Seq(Tok) : L = Stream(T) /\ StreamOK(L)
  BY AnswerIs
<1>2. PICK e \in HeadLen(L) .. Len(L) : Delivers(L, e)
  BY <1>1 DEF StreamOK
<1>3. /\ e \in Nat /\ e <= Len(L) /\ Len(L) >= 2 /\ Len(L) \in Nat
      /\ e = Len(L) \/ (e + 1 = Len(L) /\ L[e + 1][1] = "bare")
      /\ \A i \in 1 .. e : L[i][1] # "bare"
  BY <1>1, <1>2, HeadLenIs, LenProperties DEF Delivers, StreamOK
<1>4. down # "end"
  BY DEF Vless!DownEnds
<1>5. ASSUME IF kind \in Vless!Bare THEN rxEnd ELSE dn2End
      PROVE  \E f \in Nat : /\ f = Len(L) /\ Vless!In = Win(L, c, f) /\ c <= f
                            /\ Len(Vless!In) = f - c /\ (Vless!In = << >> => c = f)
  <2>1. PICK f \in Nat : f = Len(L) /\ Vless!In = Win(L, c, f) /\ c <= f
    BY <1>1, <1>4, <1>5, InIsWhole
  <2>2. f <= Len(L)
    BY <2>1
  <2>3. Len(Win(L, c, f)) = f - c /\ (Win(L, c, f) = << >> => c = f)
    BY <2>1, <2>2, FirstOfIn
  <2> QED BY <2>1, <2>3
<1>6. CASE /\ Vless!In = << >> /\ down \in {"addon", "relay"}
           /\ IF kind \in Vless!Bare THEN rxEnd ELSE dn2End
  <2>1. c = Len(L)
    BY <1>5, <1>6
  <2> QED BY <1>1, <1>3, <1>6, <2>1 DEF ReadTo
<1>7. CASE /\ down = "header" /\ Len(Vless!In) < 2
           /\ IF kind \in Vless!Bare THEN rxEnd ELSE dn2End
  <2>1. c = 0
    BY <1>7 DEF ReadTo
  <2> QED BY <1>3, <1>5, <1>7, <2>1
<1>8. CASE /\ kind \in Vless!Bare /\ down \in {"addon", "relay"}
           /\ rx # << >> /\ rx[1][1] = "bare"
  <2>1. PICK f \in Nat : c <= f /\ f <= Len(L) /\ rx = Win(L, c, f)
    <3>1. T \in Seq(Tok)
      BY AnswerIs
    <3>2. \E f \in Nat : /\ c <= f /\ f <= Len(Stream(T)) /\ Vless!In = Win(Stream(T), c, f)
                         /\ kind \in Vless!Bare => f = m /\ c = n
                         /\ kind \notin Vless!Bare => f = w
      BY <3>1, InIs
    <3> QED BY <1>1, <1>8, <3>2 DEF Vless!In
  <2>2. c # f
    <3>1. Win(L, c, f) = << >> <=> c = f
      BY <2>1, WinEmpty
    <3> QED BY <1>8, <2>1, <3>1
  <2>3. L[c + 1][1] = "bare" /\ c + 1 <= Len(L)
    <3>1. \A k \in 1 .. f - c : Win(L, c, f)[k] = L[c + k]
      BY <2>1, FirstOfIn
    <3>2. 1 \in 1 .. f - c /\ c + 1 <= Len(L)
      BY <1>3, <2>1, <2>2
    <3>3. rx[1] = L[c + 1]
      <4>1. Win(L, c, f)[1] = L[c + 1]
        BY <3>1, <3>2
      <4> QED BY <2>1, <4>1
    <3> QED BY <1>8, <3>2, <3>3
  <2>4. ~(c + 1 <= e)
    BY <1>3, <2>3
  <2>5. c + 1 = Len(L)
    BY <1>3, <2>3, <2>4
  <2>6. CASE down = "relay"
    BY <1>1, <2>3, <2>5, <2>6 DEF ReadTo
  <2>7. CASE down = "addon"
    BY <1>1, <2>3, <2>7 DEF ReadTo, Readable
  <2> QED BY <1>8, <2>6, <2>7
<1> QED BY <1>6, <1>7, <1>8 DEF Vless!DownEnds, Vless!InEnds, Vless!In

(* One step of the download.                                               *)
LEMMA DownIntro ==
  ASSUME NEW T \in Vless!Answers(kind), kind' = kind, NEW n \in Nat, NEW m \in Nat,
         NEW c \in Nat, NEW w \in Nat, NEW b \in Nat, NEW L, ReadTo(L, c, b)',
         Net(T, n, m)', Linked(T, n, c, w)'
  PROVE  L = Stream(T) => DownInv'
<1> SUFFICES ASSUME L = Stream(T) PROVE DownInv'
  OBVIOUS
<1>1. Stream(T)' = L
  BY DEF Stream
<1>2. ReadTo(Stream(T), c, b)'
  BY <1>1 DEF ReadTo
<1>3. DownAt(T, n, m, c, w, b)'
  BY <1>2 DEF DownAt
<1>4. T \in Vless!Answers(kind)'
  OBVIOUS
<1> QED BY <1>3, <1>4 DEF DownInv

(* The tasks of a transport leave bridge_vless_stream alone.               *)
LEMMA ReadSame ==
  ASSUME NEW L, NEW c, NEW b, ReadTo(L, c, b), kind' = kind,
         UNCHANGED <<down, unpad, got, gotEnd>>, UNCHANGED reset \/ reset'
  PROVE  ReadTo(L, c, b)'
<1>1. PICK s : s = Win(L, HeadLen(L), b)
  OBVIOUS
<1>2. (Decoded(s).out)' = Decoded(s).out /\ (Decoded(s).state)' = Decoded(s).state
  BY DecodedSame
<1> QED BY <1>1, <1>2 DEF ReadTo

(* ... and only hand on more.                                              *)
LEMMA TransportStep ==
  ASSUME NEW T \in Vless!Answers(kind), NEW n \in Nat, NEW m \in Nat, NEW c \in Nat,
         NEW w \in Nat, NEW b \in Nat, DownAt(T, n, m, c, w, b), kind \notin Vless!Bare,
         kind' = kind, UNCHANGED <<down, unpad, got, gotEnd, reset>>,
         \E q \in Nat, x \in Nat : Net(T, q, m)' /\ Handed(T, q, x)' /\ Between(c, x)'
  PROVE  DownInv'
<1>1. PICK q \in Nat, x \in Nat : Net(T, q, m)' /\ Handed(T, q, x)' /\ Between(c, x)'
  OBVIOUS
<1>2. Linked(T, q, c, x)'
  BY <1>1 DEF Linked
<1>3. PICK L : L = Stream(T)
  OBVIOUS
<1>4. ReadTo(L, c, b)'
  BY <1>3, ReadSame DEF DownAt
<1>5. L = Stream(T) => DownInv'
  BY <1>1, <1>2, <1>4, DownIntro
<1> QED BY <1>3, <1>5

(* The tasks of the transports.                                            *)
LEMMA TransportDownloadStep ==
  ASSUME NEW T \in Vless!Answers(kind), NEW n \in Nat, NEW m \in Nat, NEW c \in Nat,
         NEW w \in Nat, NEW b \in Nat, DownAt(T, n, m, c, w, b),
         Vless!TransportDownload \/ Vless!H3Connects
  PROVE  DownInv'
<1>1. /\ kind \notin Vless!Bare /\ kind' = kind /\ UNCHANGED <<down, unpad, got, gotEnd, reset>>
      /\ Piped(T) /\ Net(T, n, m) /\ Handed(T, n, w) /\ Between(c, w)
  <2>1. kind' = kind /\ UNCHANGED <<down, unpad, got, gotEnd, reset>>
    BY DEF Vless!TransportDownload, Vless!H3Connects, Vless!Http1Download, Vless!WsDownload,
      Vless!H2Download, Vless!PacketDownload, Vless!H3Download, Vless!Copies,
      Vless!AwaitsResponse, Vless!ResponseEnds, Vless!tdownRest, Vless!downVars, Vless!peerOut
  <2>2. kind \notin Vless!Bare
    BY DEF Vless!TransportDownload, Vless!H3Connects, Vless!Http1Download, Vless!WsDownload,
      Vless!H2Download, Vless!PacketDownload, Vless!H3Download, Vless!Bare, Vless!Vision,
      DownAt, Linked, Straight
  <2> QED BY <2>1, <2>2, AnswerIs DEF DownAt, Linked
<1>2. CASE Vless!H3Connects
  <2>1. Net(T, n, m)' /\ Handed(T, n, w)' /\ Between(c, w)'
    BY <1>1, <1>2, H3ConnectsStep
  <2> QED BY <1>1, <2>1, TransportStep
<1>3. CASE Vless!TransportDownload
  <2>1. \E q \in Nat, x \in Nat : Net(T, q, m)' /\ Handed(T, q, x)' /\ Between(c, x)'
    <3>1. CASE Vless!WsDownload
      BY <1>1, <3>1, WsStep
    <3>2. CASE Vless!H2Download
      BY <1>1, <3>2, H2Step
    <3>3. CASE Vless!Copies /\ kind \in {"http1", "packet", "h3"}
      BY <1>1, <3>3, CopiesStep
    <3> QED BY <1>3, <3>1, <3>2, <3>3 DEF Vless!TransportDownload, Vless!Http1Download,
              Vless!PacketDownload, Vless!H3Download
  <2> QED BY <1>1, <2>1, TransportStep
<1> QED BY <1>2, <1>3

(* The network.                                                            *)
LEMMA NetworkStep ==
  ASSUME NEW T \in Vless!Answers(kind), NEW n \in Nat, NEW m \in Nat, NEW c \in Nat,
         NEW w \in Nat, NEW b \in Nat, DownAt(T, n, m, c, w, b),
         Vless!Arrive \/ Vless!PeerEnds \/ Vless!ConnectionBreaks
  PROVE  DownInv'
<1>1. /\ UNCHANGED <<kind, tdown, tup, frag, dn2, dn2End, down, unpad, got, gotEnd>>
      /\ UNCHANGED reset \/ reset'
  BY DEF Vless!Arrive, Vless!PeerEnds, Vless!ConnectionBreaks, Vless!hopDown, Vless!transport,
    Vless!downVars
<1>2. T \in Seq(Tok) /\ Net(T, n, m) /\ Linked(T, n, c, w)
  BY AnswerIs DEF DownAt
<1>3. \E q \in Nat : Net(T, n, q)'
  <2>1. CASE Vless!Arrive
    <3>1. \E q \in Nat : q = m + 1 /\ Net(T, n, q)'
      BY <1>2, <2>1, NetArrives
    <3> QED BY <3>1
  <2>2. CASE Vless!PeerEnds \/ Vless!ConnectionBreaks
    BY <1>2, <2>2, NetEnds
  <2> QED BY <2>1, <2>2
<1>4. Linked(T, n, c, w)'
  <2>1. CASE kind \in Vless!Bare
    BY <1>1, <1>2, <2>1 DEF Linked, Straight
  <2>2. CASE kind \notin Vless!Bare
    <3>1. Handed(T, n, w) /\ Between(c, w)
      BY <1>2, <2>2 DEF Linked
    <3>2. Between(c, w)'
      BY <1>1, <3>1 DEF Between
    <3>3. tdown # "end" => Carried(T, n, frag, w)'
      BY <1>1, <3>1 DEF Handed, Carried
    <3>4. Handed(T, n, w)'
      BY <1>1, <3>1, <3>3 DEF Handed
    <3> QED BY <1>1, <2>2, <3>2, <3>4 DEF Linked
  <2> QED BY <2>1, <2>2
<1>5. PICK L : L = Stream(T)
  OBVIOUS
<1>6. ReadTo(L, c, b)'
  BY <1>1, <1>5, ReadSame DEF DownAt
<1>7. PICK q \in Nat : Net(T, n, q)'
  BY <1>3
<1>8. L = Stream(T) => DownInv'
  BY <1>1, <1>4, <1>6, <1>7, DownIntro
<1> QED BY <1>5, <1>8

(* A read of bridge_vless_stream, and what it does with it.                *)
LEMMA DownRead ==
  ASSUME NEW T \in Vless!Answers(kind), NEW n \in Nat, NEW m \in Nat, NEW c \in Nat,
         NEW w \in Nat, NEW b \in Nat, DownAt(T, n, m, c, w, b), down # "end",
         NEW k \in Nat, Vless!TakeIn(k), Vless!downRest' = Vless!downRest, UNCHANGED gotEnd
  PROVE  /\ kind' = kind
         /\ \E L \in Seq(Tok), d \in Nat :
              /\ L = Stream(T) /\ StreamOK(L) /\ d = c + k /\ d <= Len(L)
              /\ SubSeq(Vless!In, 1, k) = Win(L, c, d) /\ Readable(L, c, d)
              /\ ReadTo(L, c, b)
              /\ \A x \in Nat : ReadTo(L, d, x)' => DownInv'
<1>1. /\ T \in Seq(Tok) /\ Stream(T) \in Seq(Tok) /\ StreamOK(Stream(T))
      /\ Net(T, n, m) /\ Linked(T, n, c, w) /\ ReadTo(Stream(T), c, b)
  BY AnswerIs DEF DownAt
<1>2. ~gotEnd
  BY <1>1 DEF ReadTo
<1>3. kind' = kind
  BY DEF Vless!downRest
<1>4. PICK d \in Nat : /\ d = c + k /\ d <= Len(Stream(T))
                       /\ SubSeq(Vless!In, 1, k) = Win(Stream(T), c, d)
                       /\ Readable(Stream(T), c, d)
                       /\ \E q \in Nat : Net(T, q, m)' /\ Linked(T, q, d, w)'
  BY <1>1, <1>2, TakesIn
<1>5. PICK q \in Nat : Net(T, q, m)' /\ Linked(T, q, d, w)'
  BY <1>4
<1>6. PICK L \in Seq(Tok) : L = Stream(T)
  BY <1>1
<1>7. ASSUME NEW x \in Nat, ReadTo(L, d, x)' PROVE DownInv'
  <2>1. L = Stream(T) => DownInv'
    BY <1>3, <1>5, <1>7, DownIntro
  <2> QED BY <1>6, <2>1
<1> QED BY <1>1, <1>3, <1>4, <1>6, <1>7

(* The first two bytes of the header.                                      *)
LEMMA DownHeaderStep ==
  ASSUME NEW T \in Vless!Answers(kind), NEW n \in Nat, NEW m \in Nat, NEW c \in Nat,
         NEW w \in Nat, NEW b \in Nat, DownAt(T, n, m, c, w, b), Vless!DownHeader
  PROVE  DownInv'
<1>1. /\ down = "header" /\ Vless!downRest' = Vless!downRest /\ UNCHANGED gotEnd
      /\ IF Vless!In[1] = <<"version", 0>>
         THEN /\ down' = IF Vless!In[2][2] > 0 THEN "addon" ELSE "relay"
              /\ UNCHANGED <<unpad, got, gotEnd>>
         ELSE Vless!WriteDownlink(SubSeq(Vless!In, 1, 2), "relay")
  BY DEF Vless!DownHeader, Vless!WriteDownlink
<1>2. PICK k \in Nat : k = 2 /\ Vless!TakeIn(k)
  BY DEF Vless!DownHeader
<1>3. PICK L \in Seq(Tok), d \in Nat :
        /\ L = Stream(T) /\ StreamOK(L) /\ d = c + k /\ d <= Len(L)
        /\ SubSeq(Vless!In, 1, k) = Win(L, c, d) /\ Readable(L, c, d)
        /\ ReadTo(L, c, b)
        /\ \A x \in Nat : ReadTo(L, d, x)' => DownInv'
  BY <1>1, <1>2, DownRead
<1>4. kind' = kind
  BY <1>1 DEF Vless!downRest
<1>5. c = 0 /\ d = 2
  BY <1>1, <1>2, <1>3 DEF ReadTo
<1>6. Vless!In[1] = L[1] /\ Vless!In[2] = L[2]
  <2>1. PICK e \in Nat : c <= e /\ e <= Len(L) /\ Vless!In = Win(L, c, e)
    <3>1. T \in Seq(Tok) /\ Net(T, n, m) /\ Linked(T, n, c, w)
      BY AnswerIs DEF DownAt
    <3>2. \E e \in Nat : /\ c <= e /\ e <= Len(Stream(T)) /\ Vless!In = Win(Stream(T), c, e)
                         /\ kind \in Vless!Bare => e = m /\ c = n
                         /\ kind \notin Vless!Bare => e = w
      BY <3>1, InIs
    <3> QED BY <1>3, <3>2
  <2>2. Len(Win(L, c, e)) = e - c /\ \A j \in 1 .. e - c : Win(L, c, e)[j] = L[c + j]
    BY <2>1, FirstOfIn
  <2>3. 2 <= Len(Vless!In)
    BY <1>2 DEF Vless!TakeIn
  <2> QED BY <1>5, <2>1, <2>2, <2>3
<1>7. /\ L[1] = <<"version", 0>> =>
           /\ down' = IF L[2][2] > 0 THEN "addon" ELSE "relay"
           /\ UNCHANGED <<unpad, got, gotEnd>>
      /\ L[1] # <<"version", 0>> => Vless!WriteDownlink(Win(L, c, d), "relay")
  BY <1>1, <1>2, <1>3, <1>6
<1>8. \E x \in Nat : ReadTo(L, d, x)'
  BY <1>1, <1>3, <1>4, <1>5, <1>7, HeaderStep
<1> QED BY <1>3, <1>8

(* The addon.                                                              *)
LEMMA DownAddonStep ==
  ASSUME NEW T \in Vless!Answers(kind), NEW n \in Nat, NEW m \in Nat, NEW c \in Nat,
         NEW w \in Nat, NEW b \in Nat, DownAt(T, n, m, c, w, b), Vless!DownAddon
  PROVE  DownInv'
<1>1. /\ down = "addon" /\ down' = "relay" /\ Vless!downRest' = Vless!downRest
      /\ UNCHANGED <<unpad, got, gotEnd, kind>>
  BY DEF Vless!DownAddon, Vless!downRest
<1>2. PICK k \in Nat : k = 1 /\ Vless!TakeIn(k)
  BY DEF Vless!DownAddon
<1>3. PICK L \in Seq(Tok), d \in Nat :
        /\ d = c + k /\ ReadTo(L, c, b) /\ \A x \in Nat : ReadTo(L, d, x)' => DownInv'
  BY <1>1, <1>2, DownRead
<1>4. d = b
  BY <1>1, <1>2, <1>3 DEF ReadTo
<1>5. PICK s : s = Win(L, HeadLen(L), b)
  OBVIOUS
<1>6. (Decoded(s).out)' = Decoded(s).out /\ (Decoded(s).state)' = Decoded(s).state
  BY <1>1, DecodedSame
<1>7. ReadTo(L, d, b)'
  BY <1>1, <1>3, <1>4, <1>5, <1>6 DEF ReadTo
<1> QED BY <1>3, <1>7

(* Payload.                                                                *)
LEMMA DownRelayStep ==
  ASSUME NEW T \in Vless!Answers(kind), NEW n \in Nat, NEW m \in Nat, NEW c \in Nat,
         NEW w \in Nat, NEW b \in Nat, DownAt(T, n, m, c, w, b), Vless!DownRelay
  PROVE  DownInv'
<1>1. down = "relay" /\ Vless!downRest' = Vless!downRest /\ kind' = kind
  BY DEF Vless!DownRelay, Vless!downRest
<1>2. PICK k \in Nat : Vless!TakeIn(k) /\ Vless!WriteDownlink(SubSeq(Vless!In, 1, k), "relay")
  BY DEF Vless!DownRelay
<1>3. UNCHANGED gotEnd
  BY <1>2 DEF Vless!WriteDownlink
<1>4. PICK L \in Seq(Tok), d \in Nat :
        /\ d = c + k /\ d <= Len(L) /\ SubSeq(Vless!In, 1, k) = Win(L, c, d)
        /\ Readable(L, c, d) /\ ReadTo(L, c, b)
        /\ \A x \in Nat : ReadTo(L, d, x)' => DownInv'
  BY <1>1, <1>2, <1>3, DownRead
<1>5. b = c /\ b <= d
  BY <1>1, <1>4 DEF ReadTo
<1>6. /\ ReadTo(L, c, b) /\ Readable(L, b, d) /\ Vless!WriteDownlink(Win(L, b, d), "relay")
      /\ d <= Len(L) /\ down # "end"
  BY <1>1, <1>2, <1>4, <1>5
<1>7. \E x \in Nat : ReadTo(L, d, x)'
  BY <1>1, <1>5, <1>6, ReadOn
<1> QED BY <1>4, <1>7

(* The end.                                                                *)
LEMMA DownEndsStep ==
  ASSUME NEW T \in Vless!Answers(kind), NEW n \in Nat, NEW m \in Nat, NEW c \in Nat,
         NEW w \in Nat, NEW b \in Nat, DownAt(T, n, m, c, w, b), Vless!DownEnds
  PROVE  DownInv'
<1>1. /\ down # "end" /\ down' = "end" /\ gotEnd' = TRUE
      /\ UNCHANGED <<unpad, got, rx, dn2, kind, coming, rxEnd, reset, dn2End, tup, tdown, frag>>
  BY DEF Vless!DownEnds, Vless!downRest, Vless!transport
<1>2. Net(T, n, m) /\ Linked(T, n, c, w) /\ ReadTo(Stream(T), c, b)
  BY DEF DownAt
<1>3. PICK L : L = Stream(T)
  OBVIOUS
<1>4. ~reset => c = b /\ (c = Len(L) \/ (c + 1 = Len(L) /\ L[c + 1][1] = "bare"))
  BY <1>2, <1>3, EndsThere
<1>5. PICK s : s = Win(L, HeadLen(L), b)
  OBVIOUS
<1>6. (Decoded(s).out)' = Decoded(s).out /\ (Decoded(s).state)' = Decoded(s).state
  BY <1>1, DecodedSame
<1>7. ReadTo(L, c, b)'
  BY <1>1, <1>2, <1>3, <1>4, <1>5, <1>6 DEF ReadTo
<1>8. Net(T, n, m)'
  BY <1>1, <1>2 DEF Net
<1>9. Linked(T, n, c, w)'
  <2>1. CASE kind \in Vless!Bare
    BY <1>1, <1>2, <2>1 DEF Linked, Straight
  <2>2. CASE kind \notin Vless!Bare
    <3>1. Handed(T, n, w) /\ Between(c, w)
      BY <1>2, <2>2 DEF Linked
    <3>2. Between(c, w)'
      BY <1>1, <3>1 DEF Between
    <3>3. tdown = "end"
      BY <2>2, <3>1 DEF Vless!DownEnds, Vless!InEnds, Handed
    <3>4. Handed(T, n, w)'
      BY <1>1, <3>1, <3>3 DEF Handed
    <3> QED BY <1>1, <2>2, <3>2, <3>4 DEF Linked
  <2> QED BY <2>1, <2>2
<1>10. L = Stream(T) => DownInv'
  BY <1>1, <1>7, <1>8, <1>9, DownIntro
<1> QED BY <1>3, <1>10

(* The user and the upload do not touch the download.                      *)
LEMMA UploadStep ==
  ASSUME NEW T \in Vless!Answers(kind), NEW n \in Nat, NEW m \in Nat, NEW c \in Nat,
         NEW w \in Nat, NEW b \in Nat, DownAt(T, n, m, c, w, b),
         \/ Vless!AppSends \/ Vless!AppCloses \/ Vless!AppDrops \/ Vless!PostEnds \/ Vless!Up
         \/ Vless!TransportUpload /\ ~Vless!H3Connects
         \/ UNCHANGED Vless!vars
  PROVE  DownInv'
<1>1. /\ UNCHANGED <<kind, coming, rx, rxEnd, reset, tdown, frag, dn2, dn2End, down, unpad, got,
                     gotEnd>>
      /\ UNCHANGED tup \/ (tup = "relay" /\ tup' \in {"relay", "end"})
  <2>1. CASE Vless!AppSends \/ Vless!AppCloses \/ Vless!AppDrops \/ Vless!PostEnds
             \/ UNCHANGED Vless!vars
    BY <2>1 DEF Vless!AppSends, Vless!AppCloses, Vless!AppDrops, Vless!PostEnds, Vless!vars,
      Vless!peerOut, Vless!hopDown, Vless!transport, Vless!downVars
  <2>2. CASE Vless!Up
    BY <2>2 DEF Vless!Up, Vless!UpFirst, Vless!UpRelay, Vless!UpEnds,
      Vless!peerOut, Vless!hopDown, Vless!transport, Vless!downVars
  <2>3. CASE Vless!TransportUpload /\ ~Vless!H3Connects
    <3>1. PICK last : Vless!Uploads(last) \/ Vless!Posts
      BY <2>3 DEF Vless!TransportUpload, Vless!Http1Upload, Vless!WsUpload, Vless!H2Upload,
        Vless!PacketUpload, Vless!H3Upload
    <3>2. UNCHANGED <<kind, coming, rx, rxEnd, reset, tdown, frag, dn2, dn2End, down, unpad, got,
                      gotEnd>>
      BY <3>1 DEF Vless!Uploads, Vless!Posts, Vless!upRest, Vless!peerOut, Vless!hopDown,
        Vless!downVars
    <3>3. tup = "relay" /\ tup' \in {"relay", "end"}
      BY <3>1 DEF Vless!Uploads, Vless!Posts
    <3> QED BY <3>2, <3>3
  <2> QED BY <2>1, <2>2, <2>3
<1>2. Net(T, n, m) /\ Linked(T, n, c, w) /\ ReadTo(Stream(T), c, b)
  BY DEF DownAt
<1>3. PICK L : L = Stream(T)
  OBVIOUS
<1>4. ReadTo(L, c, b)'
  BY <1>1, <1>2, <1>3, ReadSame
<1>5. Net(T, n, m)'
  BY <1>1, <1>2, NetSame
<1>6. Linked(T, n, c, w)'
  <2>1. CASE kind \in Vless!Bare
    BY <1>1, <1>2, <2>1 DEF Linked, Straight
  <2>2. CASE kind \notin Vless!Bare
    <3>1. Handed(T, n, w) /\ Between(c, w)
      BY <1>2, <2>2 DEF Linked
    <3>2. Between(c, w)'
      BY <1>1, <3>1 DEF Between
    <3>3. tdown # "end" => Carried(T, n, frag, w)'
      BY <1>1, <3>1 DEF Handed, Carried
    <3>4. Handed(T, n, w)'
      BY <1>1, <3>1, <3>3 DEF Handed
    <3> QED BY <1>1, <2>2, <3>2, <3>4 DEF Linked
  <2> QED BY <2>1, <2>2
<1>7. L = Stream(T) => DownInv'
  BY <1>1, <1>4, <1>5, <1>6, DownIntro
<1> QED BY <1>3, <1>7

(* Every step of the connection.                                           *)
LEMMA DownStep ==
  ASSUME DownInv, [Vless!Next]_(Vless!vars)
  PROVE  DownInv'
<1>1. PICK T \in Vless!Answers(kind), n \in Nat, m \in Nat, c \in Nat, w \in Nat, b \in Nat :
        DownAt(T, n, m, c, w, b)
  BY DEF DownInv
<1>2. CASE \/ Vless!AppSends \/ Vless!AppCloses \/ Vless!AppDrops \/ Vless!PostEnds \/ Vless!Up
           \/ Vless!TransportUpload /\ ~Vless!H3Connects
           \/ UNCHANGED Vless!vars
  BY <1>1, <1>2, UploadStep
<1>3. CASE Vless!Arrive \/ Vless!PeerEnds \/ Vless!ConnectionBreaks
  BY <1>1, <1>3, NetworkStep
<1>4. CASE Vless!TransportDownload \/ Vless!H3Connects
  BY <1>1, <1>4, TransportDownloadStep
<1>5. CASE Vless!DownHeader
  BY <1>1, <1>5, DownHeaderStep
<1>6. CASE Vless!DownAddon
  BY <1>1, <1>6, DownAddonStep
<1>7. CASE Vless!DownRelay
  BY <1>1, <1>7, DownRelayStep
<1>8. CASE Vless!DownEnds
  BY <1>1, <1>8, DownEndsStep
<1> QED BY <1>2, <1>3, <1>4, <1>5, <1>6, <1>7, <1>8 DEF Vless!Next, Vless!Down

(* The beginning.                                                          *)
LEMMA DownInit == Vless!Init => DownInv
<1> SUFFICES ASSUME Vless!Init PROVE DownInv
  OBVIOUS
<1>1. PICK T \in Vless!Answers(kind) : T = coming
  BY DEF Vless!Init
<1>2. T \in Seq(Tok) /\ StreamOK(Stream(T)) /\ Stream(T) \in Seq(Tok)
  BY AnswerIs
<1>3. PICK z \in Nat : z = 0
  OBVIOUS
<1>4. PICK L \in Seq(Tok) : L = Stream(T) /\ StreamOK(L)
  BY <1>2
<1>5. PICK h \in Nat : h = HeadLen(L) /\ h <= Len(L) /\ Readable(L, 0, h)
  <2>1. PICK e \in HeadLen(L) .. Len(L) : Delivers(L, e)
    BY <1>4 DEF StreamOK
  <2>2. \A i \in 1 .. e : L[i][1] # "bare"
    BY <2>1 DEF Delivers
  <2>3. HeadLen(L) \in Nat /\ Len(L) \in Nat
    BY HeadLenIs, LenProperties
  <2> QED BY <2>1, <2>2, <2>3 DEF Readable
<1>6. Win(L, h, h) = << >>
  <2>1. Win(L, h, h) = << >> <=> h = h
    BY <1>5, WinEmpty
  <2> QED BY <2>1
<1>7. Decoded(<< >>).out = << >> /\ Decoded(<< >>).state = Vless!FirstUnpadding
  <2>1. PICK none \in Seq(Tok) : none = << >>
    BY EmptySeq
  <2>2. Start(none) = Vless!Push("unknown", none, none)
    BY <2>1, NothingToUnpad
  <2>3. /\ Vless!Push("unknown", none, none).state = [mode |-> "unknown", pending |-> none]
        /\ Vless!Push("unknown", none, none).out = none
    BY PushIs
  <2> QED BY <2>1, <2>2, <2>3 DEF Decoded, Vless!FirstUnpadding
<1>8. ReadTo(L, z, h)
  BY <1>3, <1>5, <1>6, <1>7 DEF Vless!Init, ReadTo
<1>9. Net(T, z, z)
  <2>1. PICK l \in Nat : l = Len(T)
    BY <1>2, LenProperties
  <2>2. Win(T, z, z) = << >>
    <3>1. z <= Len(T)
      BY <1>3, <2>1
    <3>2. Win(T, z, z) = << >> <=> z = z
      BY <1>2, <3>1, WinEmpty
    <3> QED BY <3>2
  <2>3. Win(T, z, l) = T
    <3>1. T \in Seq(Tok) /\ z <= l /\ l <= Len(T)
      BY <1>2, <1>3, <2>1
    <3>2. /\ Win(T, z, l) \in Seq(Tok) /\ Len(Win(T, z, l)) = l - z
          /\ \A i \in 1 .. l - z : Win(T, z, l)[i] = T[z + i]
      BY <3>1, WinFacts
    <3>3. PICK s \in Seq(Tok) : s = Win(T, z, l)
      BY <3>2
    <3>4. Len(s) = Len(T) /\ \A i \in 1 .. Len(s) : s[i] = T[i]
      BY <1>3, <2>1, <3>2, <3>3
    <3>5. s = T
      BY <3>1, <3>4, SeqEqual
    <3> QED BY <3>3, <3>5
  <2> QED BY <1>1, <1>3, <2>1, <2>2, <2>3 DEF Vless!Init, Net
<1>10. Linked(T, z, z, z)
  <2>1. CASE kind \in Vless!Bare
    <3>1. tdown = "end" /\ tup = "end" /\ frag = << >> /\ dn2 = << >> /\ dn2End = FALSE
      BY <2>1 DEF Vless!Init, Vless!Bare, Vless!Vision
    <3>2. Straight(z, z)
      BY <3>1 DEF Straight
    <3> QED BY <2>1, <3>2 DEF Linked
  <2>2. CASE kind \notin Vless!Bare
    <3>1. /\ tdown \in {"connect", "response", "relay"} /\ (tdown = "relay" => kind = "ws")
          /\ tup = "connect" <=> tdown = "connect"
          /\ frag = << >> /\ dn2 = << >> /\ dn2End = FALSE /\ gotEnd = FALSE
      BY <2>2 DEF Vless!Init
    <3>2. Carried(T, z, frag, z)
      BY <1>3, <3>1 DEF Carried
    <3>3. frag \in Seq(Tok)
      BY <3>1, EmptySeq
    <3>4. Handed(T, z, z)
      BY <1>3, <3>1, <3>2, <3>3 DEF Handed
    <3>5. Win(Logical, z, z) = << >>
      <4>1. Logical \in Seq(Tok) /\ z <= Len(Logical)
        BY <1>3, LogicalIs
      <4>2. Win(Logical, z, z) = << >> <=> z = z
        BY <4>1, WinEmpty
      <4> QED BY <4>2
    <3> QED BY <1>3, <2>2, <3>1, <3>4, <3>5 DEF Linked, Between
  <2> QED BY <2>1, <2>2
<1>11. DownAt(T, z, z, z, z, h)
  BY <1>4, <1>8, <1>9, <1>10 DEF DownAt
<1> QED BY <1>11 DEF DownInv

-----------------------------------------------------------------------------
(* What the invariant says of the user.  Of what the peer sends in TLS no  *)
(* more than all has been decoded.                                         *)
LEMMA ReadWithin ==
  ASSUME NEW L \in Seq(Tok), NEW e \in Nat, NEW b \in Nat, b <= Len(L), Readable(L, 0, b),
         e = Len(L) \/ (e + 1 = Len(L) /\ L[e + 1][1] = "bare")
  PROVE  b <= e
<1>1. CASE e = Len(L)
  BY <1>1
<1>2. CASE e + 1 = Len(L) /\ L[e + 1][1] = "bare"
  <2>1. ~(e + 1 <= b)
    BY <1>2 DEF Readable
  <2> QED BY <2>1
<1> QED BY <1>1, <1>2

(* A front of the payload.                                                 *)
LEMMA NumberedFront ==
  ASSUME NEW s \in Seq(Tok), NEW t \in Seq(Tok), Numbered(s \o t)
  PROVE  Numbered(s)
<1>1. PICK k, l : k = Len(s) /\ l = Len(t)
  OBVIOUS
<1>2. /\ k \in Nat /\ l \in Nat /\ Len(s \o t) = k + l
      /\ \A i \in 1 .. k : (s \o t)[i] = s[i]
  BY <1>1, ConcatFacts
<1>3. \A i \in 1 .. Len(s) : s[i] = <<"plain", i>>
  <2> TAKE i \in 1 .. Len(s)
  <2>1. i \in 1 .. k /\ i \in 1 .. Len(s \o t)
    BY <1>1, <1>2
  <2> QED BY <1>2, <2>1 DEF Numbered
<1> QED BY <1>3 DEF Numbered

(* What the user has got is a front of the payload.                        *)
LEMMA GotNumbered ==
  ASSUME NEW L, StreamOK(L), NEW c \in Nat, NEW b \in Nat, ReadTo(L, c, b)
  PROVE  got \in Seq(Tok) /\ Numbered(got)
<1>1. PICK e \in HeadLen(L) .. Len(L) : Delivers(L, e)
  BY DEF StreamOK
<1>2. L \in Seq(Tok) /\ e \in Nat /\ e <= Len(L) /\ HeadLen(L) <= e
  BY <1>1, HeadLenIs, LenProperties DEF StreamOK
<1>3. b <= e
  BY <1>1, <1>2, ReadWithin DEF ReadTo, Delivers
<1>4. PICK h \in Nat : h = HeadLen(L)
  BY HeadLenIs
<1>5. PICK s \in Seq(Tok), t \in Seq(Tok), r \in Seq(Tok) :
        s = Win(L, h, b) /\ t = Win(L, b, e) /\ r = Win(L, h, e) /\ s \o t = r
  <2>1. h <= b /\ b <= e /\ e <= Len(L) /\ h <= e /\ b <= Len(L) /\ h \in Nat /\ e \in Nat /\ L \in Seq(Tok)
    BY <1>2, <1>3, <1>4 DEF ReadTo
  <2>2. Win(L, h, b) \in Seq(Tok) /\ Win(L, b, e) \in Seq(Tok) /\ Win(L, h, e) \in Seq(Tok)
    BY <2>1, WinFacts
  <2>3. Win(L, h, b) \o Win(L, b, e) = Win(L, h, e)
    BY <2>1, WinJoin
  <2> QED BY <2>2, <2>3
<1>6. PICK v \in Seq(Tok) : Decoded(s).out \in Seq(Tok) /\ Decoded(r).out = Decoded(s).out \o v
  <2>1. /\ Decoded(s).out \in Seq(Tok) /\ Downlink(Decoded(s).state, t).out \in Seq(Tok)
        /\ Decoded(s \o t).out = Decoded(s).out \o Downlink(Decoded(s).state, t).out
    BY DecodedStep
  <2> QED BY <1>5, <2>1
<1>7. Numbered(Decoded(r).out)
  BY <1>1, <1>4, <1>5 DEF Delivers
<1>8. PICK g \in Seq(Tok) : g = Decoded(s).out
  BY <1>6
<1>9. Numbered(g \o v)
  BY <1>6, <1>7, <1>8
<1>10. Numbered(g)
  BY <1>9, NumberedFront
<1>11. got = g
  BY <1>4, <1>5, <1>8 DEF ReadTo
<1> QED BY <1>10, <1>11

(* Payload in order is what DownloadIntact asks for.                       *)
LEMMA NumberedIntact ==
  ASSUME NEW s \in Seq(Tok), Numbered(s)
  PROVE  Vless!UnitsIn(s) = s /\ Vless!Counts(s)
<1>1. \A i \in 1 .. Len(s) : s[i][1] \in Vless!Classes /\ s[i][2] = i
  BY DEF Numbered, Vless!Classes
<1>2. PICK C : C = Vless!Classes
  OBVIOUS
<1>3. (\A i \in 1 .. Len(s) : s[i][1] \in C) => Vless!OfTypes(s, C) = s
  BY OfTypesAll
<1>4. Vless!UnitsIn(s) = s
  BY <1>1, <1>2, <1>3 DEF Vless!UnitsIn
<1>5. DOMAIN s = 1 .. Len(s)
  BY LenProperties
<1> QED BY <1>1, <1>4, <1>5 DEF Vless!Counts

(* ... which the user has got.                                             *)
LEMMA DownIntact == DownInv => Vless!DownloadIntact
<1> SUFFICES ASSUME DownInv PROVE Vless!DownloadIntact
  OBVIOUS
<1>1. PICK T \in Vless!Answers(kind), n \in Nat, m \in Nat, c \in Nat, w \in Nat, b \in Nat :
        DownAt(T, n, m, c, w, b)
  BY DEF DownInv
<1>2. PICK L : L = Stream(T) /\ StreamOK(L)
  BY AnswerIs
<1>3. ReadTo(L, c, b)
  BY <1>1, <1>2 DEF DownAt
<1>4. got \in Seq(Tok) /\ Numbered(got)
  BY <1>2, <1>3, GotNumbered
<1>5. PICK g \in Seq(Tok) : g = got /\ Numbered(g)
  BY <1>4
<1>6. Vless!UnitsIn(g) = g /\ Vless!Counts(g)
  BY <1>5, NumberedIntact
<1> QED BY <1>5, <1>6 DEF Vless!DownloadIntact

(* No units.                                                               *)
Unitless(s) == s \in Seq(Tok) /\ \A i \in 1 .. Len(s) : s[i][1] \notin Vless!Classes

(* Two without units.                                                      *)
LEMMA UnitlessConcat ==
  ASSUME NEW s, NEW t, Unitless(s), Unitless(t)
  PROVE  Unitless(s \o t)
<1>1. PICK k, l : k = Len(s) /\ l = Len(t) /\ s \in Seq(Tok) /\ t \in Seq(Tok)
  BY DEF Unitless
<1>2. /\ k \in Nat /\ l \in Nat /\ s \o t \in Seq(Tok) /\ Len(s \o t) = k + l
      /\ \A i \in 1 .. k : (s \o t)[i] = s[i]
      /\ \A i \in 1 .. l : (s \o t)[k + i] = t[i]
  BY <1>1, ConcatFacts
<1>3. \A i \in 1 .. Len(s \o t) : (s \o t)[i][1] \notin Vless!Classes
  <2> TAKE i \in 1 .. Len(s \o t)
  <2>1. CASE i \in 1 .. k
    BY <1>1, <1>2, <2>1 DEF Unitless
  <2>2. CASE i \notin 1 .. k
    <3>1. i - k \in 1 .. l /\ k + (i - k) = i
      BY <1>2, <2>2
    <3> QED BY <1>1, <1>2, <3>1 DEF Unitless
  <2> QED BY <2>1, <2>2
<1> QED BY <1>2, <1>3 DEF Unitless

(* ... has none.                                                           *)
LEMMA NoUnits ==
  ASSUME NEW s, Unitless(s)
  PROVE  Vless!UnitsIn(s) = << >>
<1>1. PICK C : C = Vless!Classes
  OBVIOUS
<1>2. s \in Seq(Tok) /\ \A i \in 1 .. Len(s) : s[i][1] \notin C
  BY <1>1 DEF Unitless
<1>3. (\A i \in 1 .. Len(s) : s[i][1] \notin C) => Vless!OfTypes(s, C) = << >>
  BY <1>2, OfTypesAll
<1> QED BY <1>1, <1>2, <1>3 DEF Vless!UnitsIn

(* The empty sequence has none.                                            *)
LEMMA NothingUnitless == Unitless(<< >>)
BY EmptySeq DEF Unitless

(* The end of what is to be read in TLS is all of it.                      *)
LEMMA EndIsDelivered ==
  ASSUME NEW L, StreamOK(L), NEW c \in Nat, NEW b \in Nat, ReadTo(L, c, b), gotEnd, ~reset
  PROVE  unpad.mode # "padding"
<1>1. PICK e \in HeadLen(L) .. Len(L) : Delivers(L, e)
  BY DEF StreamOK
<1>2. L \in Seq(Tok) /\ e \in Nat /\ e <= Len(L) /\ Len(L) \in Nat
  BY <1>1, HeadLenIs, LenProperties DEF StreamOK
<1>3. b <= e
  BY <1>1, <1>2, ReadWithin DEF ReadTo, Delivers
<1>4. c = b /\ (c = Len(L) \/ (c + 1 = Len(L) /\ L[c + 1][1] = "bare"))
  BY DEF ReadTo
<1>5. e = b
  <2>1. \A i \in 1 .. e : L[i][1] # "bare"
    BY <1>1 DEF Delivers
  <2>2. CASE c = Len(L)
    BY <1>2, <1>3, <1>4, <2>2
  <2>3. CASE c + 1 = Len(L) /\ L[c + 1][1] = "bare"
    <3>1. ~(c + 1 <= e)
      BY <1>2, <2>1, <2>3
    <3> QED BY <1>2, <1>3, <1>4, <3>1
  <2> QED BY <1>4, <2>2, <2>3
<1> QED BY <1>1, <1>5 DEF ReadTo, Delivers

(* What has not been read of a bare transport at the end.                  *)
LEMMA RestUnitless ==
  ASSUME NEW L \in Seq(Tok), NEW c \in Nat, NEW p \in Nat, NEW q \in Nat, c <= p, p <= q,
         q <= Len(L), c = Len(L) \/ (c + 1 = Len(L) /\ L[c + 1][1] = "bare")
  PROVE  Unitless(Win(L, p, q))
<1>1. /\ Win(L, p, q) \in Seq(Tok) /\ Len(Win(L, p, q)) = q - p
      /\ \A i \in 1 .. q - p : Win(L, p, q)[i] = L[p + i]
  <2>1. Part(Tok, L, p, q)
    BY WinPart
  <2> QED BY <2>1 DEF Part
<1>2. Len(L) \in Nat
  BY LenProperties
<1>3. \A i \in 1 .. q - p : p + i = c + 1 /\ L[p + i][1] = "bare"
  BY <1>2
<1>4. "bare" \notin Vless!Classes
  BY DEF Vless!Classes
<1> QED BY <1>1, <1>3, <1>4 DEF Unitless

(* When the user is told of the end on a connection that works, nothing    *)
(* that the peer has sent in TLS is left anywhere.                         *)
LEMMA DownWhole == DownInv => (~reset /\ gotEnd => Vless!Unread = << >>)
<1> SUFFICES ASSUME DownInv, ~reset, gotEnd PROVE Vless!Unread = << >>
  OBVIOUS
<1>1. PICK T \in Vless!Answers(kind), n \in Nat, m \in Nat, c \in Nat, w \in Nat, b \in Nat :
        DownAt(T, n, m, c, w, b)
  BY DEF DownInv
<1>2. PICK L \in Seq(Tok) : L = Stream(T) /\ StreamOK(L) /\ T \in Seq(Tok)
  BY AnswerIs
<1>3. ReadTo(L, c, b) /\ Net(T, n, m) /\ Linked(T, n, c, w)
  BY <1>1, <1>2 DEF DownAt
<1>4. unpad.mode # "padding"
  BY <1>2, <1>3, EndIsDelivered
<1>5. PICK l \in Nat : l = Len(T)
  BY <1>2, LenProperties
<1>6. rx = Win(T, n, m) /\ coming = Win(T, m, l) /\ n <= m /\ m <= l /\ l <= Len(T) /\ m <= Len(T)
  BY <1>3, <1>5 DEF Net
<1>7. Unitless(coming) /\ Unitless(rx) /\ Unitless(frag) /\ Unitless(dn2)
  <2>1. CASE kind \in Vless!Bare
    <3>1. L = T /\ c = n /\ frag = << >> /\ dn2 = << >>
      BY <1>2, <1>3, <2>1 DEF Stream, Linked, Straight
    <3>2. c = Len(T) \/ (c + 1 = Len(T) /\ T[c + 1][1] = "bare")
      BY <1>3, <3>1 DEF ReadTo
    <3>3. c <= n /\ n <= m /\ m <= l /\ c <= m /\ m <= Len(T) /\ l <= Len(T)
      BY <1>6, <3>1
    <3>4. Unitless(Win(T, n, m))
      BY <1>2, <3>2, <3>3, RestUnitless
    <3>5. Unitless(Win(T, m, l))
      BY <1>2, <3>2, <3>3, RestUnitless
    <3> QED BY <1>6, <3>1, <3>4, <3>5, NothingUnitless
  <2>2. CASE kind \notin Vless!Bare
    <3>1. n = Len(T) /\ w = 5 /\ frag = << >> /\ dn2 = Win(Logical, c, w) /\ c <= w
      BY <1>3, <2>2 DEF Linked, Handed, Between
    <3>2. L = Logical /\ Len(L) = 5
      BY <1>2, <2>2, LogicalIs DEF Stream
    <3>3. c = w
      <4>1. Readable(L, 0, 5)
        <5>1. PICK z \in Nat, v \in Nat : z = 0 /\ v = 5
          OBVIOUS
        <5>2. Readable(Logical, z, v)
          BY <5>1, LogicalReadable
        <5> QED BY <3>2, <5>1, <5>2
      <4>2. c = 5 \/ (c + 1 = 5 /\ L[c + 1][1] = "bare")
        BY <1>3, <3>2 DEF ReadTo
      <4> QED BY <3>1, <4>1, <4>2 DEF Readable
    <3>4. rx = << >> /\ coming = << >>
      <4>1. Win(T, n, m) = << >> <=> n = m
        BY <1>2, <1>6, WinEmpty
      <4>2. Win(T, m, l) = << >> <=> m = l
        BY <1>2, <1>6, WinEmpty
      <4> QED BY <1>5, <1>6, <3>1, <4>1, <4>2
    <3>5. dn2 = << >>
      <4>1. c <= w /\ w <= Len(L) /\ dn2 = Win(L, c, w)
        BY <3>1, <3>2
      <4>2. Win(L, c, w) = << >> <=> c = w
        BY <4>1, WinEmpty
      <4> QED BY <3>3, <4>1, <4>2
    <3> QED BY <3>1, <3>4, <3>5, NothingUnitless
  <2> QED BY <2>1, <2>2
<1>8. PICK r : r = coming \o rx /\ Unitless(r)
  BY <1>7, UnitlessConcat
<1>9. PICK f : f = r \o frag /\ Unitless(f)
  BY <1>7, <1>8, UnitlessConcat
<1>10. PICK d : d = f \o dn2 /\ Unitless(d)
  BY <1>7, <1>9, UnitlessConcat
<1>11. Unitless(d \o << >>)
  BY <1>10, NothingUnitless, UnitlessConcat
<1>12. Vless!UnitsIn(d \o << >>) = << >>
  BY <1>11, NoUnits
<1> QED BY <1>4, <1>8, <1>9, <1>10, <1>12 DEF Vless!Unread

-----------------------------------------------------------------------------
(* The VLESS adapter beside the XHTTP bridges.                             *)
ConnectionInv == of = "vless" => DownInv

(* A step of HttpBridges is one of the connection, or leaves it alone.     *)
LEMMA ConnectionOrOther ==
  ASSUME [Next]_vars, (of = "vless")'
  PROVE  of = "vless" /\ [Vless!Next]_(Vless!vars)
<1>1. CASE Next
  <2>1. CASE OfXhttp /\ Xhttp!Next
    BY <2>1 DEF OfXhttp
  <2>2. CASE OfVless /\ Vless!Next
    BY <2>2 DEF OfVless
  <2> QED BY <1>1, <2>1, <2>2 DEF Next
<1>2. CASE UNCHANGED vars
  <2>1. UNCHANGED <<of, kind, gone, seq, posts>> /\ UNCHANGED vlessOnly
    BY <1>2 DEF vars
  <2>2. UNCHANGED Vless!vars
    BY <2>1 DEF vlessOnly, Vless!vars, Vless!appVars, Vless!upVars, Vless!hopUp, Vless!peerIn,
      Vless!peerOut, Vless!hopDown, Vless!transport, Vless!downVars
  <2> QED BY <2>1, <2>2
<1> QED BY <1>1, <1>2

(* The invariant is inductive.                                             *)
LEMMA ConnectionInduction ==
  /\ Init => ConnectionInv
  /\ ConnectionInv /\ [Next]_vars => ConnectionInv'
<1>1. Init => ConnectionInv
  BY DownInit DEF Init, ConnectionInv
<1>2. ASSUME ConnectionInv, [Next]_vars, (of = "vless")' PROVE DownInv'
  <2>1. of = "vless" /\ [Vless!Next]_(Vless!vars)
    BY <1>2, ConnectionOrOther
  <2> QED BY <1>2, <2>1, DownStep DEF ConnectionInv
<1> QED BY <1>1, <1>2 DEF ConnectionInv

(* The bytes of an answer are in the network, in the tasks, in the pipe or *)
(* decoded, each once and in order.                                        *)
THEOREM ConnectionInvAlways == Spec => []ConnectionInv
<1> QED BY ConnectionInduction, PTL DEF Spec

(* The user gets what the peer has sent behind its response header, in     *)
(* order and with nothing of the framing in it, whatever the transport,    *)
(* the traffic of the user and the reads are; and an XHTTP worker leaves   *)
(* nothing of an answer unread on the connection it keeps, but the body of *)
(* one that announces none.                                                *)
THEOREM DownloadIntactAlways == Spec => []DownloadIntact
<1>1. ConnectionInv /\ XhttpSafety => DownloadIntact
  BY DownIntact DEF ConnectionInv, XhttpSafety, DownloadIntact
<1> QED BY <1>1, ConnectionInvAlways, XhttpSafe, PTL

-----------------------------------------------------------------------------
(* The upload.  What OfTypes keeps is a sequence.                          *)
LEMMA OfTypesIn ==
  ASSUME NEW T, NEW t \in Seq(Tok)
  PROVE  Vless!OfTypes(t, T) \in Seq(Tok)
<1> DEFINE Of(u) == Vless!OfTypes(u, T)
           S == { n \in Nat : \A u \in Seq(Tok) : Len(u) = n => Of(u) \in Seq(Tok) }
<1> HIDE DEF Of
<1>1. 0 \in S
  <2>1. \A u \in Seq(Tok) : Len(u) = 0 => u = << >>
    BY EmptySeq
  <2>2. Of(<< >>) = << >>
    BY OfTypesStep DEF Of
  <2> QED BY <2>1, <2>2, EmptySeq
<1>2. ASSUME NEW n \in Nat, n \in S PROVE n + 1 \in S
  <2> SUFFICES ASSUME NEW u \in Seq(Tok), Len(u) = n + 1 PROVE Of(u) \in Seq(Tok)
    OBVIOUS
  <2>1. u # << >>
    OBVIOUS
  <2>2. PICK v \in Seq(Tok), e \in Tok : u = Append(v, e)
    BY <2>1, SequenceEmptyOrAppend
  <2>3. Len(v) = n
    BY <2>2, AppendProperties, LenProperties
  <2>4. Of(u) = IF e[1] \in T THEN Append(Of(v), e) ELSE Of(v)
    BY <2>2, OfTypesStep DEF Of
  <2>5. Of(v) \in Seq(Tok)
    BY <1>2, <2>3
  <2> QED BY <2>4, <2>5, AppendProperties
<1>3. Of(t) \in Seq(Tok)
  <2> HIDE DEF S
  <2>1. \A n \in Nat : n \in S
    BY <1>1, <1>2, Induction
  <2> QED BY <2>1, LenProperties DEF S
<1> QED BY <1>3 DEF Of

(* A byte behind two sequences.                                            *)
LEMMA AppendBehind ==
  ASSUME NEW S, NEW s \in Seq(S), NEW t \in Seq(S), NEW e \in S
  PROVE  s \o Append(t, e) = Append(s \o t, e)
<1>1. PICK a \in Seq(S), b \in Seq(S) : a = Append(t, e) /\ b = s \o t
  BY AppendProperties, ConcatProperties
<1>2. PICK k \in Nat, l \in Nat : k = Len(s) /\ l = Len(t)
  BY LenProperties
<1>3. Len(a) = l + 1 /\ a[l + 1] = e /\ \A i \in 1 .. l : a[i] = t[i]
  BY <1>1, <1>2, AppendProperties
<1>4. Len(b) = k + l /\ \A i \in 1 .. k + l : b[i] = IF i <= k THEN s[i] ELSE t[i - k]
  BY <1>1, <1>2, ConcatProperties
<1>5. PICK c \in Seq(S), d \in Seq(S) : c = s \o a /\ d = Append(b, e)
  BY AppendProperties, ConcatProperties
<1>6. Len(c) = k + l + 1 /\ \A i \in 1 .. k + l + 1 : c[i] = IF i <= k THEN s[i] ELSE a[i - k]
  <2>1. PICK x, y : x = Len(s) /\ y = Len(a)
    OBVIOUS
  <2>2. Len(c) = x + y /\ \A i \in 1 .. x + y : c[i] = IF i <= x THEN s[i] ELSE a[i - x]
    BY <1>5, <2>1, ConcatProperties
  <2>3. x = k /\ x + y = k + l + 1
    BY <1>2, <1>3, <2>1
  <2> QED BY <2>2, <2>3
<1>7. /\ Len(d) = k + l + 1 /\ d[k + l + 1] = e /\ \A i \in 1 .. k + l : d[i] = b[i]
  BY <1>4, <1>5, AppendProperties
<1>8. ASSUME NEW i \in 1 .. k + l + 1 PROVE c[i] = d[i]
  <2>1. CASE i <= k
    BY SMTT(40), <1>4, <1>6, <1>7, <2>1
  <2>2. CASE i > k /\ i <= k + l
    <3>1. PICK j \in 1 .. l : j = i - k
      BY <2>2
    <3>2. ~(i <= k) /\ i \in 1 .. k + l
      BY <2>2
    <3>3. d[i] = t[j]
      BY <1>4, <1>7, <3>1, <3>2
    <3>4. c[i] = a[j]
      BY <1>6, <3>1, <3>2
    <3> QED BY <1>3, <3>3, <3>4
  <2>3. CASE i = k + l + 1
    <3>1. i - k = l + 1 /\ ~(i <= k)
      BY <2>3
    <3> QED BY <1>3, <1>6, <1>7, <2>3, <3>1
  <2> QED BY <2>1, <2>2, <2>3
<1>9. c = d
  BY <1>6, <1>7, <1>8, SeqEqual
<1> QED BY <1>1, <1>5, <1>9

(* What it keeps of two sequences, one behind the other.                   *)
LEMMA OfTypesConcat ==
  ASSUME NEW T, NEW s \in Seq(Tok), NEW t \in Seq(Tok)
  PROVE  Vless!OfTypes(s \o t, T) = Vless!OfTypes(s, T) \o Vless!OfTypes(t, T)
<1> DEFINE Of(u) == Vless!OfTypes(u, T)
           S == { n \in Nat : \A u \in Seq(Tok) : Len(u) = n => Of(s \o u) = Of(s) \o Of(u) }
<1>0. \A u \in Seq(Tok) : Of(u) \in Seq(Tok)
  BY OfTypesIn
<1> HIDE DEF Of
<1>1. 0 \in S
  <2>1. \A u \in Seq(Tok) : Len(u) = 0 => u = << >>
    BY EmptySeq
  <2>2. Of(<< >>) = << >>
    BY OfTypesStep DEF Of
  <2>3. s \o << >> = s
    BY ConcatEmptySeq
  <2>4. Of(s) \o << >> = Of(s)
    BY <1>0, ConcatEmptySeq
  <2> QED BY <2>1, <2>2, <2>3, <2>4
<1>2. ASSUME NEW n \in Nat, n \in S PROVE n + 1 \in S
  <2> SUFFICES ASSUME NEW u \in Seq(Tok), Len(u) = n + 1 PROVE Of(s \o u) = Of(s) \o Of(u)
    OBVIOUS
  <2>1. u # << >>
    OBVIOUS
  <2>2. PICK v \in Seq(Tok), e \in Tok : u = Append(v, e)
    BY <2>1, SequenceEmptyOrAppend
  <2>3. Len(v) = n
    BY <2>2, AppendProperties, LenProperties
  <2>4. Of(u) = IF e[1] \in T THEN Append(Of(v), e) ELSE Of(v)
    BY <2>2, OfTypesStep DEF Of
  <2>5. Of(s \o v) = Of(s) \o Of(v)
    BY <1>2, <2>3
  <2>6. PICK r \in Seq(Tok) : r = s \o v
    BY ConcatProperties
  <2>7. s \o u = Append(r, e)
    BY <2>2, <2>6, AppendBehind
  <2>8. Of(Append(r, e)) = IF e[1] \in T THEN Append(Of(r), e) ELSE Of(r)
    BY OfTypesStep DEF Of
  <2>9. Append(Of(s) \o Of(v), e) = Of(s) \o Append(Of(v), e)
    <3>1. PICK x \in Seq(Tok), y \in Seq(Tok) : x = Of(s) /\ y = Of(v)
      BY <1>0
    <3>2. x \o Append(y, e) = Append(x \o y, e)
      BY AppendBehind
    <3> QED BY <3>1, <3>2
  <2> QED BY <2>4, <2>5, <2>6, <2>7, <2>8, <2>9
<1>3. Of(s \o t) = Of(s) \o Of(t)
  <2> HIDE DEF S
  <2>1. \A n \in Nat : n \in S
    BY <1>1, <1>2, Induction
  <2> QED BY <2>1, LenProperties DEF S
<1> QED BY <1>3 DEF Of

(* Which types it keeps matters only for those there are.                  *)
LEMMA OfTypesSame ==
  ASSUME NEW T, NEW U, NEW t \in Seq(Tok), \A i \in 1 .. Len(t) : t[i][1] \in T <=> t[i][1] \in U
  PROVE  Vless!OfTypes(t, T) = Vless!OfTypes(t, U)
<1> DEFINE Same(u) == \A i \in 1 .. Len(u) : u[i][1] \in T <=> u[i][1] \in U
           S == { n \in Nat : \A u \in Seq(Tok) : Len(u) = n /\ Same(u) =>
                                Vless!OfTypes(u, T) = Vless!OfTypes(u, U) }
<1>1. 0 \in S
  <2>1. \A u \in Seq(Tok) : Len(u) = 0 => u = << >>
    BY EmptySeq
  <2> QED BY <2>1, OfTypesStep
<1>2. ASSUME NEW n \in Nat, n \in S PROVE n + 1 \in S
  <2> SUFFICES ASSUME NEW u \in Seq(Tok), Len(u) = n + 1, Same(u)
               PROVE  Vless!OfTypes(u, T) = Vless!OfTypes(u, U)
    OBVIOUS
  <2>1. u # << >>
    OBVIOUS
  <2>2. PICK v \in Seq(Tok), e \in Tok : u = Append(v, e)
    BY <2>1, SequenceEmptyOrAppend
  <2>3. Len(v) = n /\ u[n + 1] = e /\ \A i \in 1 .. n : u[i] = v[i]
    BY <2>2, AppendProperties, LenProperties
  <2>4. Same(v) /\ (e[1] \in T <=> e[1] \in U)
    <3>1. n + 1 \in 1 .. Len(u) /\ \A i \in 1 .. n : i \in 1 .. Len(u)
      OBVIOUS
    <3> QED BY <2>3, <3>1
  <2>5. Vless!OfTypes(v, T) = Vless!OfTypes(v, U)
    BY <1>2, <2>3, <2>4
  <2>6. /\ Vless!OfTypes(u, T) = IF e[1] \in T THEN Append(Vless!OfTypes(v, T), e) ELSE Vless!OfTypes(v, T)
        /\ Vless!OfTypes(u, U) = IF e[1] \in U THEN Append(Vless!OfTypes(v, U), e) ELSE Vless!OfTypes(v, U)
    BY <2>2, OfTypesStep
  <2> QED BY <2>4, <2>5, <2>6
<1>3. Vless!OfTypes(t, T) = Vless!OfTypes(t, U)
  <2>1. Same(t)
    OBVIOUS
  <2> HIDE DEF S, Same
  <2>2. \A n \in Nat : n \in S
    BY <1>1, <1>2, Induction
  <2> QED BY <2>1, <2>2, LenProperties DEF S
<1> QED BY <1>3

-----------------------------------------------------------------------------
(* Units p + 1 to q of the user's.                                         *)
Counted(u, p, q) ==
  /\ u \in Seq(Tok) /\ p + Len(u) = q
  /\ \A i \in 1 .. Len(u) : u[i][1] \in Vless!Classes /\ u[i][2] = p + i

(* ... and the next ones.                                                  *)
LEMMA CountedConcat ==
  ASSUME NEW u, NEW v, NEW p \in Nat, NEW q \in Nat, NEW r \in Nat, Counted(u, p, q), Counted(v, q, r)
  PROVE  Counted(u \o v, p, r)
<1>1. u \in Seq(Tok) /\ v \in Seq(Tok)
  BY DEF Counted
<1>2. PICK k \in Nat, l \in Nat : k = Len(u) /\ l = Len(v) /\ p + k = q /\ q + l = r
  BY <1>1, LenProperties DEF Counted
<1>3. PICK w \in Seq(Tok) : w = u \o v
  BY <1>1, ConcatProperties
<1>4. /\ Len(w) = k + l /\ \A i \in 1 .. k : w[i] = u[i]
      /\ \A i \in 1 .. l : w[k + i] = v[i]
  BY <1>1, <1>2, <1>3, ConcatFacts
<1>5. ASSUME NEW i \in 1 .. k + l PROVE w[i][1] \in Vless!Classes /\ w[i][2] = p + i
  <2>1. CASE i \in 1 .. k
    BY <1>2, <1>4, <2>1 DEF Counted
  <2>2. CASE i \notin 1 .. k
    <3>1. PICK j \in 1 .. l : i = k + j
      <4>1. i - k \in 1 .. l /\ i = k + (i - k)
        BY <2>2
      <4> QED BY <4>1
    <3>2. v[j][1] \in Vless!Classes /\ v[j][2] = q + j
      BY <1>2 DEF Counted
    <3>3. q + j = p + i
      BY <1>2, <3>1
    <3> QED BY <1>4, <3>1, <3>2, <3>3
  <2> QED BY <2>1, <2>2
<1> QED BY <1>2, <1>3, <1>4, <1>5 DEF Counted

(* A front of them.                                                        *)
LEMMA CountedFront ==
  ASSUME NEW u \in Seq(Tok), NEW v \in Seq(Tok), NEW p \in Nat, NEW r \in Nat, Counted(u \o v, p, r)
  PROVE  \E q \in p .. r : Counted(u, p, q)
<1>1. PICK k \in Nat, l \in Nat : k = Len(u) /\ l = Len(v)
  BY LenProperties
<1>2. PICK w \in Seq(Tok) : w = u \o v
  BY ConcatProperties
<1>3. Len(w) = k + l /\ \A i \in 1 .. k : w[i] = u[i]
  BY <1>1, <1>2, ConcatFacts
<1>4. p + (k + l) = r /\ \A i \in 1 .. k + l : w[i][1] \in Vless!Classes /\ w[i][2] = p + i
  BY <1>2, <1>3 DEF Counted
<1>5. \A i \in 1 .. k : u[i][1] \in Vless!Classes /\ u[i][2] = p + i
  <2> TAKE i \in 1 .. k
  <2>1. i \in 1 .. k + l
    OBVIOUS
  <2> QED BY <1>3, <1>4, <2>1
<1>6. PICK q \in p .. r : q = p + k
  BY <1>4
<1>7. Counted(u, p, q)
  BY <1>1, <1>5, <1>6 DEF Counted
<1> QED BY <1>7

(* The first n of them, and the others.                                    *)
LEMMA CountedTaken ==
  ASSUME NEW u, NEW p \in Nat, NEW r \in Nat, Counted(u, p, r), NEW n \in Nat, n <= Len(u)
  PROVE  \E q \in p .. r : q = p + n /\ Counted(SubSeq(u, 1, n), p, q) /\ Counted(Vless!From(u, n + 1), q, r)
<1>1. u \in Seq(Tok) /\ p + Len(u) = r
  BY DEF Counted
<1>2. PICK l \in Nat : l = Len(u) /\ n <= l /\ p + l = r
  BY <1>1, LenProperties
<1>3. PICK q \in p .. r : q = p + n
  BY <1>2
<1>4. PICK z \in Nat, m \in Nat : z = 0 /\ m = n + 1 /\ z + 1 = 1
  OBVIOUS
<1>5. /\ Win(u, z, n) \in Seq(Tok) /\ Len(Win(u, z, n)) = n - z
      /\ \A i \in 1 .. n - z : Win(u, z, n)[i] = u[z + i]
  <2>1. z <= n /\ n <= Len(u)
    BY <1>2, <1>4
  <2>2. Part(Tok, u, z, n)
    BY <1>1, <2>1, WinPart
  <2> QED BY <2>2 DEF Part
<1>6. /\ Win(u, n, l) \in Seq(Tok) /\ Len(Win(u, n, l)) = l - n
      /\ \A i \in 1 .. l - n : Win(u, n, l)[i] = u[n + i]
  <2>1. n <= l /\ l <= Len(u)
    BY <1>2
  <2>2. Part(Tok, u, n, l)
    BY <1>1, <2>1, WinPart
  <2> QED BY <2>2 DEF Part
<1>7. SubSeq(u, 1, n) = Win(u, z, n) /\ Vless!From(u, n + 1) = Win(u, n, l)
  BY <1>2, <1>4 DEF Win, Vless!From
<1>8. \A i \in 1 .. l : u[i][1] \in Vless!Classes /\ u[i][2] = p + i
  BY <1>2 DEF Counted
<1>9. PICK a \in Seq(Tok) : a = Win(u, z, n)
  BY <1>5
<1>10. PICK b \in Seq(Tok) : b = Win(u, n, l)
  BY <1>6
<1>11. Counted(a, p, q)
  <2>1. Len(a) = n /\ \A i \in 1 .. n : a[i] = u[i]
    BY <1>4, <1>5, <1>9
  <2>2. \A i \in 1 .. n : i \in 1 .. l
    BY <1>2
  <2> QED BY <1>3, <1>8, <2>1, <2>2 DEF Counted
<1>12. Counted(b, q, r)
  <2>1. Len(b) = l - n /\ \A i \in 1 .. l - n : b[i] = u[n + i]
    BY <1>6, <1>10
  <2>2. \A i \in 1 .. l - n : n + i \in 1 .. l /\ p + (n + i) = q + i
    BY <1>2, <1>3
  <2>3. q + (l - n) = r
    BY <1>2, <1>3
  <2> QED BY <1>8, <2>1, <2>2, <2>3 DEF Counted
<1> QED BY <1>3, <1>7, <1>9, <1>10, <1>11, <1>12

(* One more.                                                               *)
LEMMA CountedAppend ==
  ASSUME NEW u, NEW p \in Nat, NEW q \in Nat, Counted(u, p, q), NEW c \in Vless!Classes
  PROVE  Counted(Append(u, <<c, q + 1>>), p, q + 1)
<1>1. u \in Seq(Tok) /\ p + Len(u) = q
  BY DEF Counted
<1>2. PICK e \in Tok : e = <<c, q + 1>>
  <2>1. c \in Types
    BY DEF Types
  <2>2. PICK n \in Nat : n = q + 1
    OBVIOUS
  <2>3. <<c, n>> \in Tok
    BY <2>1 DEF Tok
  <2> QED BY <2>2, <2>3
<1>3. PICK l \in Nat : l = Len(u) /\ p + l = q
  BY <1>1, LenProperties
<1>4. PICK a \in Seq(Tok) : a = Append(u, e)
  BY <1>1, AppendProperties
<1>5. Len(a) = l + 1 /\ a[l + 1] = e /\ \A i \in 1 .. l : a[i] = u[i]
  BY <1>1, <1>3, <1>4, AppendProperties
<1>6. ASSUME NEW i \in 1 .. l + 1 PROVE a[i][1] \in Vless!Classes /\ a[i][2] = p + i
  <2>1. CASE i \in 1 .. l
    BY <1>3, <1>5, <2>1 DEF Counted
  <2>2. CASE i = l + 1
    BY <1>2, <1>3, <1>5, <2>2
  <2> QED BY <2>1, <2>2
<1> QED BY <1>2, <1>3, <1>4, <1>5, <1>6 DEF Counted

(* None.                                                                   *)
LEMMA CountedNone == \A p \in Nat : Counted(<< >>, p, p)
<1> SUFFICES ASSUME NEW p \in Nat PROVE Counted(<< >>, p, p)
  OBVIOUS
<1>1. << >> \in Seq(Tok) /\ Len(<< >>) = 0
  BY EmptySeq
<1> QED BY <1>1 DEF Counted

-----------------------------------------------------------------------------
(* The tokens that a Vision peer decodes, and those behind which something *)
(* of the length they announce follows.                                    *)
Coded == Vless!Classes \cup {"uuid", "command", "content", "padding", "zero"}
Visible(s) == Vless!OfTypes(s, Coded)
Bodies == Vless!Classes \cup {"request"}

(* What the upload task of the adapter writes, without the framing of a    *)
(* transport, and without padding.                                         *)
NoFrames(s) == s \in Seq(Tok) /\ \A i \in 1 .. Len(s) : s[i][1] \notin Vless!Framing
Body(s) == s \in Seq(Tok) /\ \A i \in 1 .. Len(s) : s[i][1] \in Bodies

(* Every frame announces what follows it, all of it.                       *)
Announced(s) ==
  /\ s \in Seq(Tok)
  /\ \A i \in 1 .. Len(s) : s[i][1] \in Vless!Framing => i + s[i][2] <= Len(s)
  /\ \A i \in 1 .. Len(s) : \A j \in 1 .. Len(s) :
       s[i][1] \in Vless!Framing /\ i < j /\ j <= i + s[i][2] => s[j][1] \in Bodies

(* Units of the user's are what the peer reads of them.                    *)
LEMMA CountedUnits ==
  ASSUME NEW u, NEW p \in Nat, NEW q \in Nat, Counted(u, p, q)
  PROVE  Vless!UnitsIn(u) = u /\ Visible(u) = u /\ Body(u) /\ Vless!UnitsIn(u) \in Seq(Tok)
<1>1. u \in Seq(Tok) /\ \A i \in 1 .. Len(u) : u[i][1] \in Vless!Classes
  BY DEF Counted
<1>2. PICK C : C = Vless!Classes
  OBVIOUS
<1>3. (\A i \in 1 .. Len(u) : u[i][1] \in C) => Vless!OfTypes(u, C) = u
  BY <1>1, OfTypesAll
<1>4. PICK D : D = Coded
  OBVIOUS
<1>5. (\A i \in 1 .. Len(u) : u[i][1] \in D) => Vless!OfTypes(u, D) = u
  BY <1>1, OfTypesAll
<1>6. \A i \in 1 .. Len(u) : u[i][1] \in D
  BY <1>1, <1>4 DEF Coded
<1>7. Vless!UnitsIn(u) = u
  BY <1>1, <1>2, <1>3 DEF Vless!UnitsIn
<1>8. Visible(u) = u
  BY <1>4, <1>5, <1>6 DEF Visible
<1> QED BY <1>1, <1>7, <1>8 DEF Body, Bodies

(* Of what has no padding the peer reads the units.                        *)
LEMMA BodyIs ==
  ASSUME NEW s, Body(s)
  PROVE  Visible(s) = Vless!UnitsIn(s) /\ NoFrames(s) /\ Announced(s)
<1>1. s \in Seq(Tok) /\ \A i \in 1 .. Len(s) : s[i][1] \in Bodies
  BY DEF Body
<1>2. PICK C, D : C = Vless!Classes /\ D = Coded
  OBVIOUS
<1>3. \A i \in 1 .. Len(s) : s[i][1] \in D <=> s[i][1] \in C
  <2>1. "request" \notin C /\ "request" \notin D
    BY <1>2 DEF Coded, Vless!Classes
  <2> QED BY <1>1, <1>2, <2>1 DEF Bodies, Coded
<1>4. (\A i \in 1 .. Len(s) : s[i][1] \in D <=> s[i][1] \in C) =>
        Vless!OfTypes(s, D) = Vless!OfTypes(s, C)
  BY <1>1, OfTypesSame
<1>5. Visible(s) = Vless!UnitsIn(s)
  BY <1>2, <1>3, <1>4 DEF Visible, Vless!UnitsIn
<1>6. \A t \in Bodies : t \notin Vless!Framing
  BY DEF Bodies, Vless!Framing, Vless!Classes
<1>7. \A i \in 1 .. Len(s) : s[i][1] \notin Vless!Framing
  BY <1>1, <1>6
<1> QED BY <1>1, <1>5, <1>7 DEF NoFrames, Announced

(* What is true of two is true of both together.                           *)
LEMMA BodyConcat ==
  ASSUME NEW s, NEW t, Body(s), Body(t)
  PROVE  Body(s \o t)
<1>1. s \in Seq(Tok) /\ t \in Seq(Tok)
  BY DEF Body
<1>2. PICK k \in Nat, l \in Nat : k = Len(s) /\ l = Len(t)
  BY <1>1, LenProperties
<1>3. PICK w \in Seq(Tok) : w = s \o t
  BY <1>1, ConcatProperties
<1>4. Len(w) = k + l /\ \A i \in 1 .. k + l : w[i] = IF i <= k THEN s[i] ELSE t[i - k]
  BY <1>1, <1>2, <1>3, ConcatProperties
<1>5. ASSUME NEW i \in 1 .. k + l PROVE w[i][1] \in Bodies
  <2>1. CASE i <= k
    BY <1>2, <1>4, <2>1 DEF Body
  <2>2. CASE ~(i <= k)
    <3>1. i - k \in 1 .. l
      BY <2>2
    <3> QED BY <1>2, <1>4, <2>2, <3>1 DEF Body
  <2> QED BY <2>1, <2>2
<1> QED BY <1>3, <1>4, <1>5 DEF Body

LEMMA NoFramesConcat ==
  ASSUME NEW s, NEW t, NoFrames(s), NoFrames(t)
  PROVE  NoFrames(s \o t)
<1>1. s \in Seq(Tok) /\ t \in Seq(Tok)
  BY DEF NoFrames
<1>2. PICK k \in Nat, l \in Nat : k = Len(s) /\ l = Len(t)
  BY <1>1, LenProperties
<1>3. PICK w \in Seq(Tok) : w = s \o t
  BY <1>1, ConcatProperties
<1>4. Len(w) = k + l /\ \A i \in 1 .. k + l : w[i] = IF i <= k THEN s[i] ELSE t[i - k]
  BY <1>1, <1>2, <1>3, ConcatProperties
<1>5. ASSUME NEW i \in 1 .. k + l PROVE w[i][1] \notin Vless!Framing
  <2>1. CASE i <= k
    BY <1>2, <1>4, <2>1 DEF NoFrames
  <2>2. CASE ~(i <= k)
    <3>1. i - k \in 1 .. l
      BY <2>2
    <3> QED BY <1>2, <1>4, <2>2, <3>1 DEF NoFrames
  <2> QED BY <2>1, <2>2
<1> QED BY <1>3, <1>4, <1>5 DEF NoFrames

LEMMA AnnouncedConcat ==
  ASSUME NEW s, NEW t, Announced(s), Announced(t)
  PROVE  Announced(s \o t)
<1>1. s \in Seq(Tok) /\ t \in Seq(Tok)
  BY DEF Announced
<1>2. PICK k \in Nat, l \in Nat : k = Len(s) /\ l = Len(t)
  BY <1>1, LenProperties
<1>3. PICK w \in Seq(Tok) : w = s \o t
  BY <1>1, ConcatProperties
<1>4. /\ Len(w) = k + l /\ \A i \in 1 .. k : w[i] = s[i]
      /\ \A i \in 1 .. l : w[k + i] = t[i]
  BY <1>1, <1>2, <1>3, ConcatFacts
<1>5. ASSUME NEW i \in 1 .. k + l, w[i][1] \in Vless!Framing
      PROVE  /\ i + w[i][2] <= k + l
             /\ \A j \in 1 .. k + l : i < j /\ j <= i + w[i][2] => w[j][1] \in Bodies
  <2>1. CASE i \in 1 .. k
    <3>1. s[i] \in Tok /\ s[i] = w[i]
      BY <1>1, <1>2, <1>4, <2>1, ElementOfSeq
    <3>2. PICK n \in Nat : n = s[i][2]
      BY <3>1 DEF Tok
    <3>3. i + n <= k /\ \A j \in 1 .. k : i < j /\ j <= i + n => s[j][1] \in Bodies
      BY <1>2, <1>5, <2>1, <3>1, <3>2 DEF Announced
    <3>4. ASSUME NEW j \in 1 .. k + l, i < j, j <= i + n PROVE w[j][1] \in Bodies
      <4>1. j \in 1 .. k
        BY <3>3, <3>4
      <4> QED BY <1>4, <3>3, <3>4, <4>1
    <3>5. i + n <= k + l
      BY <3>3
    <3> QED BY <3>1, <3>2, <3>4, <3>5
  <2>2. CASE i \notin 1 .. k
    <3>1. PICK h \in 1 .. l : i = k + h
      <4>1. i - k \in 1 .. l /\ i = k + (i - k)
        BY <2>2
      <4> QED BY <4>1
    <3>2. t[h] \in Tok /\ t[h] = w[i]
      BY <1>1, <1>2, <1>4, <3>1, ElementOfSeq
    <3>3. PICK n \in Nat : n = t[h][2]
      BY <3>2 DEF Tok
    <3>4. h + n <= l /\ \A j \in 1 .. l : h < j /\ j <= h + n => t[j][1] \in Bodies
      BY <1>2, <1>5, <3>2, <3>3 DEF Announced
    <3>5. ASSUME NEW j \in 1 .. k + l, i < j, j <= i + n PROVE w[j][1] \in Bodies
      <4>1. PICK g \in 1 .. l : j = k + g /\ h < g /\ g <= h + n
        <5>1. j - k \in 1 .. l /\ j = k + (j - k) /\ h < j - k /\ j - k <= h + n
          BY <3>1, <3>4, <3>5
        <5> QED BY <5>1
      <4>2. t[g][1] \in Bodies
        BY <3>4, <4>1
      <4> QED BY <1>4, <4>1, <4>2
    <3>6. i + n <= k + l
      BY <3>1, <3>4
    <3> QED BY <3>2, <3>3, <3>5, <3>6
  <2> QED BY <2>1, <2>2
<1>6. \A i \in 1 .. Len(w) : w[i][1] \in Vless!Framing =>
        /\ i + w[i][2] <= Len(w)
        /\ \A j \in 1 .. Len(w) : i < j /\ j <= i + w[i][2] => w[j][1] \in Bodies
  BY <1>4, <1>5
<1> QED BY <1>3, <1>6 DEF Announced

-----------------------------------------------------------------------------
(* What the peer has received carries X: the units of X and no others, and *)
(* every frame with all that it announces.                                 *)
Wraps(s, X) ==
  /\ Announced(s) /\ Vless!UnitsIn(s) = Vless!UnitsIn(X)
  /\ Visible(s) = Vless!UnitsIn(s)

(* A byte, and sequences of one and of two.                                *)
LEMMA TokenIs ==
  \A t \in Types, n \in Nat : \E e \in Tok : e = <<t, n>> /\ e[1] = t /\ e[2] = n
<1> SUFFICES ASSUME NEW t \in Types, NEW n \in Nat
             PROVE  \E e \in Tok : e = <<t, n>> /\ e[1] = t /\ e[2] = n
  OBVIOUS
<1>1. <<t, n>> \in Tok
  BY DEF Tok
<1> QED BY <1>1

LEMMA OneToken ==
  \A e \in Tok : \E s \in Seq(Tok) : s = <<e>> /\ Len(s) = 1 /\ s[1] = e
<1> SUFFICES ASSUME NEW e \in Tok PROVE \E s \in Seq(Tok) : s = <<e>> /\ Len(s) = 1 /\ s[1] = e
  OBVIOUS
<1>1. <<e>> \in Seq(Tok) /\ Len(<<e>>) = 1 /\ <<e>>[1] = e
  OBVIOUS
<1> QED BY <1>1

LEMMA TwoTokens ==
  \A d \in Tok, e \in Tok :
    \E s \in Seq(Tok) : s = <<d, e>> /\ Len(s) = 2 /\ s[1] = d /\ s[2] = e
<1> SUFFICES ASSUME NEW d \in Tok, NEW e \in Tok
             PROVE  \E s \in Seq(Tok) : s = <<d, e>> /\ Len(s) = 2 /\ s[1] = d /\ s[2] = e
  OBVIOUS
<1>1. <<d, e>> \in Seq(Tok) /\ Len(<<d, e>>) = 2 /\ <<d, e>>[1] = d /\ <<d, e>>[2] = e
  OBVIOUS
<1> QED BY <1>1

(* A header of a frame is nothing that the peer's user reads.              *)
LEMMA HeaderUnseen ==
  ASSUME NEW s \in Seq(Tok), \A i \in 1 .. Len(s) : s[i][1] \in Vless!Framing \cup {"flag"}
  PROVE  Vless!UnitsIn(s) = << >> /\ Visible(s) = << >>
<1>1. PICK C, D : C = Vless!Classes /\ D = Coded
  OBVIOUS
<1>2. \A x \in Vless!Framing \cup {"flag"} : x \notin C /\ x \notin D
  BY <1>1 DEF Coded, Vless!Classes, Vless!Framing
<1>3. (\A i \in 1 .. Len(s) : s[i][1] \notin C) => Vless!OfTypes(s, C) = << >>
  BY OfTypesAll
<1>4. (\A i \in 1 .. Len(s) : s[i][1] \notin D) => Vless!OfTypes(s, D) = << >>
  BY OfTypesAll
<1> QED BY <1>1, <1>2, <1>3, <1>4 DEF Vless!UnitsIn, Visible

(* What OfTypes keeps of the frame of a part.                              *)
LEMMA UnitsConcat ==
  ASSUME NEW s \in Seq(Tok), NEW t \in Seq(Tok)
  PROVE  /\ Vless!UnitsIn(s \o t) = Vless!UnitsIn(s) \o Vless!UnitsIn(t)
         /\ Visible(s \o t) = Visible(s) \o Visible(t)
         /\ Vless!UnitsIn(s) \in Seq(Tok) /\ Visible(s) \in Seq(Tok)
<1>1. PICK C, D : C = Vless!Classes /\ D = Coded
  OBVIOUS
<1>2. /\ Vless!OfTypes(s \o t, C) = Vless!OfTypes(s, C) \o Vless!OfTypes(t, C)
      /\ Vless!OfTypes(s \o t, D) = Vless!OfTypes(s, D) \o Vless!OfTypes(t, D)
  BY OfTypesConcat
<1>3. Vless!OfTypes(s, C) \in Seq(Tok) /\ Vless!OfTypes(s, D) \in Seq(Tok)
  BY OfTypesIn
<1> QED BY <1>1, <1>2, <1>3 DEF Vless!UnitsIn, Visible

(* A frame: its header, of h tokens the last of which has the length, and  *)
(* a part of what the task has written.                                    *)
LEMMA FrameWraps ==
  ASSUME NEW head \in Seq(Tok), NEW s, Body(s), NEW h \in Nat, h = Len(head), h > 0,
         \A i \in 1 .. Len(head) : head[i][1] \in Vless!Framing \cup {"flag"},
         \A i \in 1 .. Len(head) : head[i][1] \in Vless!Framing => i = h /\ head[i][2] = Len(s)
  PROVE  Wraps(head \o s, s)
<1>1. PICK k \in Nat : k = Len(s) /\ s \in Seq(Tok)
  BY LenProperties DEF Body
<1>2. PICK w \in Seq(Tok) : w = head \o s
  BY <1>1, ConcatProperties
<1>3. /\ Len(w) = h + k /\ \A i \in 1 .. h : w[i] = head[i]
      /\ \A i \in 1 .. k : w[h + i] = s[i]
  BY <1>1, <1>2, ConcatFacts
<1>4. \A i \in 1 .. k : s[i][1] \in Bodies
  BY <1>1 DEF Body
<1>5. \A t \in Bodies : t \notin Vless!Framing
  BY DEF Bodies, Vless!Framing, Vless!Classes
<1>6. ASSUME NEW i \in 1 .. h + k, w[i][1] \in Vless!Framing PROVE i = h /\ w[i][2] = k
  <2>1. CASE i \in 1 .. h
    BY <1>1, <1>3, <1>6, <2>1
  <2>2. CASE i \notin 1 .. h
    <3>1. PICK j \in 1 .. k : i = h + j
      <4>1. i - h \in 1 .. k /\ i = h + (i - h)
        BY <2>2
      <4> QED BY <4>1
    <3> QED BY <1>3, <1>4, <1>5, <1>6, <3>1
  <2> QED BY <2>1, <2>2
<1>7. ASSUME NEW j \in 1 .. h + k, h < j PROVE w[j][1] \in Bodies
  <2>1. PICK i \in 1 .. k : j = h + i
    <3>1. j - h \in 1 .. k /\ j = h + (j - h)
      BY <1>7
    <3> QED BY <3>1
  <2> QED BY <1>3, <1>4, <2>1
<1>8. Announced(w)
  <2>1. \A i \in 1 .. h + k : w[i][1] \in Vless!Framing => i + w[i][2] <= h + k
    BY <1>6
  <2>2. \A i \in 1 .. h + k : \A j \in 1 .. h + k :
          w[i][1] \in Vless!Framing /\ i < j /\ j <= i + w[i][2] => w[j][1] \in Bodies
    BY <1>6, <1>7
  <2> QED BY <1>2, <1>3, <2>1, <2>2 DEF Announced
<1>9. PICK none \in Seq(Tok) : none = << >> /\ Vless!UnitsIn(head) = none /\ Visible(head) = none
  BY HeaderUnseen, EmptySeq
<1>10. PICK u \in Seq(Tok) : u = Vless!UnitsIn(s) /\ Visible(s) = u
  BY <1>1, BodyIs, UnitsConcat
<1>11. none \o u = u
  BY <1>9, ConcatEmpty
<1>12. Vless!UnitsIn(w) = u /\ Visible(w) = u
  <2>1. /\ Vless!UnitsIn(head \o s) = Vless!UnitsIn(head) \o Vless!UnitsIn(s)
        /\ Visible(head \o s) = Visible(head) \o Visible(s)
    BY <1>1, UnitsConcat
  <2> QED BY <1>2, <1>9, <1>10, <1>11, <2>1
<1> QED BY <1>2, <1>8, <1>10, <1>12 DEF Wraps

(* What each transport makes of a read.                                    *)
LEMMA FramedWraps ==
  ASSUME NEW s, Body(s)
  PROVE  Wraps(Vless!Framed(s), s)
<1>1. PICK k \in Nat : k = Len(s) /\ s \in Seq(Tok)
  BY LenProperties DEF Body
<1>2. CASE kind = "http1"
  <2>1. PICK e \in Tok : e = <<"chunk", k>> /\ e[1] = "chunk" /\ e[2] = k
    <3>1. "chunk" \in Types
      BY DEF Types
    <3> QED BY <1>1, <3>1, TokenIs
  <2>2. PICK head \in Seq(Tok) : head = <<e>> /\ Len(head) = 1 /\ head[1] = e
    BY OneToken
  <2>3. PICK h \in Nat : h = 1
    OBVIOUS
  <2>4. /\ h = Len(head) /\ h > 0
        /\ \A i \in 1 .. Len(head) : i = h /\ head[i] = e
    BY <2>2, <2>3
  <2>5. e[1] \in Vless!Framing
    BY <2>1 DEF Vless!Framing
  <2>6. Wraps(head \o s, s)
    BY <1>1, <2>1, <2>4, <2>5, FrameWraps
  <2> QED BY <1>1, <1>2, <2>1, <2>2, <2>6 DEF Vless!Framed
<1>3. CASE kind = "ws"
  <2>1. PICK e \in Tok : e = <<"message", k>> /\ e[1] = "message" /\ e[2] = k
    <3>1. "message" \in Types
      BY DEF Types
    <3> QED BY <1>1, <3>1, TokenIs
  <2>2. PICK head \in Seq(Tok) : head = <<e>> /\ Len(head) = 1 /\ head[1] = e
    BY OneToken
  <2>3. PICK h \in Nat : h = 1
    OBVIOUS
  <2>4. /\ h = Len(head) /\ h > 0
        /\ \A i \in 1 .. Len(head) : i = h /\ head[i] = e
    BY <2>2, <2>3
  <2>5. e[1] \in Vless!Framing
    BY <2>1 DEF Vless!Framing
  <2>6. Wraps(head \o s, s)
    BY <1>1, <2>1, <2>4, <2>5, FrameWraps
  <2> QED BY <1>1, <1>3, <2>1, <2>2, <2>6 DEF Vless!Framed
<1>4. CASE kind = "grpc"
  <2>1. PICK d \in Tok, e \in Tok :
          d = <<"flag", 0>> /\ d[1] = "flag" /\ e = <<"length", k>> /\ e[1] = "length" /\ e[2] = k
    <3>1. "flag" \in Types /\ "length" \in Types /\ 0 \in Nat
      BY DEF Types
    <3> QED BY <3>1, TokenIs
  <2>2. PICK head \in Seq(Tok) : head = <<d, e>> /\ Len(head) = 2 /\ head[1] = d /\ head[2] = e
    BY TwoTokens
  <2>3. PICK h \in Nat : h = 2
    OBVIOUS
  <2>4. h = Len(head) /\ h > 0 /\ \A i \in 1 .. Len(head) : (i = 1 /\ head[i] = d) \/ (i = h /\ head[i] = e)
    BY <2>2, <2>3
  <2>5. e[1] \in Vless!Framing /\ d[1] \notin Vless!Framing /\ d[1] \in {"flag"}
    BY <2>1 DEF Vless!Framing
  <2>6. /\ \A i \in 1 .. Len(head) : head[i][1] \in Vless!Framing \cup {"flag"}
        /\ \A i \in 1 .. Len(head) : head[i][1] \in Vless!Framing => i = h /\ head[i][2] = Len(s)
    BY <1>1, <2>1, <2>4, <2>5
  <2>7. Wraps(head \o s, s)
    BY <2>4, <2>6, FrameWraps
  <2> QED BY <1>1, <1>4, <2>1, <2>2, <2>7 DEF Vless!Framed, Vless!Hunk
<1>5. CASE kind \notin {"http1", "ws", "grpc"}
  <2>1. Vless!Framed(s) = s
    BY <1>5 DEF Vless!Framed
  <2>2. Wraps(s, s)
    BY BodyIs DEF Wraps
  <2> QED BY <2>1, <2>2
<1> QED BY <1>2, <1>3, <1>4, <1>5

(* What has been received carries one more read.                           *)
LEMMA WrapsConcat ==
  ASSUME NEW s, NEW X \in Seq(Tok), NEW t, NEW Y \in Seq(Tok), Wraps(s, X), Wraps(t, Y)
  PROVE  Wraps(s \o t, X \o Y)
<1>1. s \in Seq(Tok) /\ t \in Seq(Tok)
  BY DEF Wraps, Announced
<1>2. Announced(s \o t)
  BY AnnouncedConcat DEF Wraps
<1>3. /\ Vless!UnitsIn(s \o t) = Vless!UnitsIn(s) \o Vless!UnitsIn(t)
      /\ Visible(s \o t) = Visible(s) \o Visible(t)
      /\ Vless!UnitsIn(X \o Y) = Vless!UnitsIn(X) \o Vless!UnitsIn(Y)
  BY <1>1, UnitsConcat
<1> QED BY <1>2, <1>3 DEF Wraps

(* ... or the end of the body.                                             *)
LEMMA WrapsLast ==
  ASSUME NEW s, NEW X, Wraps(s, X), NEW last, last \in {<< >>, <<<<"chunk", 0>>>>}
  PROVE  Wraps(s \o last, X)
<1>1. s \in Seq(Tok)
  BY DEF Wraps, Announced
<1>2. PICK none \in Seq(Tok) : none = << >> /\ Len(none) = 0
  BY EmptySeq
<1>3. PICK e \in Tok : e = <<"chunk", 0>> /\ e[1] = "chunk" /\ e[2] = 0
  <2>1. "chunk" \in Types /\ 0 \in Nat
    BY DEF Types
  <2> QED BY <2>1, TokenIs
<1>4. PICK t \in Seq(Tok) : t = <<e>> /\ Len(t) = 1 /\ t[1] = e
  BY OneToken
<1>5. last \in Seq(Tok) /\ Announced(last) /\ Vless!UnitsIn(last) = none /\ Visible(last) = none
  <2>1. CASE last = none
    <3>1. Announced(none)
      BY <1>2 DEF Announced
    <3>2. Vless!UnitsIn(none) = none /\ Visible(none) = none
      <4>1. \A i \in 1 .. Len(none) : none[i][1] \in Vless!Framing \cup {"flag"}
        BY <1>2
      <4>2. Vless!UnitsIn(none) = << >> /\ Visible(none) = << >>
        BY <4>1, HeaderUnseen
      <4> QED BY <1>2, <4>2
    <3> QED BY <2>1, <3>1, <3>2
  <2>2. CASE last = t
    <3>1. \A i \in 1 .. Len(t) : i = 1 /\ t[i] = e
      BY <1>4
    <3>2. Announced(t)
      BY <1>3, <1>4, <3>1 DEF Announced
    <3>3. e[1] \in Vless!Framing
      BY <1>3 DEF Vless!Framing
    <3>4. Vless!UnitsIn(t) = none /\ Visible(t) = none
      BY <1>2, <3>1, <3>3, HeaderUnseen
    <3> QED BY <2>2, <3>2, <3>4
  <2> QED BY <1>2, <1>3, <1>4, <2>1, <2>2
<1>6. Announced(s \o last)
  BY <1>5, AnnouncedConcat DEF Wraps
<1>7. PICK u \in Seq(Tok), v \in Seq(Tok) : u = Vless!UnitsIn(s) /\ v = Visible(s)
  BY <1>1, UnitsConcat
<1>8. u \o none = u /\ v \o none = v
  BY <1>2, ConcatEmpty
<1>9. Vless!UnitsIn(s \o last) = u /\ Visible(s \o last) = v
  <2>1. /\ Vless!UnitsIn(s \o last) = Vless!UnitsIn(s) \o Vless!UnitsIn(last)
        /\ Visible(s \o last) = Visible(s) \o Visible(last)
    BY <1>1, <1>5, UnitsConcat
  <2> QED BY <1>5, <1>7, <1>8, <2>1
<1> QED BY <1>6, <1>7, <1>9 DEF Wraps

-----------------------------------------------------------------------------
(* What xtls_padding puts around the user's units.                         *)
Shell(s) ==
  /\ s \in Seq(Tok)
  /\ \A i \in 1 .. Len(s) : s[i][1] \in {"uuid", "command", "content", "padding", "zero"}

(* The peer decodes it, and there are no units in it.                      *)
LEMMA ShellIs ==
  ASSUME NEW s, Shell(s)
  PROVE  Vless!UnitsIn(s) = << >> /\ Visible(s) = s /\ NoFrames(s)
<1>1. PICK C, D, A : C = Vless!Classes /\ D = Coded /\ A = {"uuid", "command", "content", "padding", "zero"}
  OBVIOUS
<1>2. s \in Seq(Tok) /\ \A i \in 1 .. Len(s) : s[i][1] \in A
  BY <1>1 DEF Shell
<1>3. \A x \in A : x \notin C /\ x \in D /\ x \notin Vless!Framing
  BY <1>1 DEF Coded, Vless!Classes, Vless!Framing
<1>4. (\A i \in 1 .. Len(s) : s[i][1] \notin C) => Vless!OfTypes(s, C) = << >>
  BY <1>2, OfTypesAll
<1>5. (\A i \in 1 .. Len(s) : s[i][1] \in D) => Vless!OfTypes(s, D) = s
  BY <1>2, OfTypesAll
<1> QED BY <1>1, <1>2, <1>3, <1>4, <1>5 DEF Vless!UnitsIn, Visible, NoFrames

(* A block of units.                                                       *)
LEMMA PaddedUnits ==
  ASSUME NEW content, NEW p \in Nat, NEW q \in Nat, Counted(content, p, q),
         NEW command \in 0 .. 2, NEW first \in BOOLEAN
  PROVE  \E b \in Seq(Tok) : /\ b = Vless!Padded(content, command, first)
                             /\ Visible(b) = b /\ Vless!UnitsIn(b) = content /\ NoFrames(b)
<1>1. content \in Seq(Tok)
  BY DEF Counted
<1>2. PICK l \in Nat : l = Len(content)
  BY <1>1, LenProperties
<1>3. PICK none \in Seq(Tok) : none = << >> /\ Len(none) = 0
  BY EmptySeq
<1>4. PICK pad : Shell(pad) /\ pad = IF l < 2 THEN <<<<"zero", 0>>>> ELSE << >>
  <2>1. PICK z \in Tok : z = <<"zero", 0>> /\ z[1] = "zero"
    <3>1. "zero" \in Types /\ 0 \in Nat
      BY DEF Types
    <3> QED BY <3>1, TokenIs
  <2>2. PICK t \in Seq(Tok) : t = <<z>> /\ Len(t) = 1 /\ t[1] = z
    BY OneToken
  <2>3. \A i \in 1 .. Len(t) : i = 1
    BY <2>2
  <2>4. Shell(t) /\ Shell(none)
    BY <1>3, <2>1, <2>2, <2>3 DEF Shell
  <2> QED BY <1>3, <2>1, <2>2, <2>4
<1>5. PICK k \in Nat, m \in Nat : k = Len(pad) /\ m = l % Width
  <2>1. Len(pad) \in Nat
    BY <1>4, LenProperties DEF Shell
  <2>2. l % Width \in Nat
    <3>1. PICK W \in Nat \ {0} : W = Width
      BY WidthIs
    <3>2. l % W \in 0 .. W - 1
      BY Division
    <3> QED BY <3>1, <3>2
  <2> QED BY <2>1, <2>2
<1>6. PICK hd : Shell(hd) /\ hd = Vless!Header(command, m, k)
  <2>1. PICK x \in Tok, y \in Tok, z \in Tok :
          /\ x = <<"command", command>> /\ y = <<"content", m>> /\ z = <<"padding", k>>
          /\ x[1] = "command" /\ y[1] = "content" /\ z[1] = "padding"
    <3>1. command \in Nat /\ "command" \in Types /\ "content" \in Types /\ "padding" \in Types
      BY DEF Types
    <3>2. PICK x \in Tok : x = <<"command", command>> /\ x[1] = "command"
      BY <3>1, TokenIs
    <3>3. PICK y \in Tok : y = <<"content", m>> /\ y[1] = "content"
      BY <3>1, TokenIs
    <3>4. PICK z \in Tok : z = <<"padding", k>> /\ z[1] = "padding"
      BY <3>1, TokenIs
    <3> QED BY <3>2, <3>3, <3>4
  <2>2. PICK h \in Seq(Tok) : h = <<x, y, z>> /\ Len(h) = 3 /\ h[1] = x /\ h[2] = y /\ h[3] = z
    <3>1. <<x, y, z>> \in Seq(Tok) /\ Len(<<x, y, z>>) = 3
      OBVIOUS
    <3>2. <<x, y, z>>[1] = x /\ <<x, y, z>>[2] = y /\ <<x, y, z>>[3] = z
      OBVIOUS
    <3> QED BY <3>1, <3>2
  <2>3. \A i \in 1 .. Len(h) : h[i] = x \/ h[i] = y \/ h[i] = z
    BY <2>2
  <2>4. Shell(h)
    BY <2>1, <2>3 DEF Shell
  <2> QED BY <2>1, <2>2, <2>4 DEF Vless!Header
<1>7. PICK u : Shell(u) /\ u = IF first THEN Vless!Uuid ELSE << >>
  <2>1. PICK x \in Tok, y \in Tok : x = <<"uuid", 1>> /\ y = <<"uuid", 2>> /\ x[1] = "uuid" /\ y[1] = "uuid"
    <3>1. "uuid" \in Types /\ 1 \in Nat /\ 2 \in Nat
      BY DEF Types
    <3> QED BY <3>1, TokenIs
  <2>2. PICK h \in Seq(Tok) : h = <<x, y>> /\ Len(h) = 2 /\ h[1] = x /\ h[2] = y
    BY TwoTokens
  <2>3. \A i \in 1 .. Len(h) : h[i] = x \/ h[i] = y
    BY <2>2
  <2>4. Shell(h) /\ Shell(none)
    BY <1>3, <2>1, <2>3 DEF Shell
  <2> QED BY <1>3, <2>1, <2>2, <2>4 DEF Vless!Uuid
<1>8. Vless!Padded(content, command, first) = ((u \o hd) \o content) \o pad
  BY <1>2, <1>4, <1>5, <1>6, <1>7 DEF Vless!Padded
<1>9. /\ Vless!UnitsIn(pad) = none /\ Visible(pad) = pad /\ NoFrames(pad) /\ pad \in Seq(Tok)
      /\ Vless!UnitsIn(hd) = none /\ Visible(hd) = hd /\ NoFrames(hd) /\ hd \in Seq(Tok)
      /\ Vless!UnitsIn(u) = none /\ Visible(u) = u /\ NoFrames(u) /\ u \in Seq(Tok)
  <2>1. Vless!UnitsIn(pad) = none /\ Visible(pad) = pad /\ NoFrames(pad) /\ pad \in Seq(Tok)
    <3>1. Shell(pad)
      BY <1>4
    <3>2. Vless!UnitsIn(pad) = << >> /\ Visible(pad) = pad /\ NoFrames(pad)
      BY <3>1, ShellIs
    <3> QED BY <1>3, <3>1, <3>2 DEF Shell
  <2>2. Vless!UnitsIn(hd) = none /\ Visible(hd) = hd /\ NoFrames(hd) /\ hd \in Seq(Tok)
    BY <1>3, <1>6, ShellIs DEF Shell
  <2>3. Vless!UnitsIn(u) = none /\ Visible(u) = u /\ NoFrames(u) /\ u \in Seq(Tok)
    BY <1>3, <1>7, ShellIs DEF Shell
  <2> QED BY <2>1, <2>2, <2>3
<1>10. Vless!UnitsIn(content) = content /\ Visible(content) = content /\ NoFrames(content)
  BY CountedUnits, BodyIs
<1>11. none \o none = none /\ none \o content = content /\ content \o none = content
  BY <1>1, <1>3, ConcatEmpty
<1>12. PICK a \in Seq(Tok) : a = u \o hd /\ Vless!UnitsIn(a) = none /\ Visible(a) = a /\ NoFrames(a)
  <2>1. Vless!UnitsIn(u \o hd) = none \o none /\ Visible(u \o hd) = u \o hd
    <3>1. /\ Vless!UnitsIn(u \o hd) = Vless!UnitsIn(u) \o Vless!UnitsIn(hd)
          /\ Visible(u \o hd) = Visible(u) \o Visible(hd)
      BY <1>9, UnitsConcat
    <3> QED BY <3>1, <1>9
  <2> QED BY <1>9, <1>11, <2>1, ConcatProperties, NoFramesConcat
<1>13. PICK c \in Seq(Tok) : c = a \o content /\ Vless!UnitsIn(c) = content /\ Visible(c) = c /\ NoFrames(c)
  <2>1. Vless!UnitsIn(a \o content) = none \o content /\ Visible(a \o content) = a \o content
    <3>1. /\ Vless!UnitsIn(a \o content) = Vless!UnitsIn(a) \o Vless!UnitsIn(content)
          /\ Visible(a \o content) = Visible(a) \o Visible(content)
      BY <1>1, <1>10, <1>12, UnitsConcat
    <3> QED BY <3>1, <1>1, <1>10, <1>12
  <2> QED BY <1>1, <1>10, <1>11, <1>12, <2>1, ConcatProperties, NoFramesConcat
<1>14. PICK b \in Seq(Tok) : b = c \o pad /\ Vless!UnitsIn(b) = content /\ Visible(b) = b /\ NoFrames(b)
  <2>1. Vless!UnitsIn(c \o pad) = content \o none /\ Visible(c \o pad) = c \o pad
    <3>1. /\ Vless!UnitsIn(c \o pad) = Vless!UnitsIn(c) \o Vless!UnitsIn(pad)
          /\ Visible(c \o pad) = Visible(c) \o Visible(pad)
      BY <1>9, <1>13, UnitsConcat
    <3> QED BY <3>1, <1>9, <1>13
  <2> QED BY <1>9, <1>11, <1>13, <2>1, ConcatProperties, NoFramesConcat
<1> QED BY <1>8, <1>12, <1>13, <1>14

(* The request.                                                            *)
LEMMA RequestIs ==
  \E r \in Seq(Tok) : /\ r = <<<<"request", 0>>>> /\ Body(r) /\ NoFrames(r)
                      /\ Vless!UnitsIn(r) = << >> /\ Visible(r) = << >>
<1>1. PICK e \in Tok : e = <<"request", 0>> /\ e[1] = "request" /\ e[2] = 0
  <2>1. "request" \in Types /\ 0 \in Nat
    BY DEF Types
  <2> QED BY <2>1, TokenIs
<1>2. PICK r \in Seq(Tok) : r = <<e>> /\ Len(r) = 1 /\ r[1] = e
  BY OneToken
<1>3. \A i \in 1 .. Len(r) : r[i] = e
  BY <1>2
<1>4. Body(r)
  BY <1>1, <1>3 DEF Body, Bodies
<1>5. PICK C : C = Vless!Classes /\ "request" \notin C
  <2>1. "request" \notin Vless!Classes
    BY DEF Vless!Classes
  <2> QED BY <2>1
<1>6. (\A i \in 1 .. Len(r) : r[i][1] \notin C) => Vless!OfTypes(r, C) = << >>
  BY OfTypesAll
<1>7. Vless!UnitsIn(r) = << >>
  BY <1>1, <1>3, <1>5, <1>6 DEF Vless!UnitsIn
<1>8. Visible(r) = Vless!UnitsIn(r) /\ NoFrames(r)
  BY <1>4, BodyIs
<1> QED BY <1>1, <1>2, <1>4, <1>7, <1>8

-----------------------------------------------------------------------------
(* What the unpadding of a Vision peer has made of s: it is in mode, keeps *)
(* nothing, and has given its user the units in s.                         *)
Unpads(s, mode) == Start(Visible(s)) = Vless!Push(mode, << >>, Vless!UnitsIn(s))

(* The first payload, which may be nothing.                                *)
LEMMA FirstUnpads ==
  ASSUME NEW first, NEW q \in Nat, Counted(first, 0, q), Len(first) < Width
  PROVE  \E s \in Seq(Tok) : /\ s = <<<<"request", 0>>>> \o Vless!Padded(first, 0, TRUE)
                             /\ Vless!UnitsIn(s) = first /\ Unpads(s, "padding") /\ NoFrames(s)
<1>1. PICK r \in Seq(Tok) : /\ r = <<<<"request", 0>>>> /\ NoFrames(r)
                            /\ Vless!UnitsIn(r) = << >> /\ Visible(r) = << >>
  BY RequestIs
<1>2. PICK z \in Nat, c \in 0 .. 2, y \in BOOLEAN : z = 0 /\ c = 0 /\ y = TRUE /\ Counted(first, z, q)
  <2>1. 0 \in Nat /\ 0 \in 0 .. 2 /\ TRUE \in BOOLEAN
    OBVIOUS
  <2> QED BY <2>1
<1>3. PICK b \in Seq(Tok) : /\ b = Vless!Padded(first, c, y)
                            /\ Visible(b) = b /\ Vless!UnitsIn(b) = first /\ NoFrames(b)
  BY <1>2, PaddedUnits
<1>4. PICK none \in Seq(Tok) : none = << >>
  BY EmptySeq
<1>5. first \in Seq(Tok)
  BY DEF Counted
<1>6. none \o first = first /\ none \o b = b
  BY <1>4, <1>5, ConcatEmpty
<1>7. PICK s \in Seq(Tok) : s = r \o b
  BY ConcatProperties
<1>8. Vless!UnitsIn(s) = first /\ Visible(s) = b /\ NoFrames(s)
  <2>1. /\ Vless!UnitsIn(r \o b) = Vless!UnitsIn(r) \o Vless!UnitsIn(b)
        /\ Visible(r \o b) = Visible(r) \o Visible(b)
    BY <1>1, <1>3, UnitsConcat
  <2>2. NoFrames(r \o b)
    BY <1>1, <1>3, NoFramesConcat
  <2> QED BY <1>1, <1>3, <1>4, <1>6, <1>7, <2>1, <2>2
<1>9. Start(Vless!Padded(first, 0, TRUE)) = Vless!Push("padding", none, first)
  BY <1>4, <1>5, FirstBlockDecodes
<1>10. Unpads(s, "padding")
  BY <1>2, <1>3, <1>4, <1>8, <1>9 DEF Unpads
<1> QED BY <1>1, <1>2, <1>3, <1>7, <1>8, <1>10

(* One more block, which may be the last; the peer can tell where one ends *)
(* whose length fits its field.                                            *)
ModeAfter(command) == IF command = 0 THEN "padding" ELSE "raw"

LEMMA BlockUnpads ==
  ASSUME NEW s \in Seq(Tok), NEW sound \in BOOLEAN, sound => Unpads(s, "padding"), NEW chunk, NEW p \in Nat, NEW q \in Nat,
         Counted(chunk, p, q), NEW command \in 0 .. 2
  PROVE  \E b \in Seq(Tok) : /\ b = Vless!Padded(chunk, command, FALSE)
                             /\ Vless!UnitsIn(b) = chunk /\ NoFrames(b)
                             /\ sound /\ Len(chunk) < Width =>
                                  Unpads(s \o b, ModeAfter(command))
<1>1. PICK n \in BOOLEAN : n = FALSE
  OBVIOUS
<1>2. PICK b \in Seq(Tok) : /\ b = Vless!Padded(chunk, command, n)
                            /\ Visible(b) = b /\ Vless!UnitsIn(b) = chunk /\ NoFrames(b)
  BY PaddedUnits
<1>3. PICK none \in Seq(Tok) : none = << >>
  BY EmptySeq
<1>4. ASSUME sound, Len(chunk) < Width PROVE Unpads(s \o b, ModeAfter(command))
  <2>1. PICK m : m = ModeAfter(command)
    OBVIOUS
  <2>2. chunk \in Seq(Tok)
    BY DEF Counted
  <2>3. Vless!UnpadBlocks(b) = Vless!Push(m, none, chunk)
    BY <1>1, <1>2, <1>3, <1>4, <2>1, <2>2, PaddedDecodes DEF ModeAfter
  <2>4. PICK u \in Seq(Tok), v \in Seq(Tok) : u = Vless!UnitsIn(s) /\ v = Visible(s)
    BY UnitsConcat
  <2>5. Start(v) = Vless!Push("padding", none, u)
    BY <1>3, <1>4, <2>4 DEF Unpads
  <2>6. Start(v \o b) = Pushed(Vless!Push("padding", none, u), b)
    BY <2>5, StartConcat
  <2>7. Pushed(Vless!Push("padding", none, u), b) = Ahead(Vless!UnpadBlocks(b), u)
    BY <1>3, PushedAfter
  <2>8. Ahead(Vless!Push(m, none, chunk), u) = Vless!Push(m, none, u \o chunk)
    BY OutIs
  <2>9. Vless!UnitsIn(s \o b) = u \o chunk /\ Visible(s \o b) = v \o b
    <3>1. /\ Vless!UnitsIn(s \o b) = Vless!UnitsIn(s) \o Vless!UnitsIn(b)
          /\ Visible(s \o b) = Visible(s) \o Visible(b)
      BY ZenonT(40), <1>2, <2>4, UnitsConcat
    <3> QED BY <1>2, <2>4, <3>1
  <2> QED BY <1>3, <2>1, <2>3, <2>6, <2>7, <2>8, <2>9 DEF Unpads
<1> QED BY <1>1, <1>2, <1>4

(* One more read behind the padding.                                       *)
LEMMA RawUnpads ==
  ASSUME NEW s \in Seq(Tok), Unpads(s, "raw"), NEW chunk, NEW p \in Nat, NEW q \in Nat,
         Counted(chunk, p, q)
  PROVE  Unpads(s \o chunk, "raw")
<1>2. chunk \in Seq(Tok) /\ Visible(chunk) = chunk /\ Vless!UnitsIn(chunk) = chunk
  BY CountedUnits DEF Counted
<1>3. PICK none \in Seq(Tok) : none = << >>
  BY EmptySeq
<1>7. PICK u \in Seq(Tok), v \in Seq(Tok) : u = Vless!UnitsIn(s) /\ v = Visible(s)
  BY UnitsConcat
<1>8. Start(v) = Vless!Push("raw", none, u)
  BY <1>3, <1>7 DEF Unpads
<1>9. Start(v \o chunk) = Pushed(Vless!Push("raw", none, u), chunk)
  BY <1>2, <1>8, StartConcat
<1>10. Pushed(Vless!Push("raw", none, u), chunk) = Vless!Push("raw", none, u \o chunk)
  BY <1>2, <1>3, PushedAfter
<1>12. Vless!UnitsIn(s \o chunk) = u \o chunk /\ Visible(s \o chunk) = v \o chunk
  <2>1. /\ Vless!UnitsIn(s \o chunk) = Vless!UnitsIn(s) \o Vless!UnitsIn(chunk)
        /\ Visible(s \o chunk) = Visible(s) \o Visible(chunk)
    BY <1>2, <1>7, UnitsConcat
  <2> QED BY <1>2, <1>7, <2>1
<1> QED BY <1>3, <1>9, <1>10, <1>12 DEF Unpads

-----------------------------------------------------------------------------
(* VisionUplinkState.                                                      *)
Uplinks == [padding : BOOLEAN, tls : BOOLEAN, direct : BOOLEAN, filter : Nat]

(* It is the command that ends the padding which ends the padding.         *)
LEMMA CommandEnds ==
  ASSUME NEW u \in Uplinks, u.padding, NEW data
  PROVE  LET d == Vless!CommandFor(u, data, FALSE) IN
         /\ d.command \in 0 .. 2 /\ d.uplink \in Uplinks
         /\ d.uplink.padding <=> d.command = 0
<1>1. PICK v \in Uplinks : v = Vless!FilterTls(u, data) /\ v.padding
  <2>1. CASE u.filter <= 0
    BY <2>1 DEF Vless!FilterTls
  <2>2. CASE ~(u.filter <= 0)
    <3>1. u.filter \in Nat /\ u.filter - 1 \in Nat
      BY <2>2 DEF Uplinks
    <3>2. Vless!FilterTls(u, data) = [u EXCEPT !.filter = u.filter - 1, !.tls = u.tls \/ data[1][1] = "hello"]
      BY <2>2 DEF Vless!FilterTls
    <3>3. [u EXCEPT !.filter = u.filter - 1, !.tls = u.tls \/ data[1][1] = "hello"] \in Uplinks
      BY <3>1 DEF Uplinks
    <3>4. [u EXCEPT !.filter = u.filter - 1, !.tls = u.tls \/ data[1][1] = "hello"].padding = u.padding
      BY DEF Uplinks
    <3> QED BY <3>2, <3>3, <3>4
  <2> QED BY <2>1, <2>2
<1>2. PICK direct \in BOOLEAN :
        direct = (/\ v.tls /\ ~v.direct
                  /\ data[1][1] = "record" /\ Vless!Complete(data)
                  /\ FALSE \/ Len(data) >= DirectMin)
  OBVIOUS
<1>3. PICK x \in Uplinks : x = [v EXCEPT !.padding = FALSE, !.direct = TRUE] /\ x.padding = FALSE
  <2>1. [v EXCEPT !.padding = FALSE, !.direct = TRUE] \in Uplinks
    BY DEF Uplinks
  <2>2. [v EXCEPT !.padding = FALSE, !.direct = TRUE].padding = FALSE
    BY DEF Uplinks
  <2> QED BY <2>1, <2>2
<1>4. PICK y \in Uplinks : y = [v EXCEPT !.padding = FALSE] /\ y.padding = FALSE
  <2>1. [v EXCEPT !.padding = FALSE] \in Uplinks
    BY DEF Uplinks
  <2>2. [v EXCEPT !.padding = FALSE].padding = FALSE
    BY DEF Uplinks
  <2> QED BY <2>1, <2>2
<1>5. PICK hello \in BOOLEAN : hello = (data[1][1] = "hello")
  OBVIOUS
<1>6. PICK d : d = Vless!CommandFor(u, data, FALSE)
  OBVIOUS
<1>7. d = CASE hello -> [uplink |-> v, command |-> 0]
            [] ~hello /\ direct -> [uplink |-> x, command |-> 2]
            [] ~hello /\ ~direct /\ ~v.tls -> [uplink |-> y, command |-> 1]
            [] OTHER -> [uplink |-> v, command |-> 0]
  BY <1>1, <1>2, <1>3, <1>4, <1>5, <1>6 DEF Vless!CommandFor
<1>8. \/ d = [uplink |-> v, command |-> 0]
      \/ d = [uplink |-> x, command |-> 2]
      \/ d = [uplink |-> y, command |-> 1]
  BY <1>7
<1>9. d.command \in 0 .. 2 /\ d.uplink \in Uplinks /\ (d.uplink.padding <=> d.command = 0)
  <2>1. CASE d = [uplink |-> v, command |-> 0]
    <3>1. d.command = 0 /\ d.uplink = v
      BY <2>1
    <3> QED BY <1>1, <3>1
  <2>2. CASE d = [uplink |-> x, command |-> 2]
    <3>1. d.command = 2 /\ d.uplink = x
      BY <2>2
    <3> QED BY <1>3, <3>1
  <2>3. CASE d = [uplink |-> y, command |-> 1]
    <3>1. d.command = 1 /\ d.uplink = y
      BY <2>3
    <3> QED BY <1>4, <3>1
  <2> QED BY <1>8, <2>1, <2>2, <2>3
<1> QED BY <1>6, <1>9

-----------------------------------------------------------------------------
(* FlattenSeq: the parts up to the n-th, one behind the other.             *)
FlatOf(f, D, n) == f = [i \in 1 .. n |-> IF i = 1 THEN D[i] ELSE f[i - 1] \o D[i]]

(* There is such a function.                                               *)
LEMMA FlatExists ==
  ASSUME NEW D, NEW l \in Nat
  PROVE  \E f : FlatOf(f, D, l)
<1> DEFINE Joins(f, k) == f = [i \in 1 .. k |-> IF i = 1 THEN D[i] ELSE f[i - 1] \o D[i]]
           S == { k \in Nat : \E f : Joins(f, k) }
<1>1. 0 \in S
  <2> DEFINE f == [i \in 1 .. 0 |-> << >>]
  <2>1. f = [i \in 1 .. 0 |-> IF i = 1 THEN D[i] ELSE f[i - 1] \o D[i]]
    OBVIOUS
  <2> HIDE DEF f
  <2> QED BY <2>1
<1>2. ASSUME NEW k \in Nat, k \in S PROVE k + 1 \in S
  <2>1. PICK f : Joins(f, k)
    BY <1>2
  <2> DEFINE last == IF k + 1 = 1 THEN D[k + 1] ELSE f[k] \o D[k + 1]
             g == [i \in 1 .. (k + 1) |-> IF i = k + 1 THEN last ELSE f[i]]
  <2>2. \A i \in 1 .. k : f[i] = IF i = 1 THEN D[i] ELSE f[i - 1] \o D[i]
    BY <2>1
  <2>3. \A i \in 1 .. (k + 1) : g[i] = IF i = 1 THEN D[i] ELSE g[i - 1] \o D[i]
    <3> SUFFICES ASSUME NEW i \in 1 .. (k + 1)
                 PROVE  g[i] = IF i = 1 THEN D[i] ELSE g[i - 1] \o D[i]
      OBVIOUS
    <3>1. CASE i = k + 1
      <4>1. g[i] = last
        BY <3>1
      <4>2. i # 1 => g[i - 1] = f[k]
        BY <3>1
      <4> QED BY <3>1, <4>1, <4>2
    <3>2. CASE i # k + 1
      <4>1. i \in 1 .. k /\ g[i] = f[i]
        BY <3>2
      <4>2. i # 1 => g[i - 1] = f[i - 1]
        BY <3>2
      <4> QED BY <2>2, <4>1, <4>2
    <3> QED BY <3>1, <3>2
  <2>4. g = [i \in 1 .. (k + 1) |-> g[i]]
    OBVIOUS
  <2> HIDE DEF g
  <2>5. Joins(g, k + 1)
    BY <2>3, <2>4
  <2> HIDE DEF Joins
  <2>6. \E h : Joins(h, k + 1)
    BY <2>5
  <2> QED BY <2>6
<1> HIDE DEF S
<1>3. l \in S
  BY <1>1, <1>2, Induction
<1>4. PICK f : Joins(f, l)
  BY <1>3 DEF S
<1> QED BY <1>4 DEF FlatOf

(* It depends on these parts only.                                         *)
PartsAgree(f, g, k) == \A i \in 1 .. k : f[i] = g[i]

LEMMA FlatSame ==
  ASSUME NEW D, NEW E, NEW f, NEW g, NEW n \in Nat, NEW m \in Nat,
         FlatOf(f, D, n), FlatOf(g, E, m),
         NEW k \in Nat, k <= n, k <= m, PartsAgree(D, E, k)
  PROVE  PartsAgree(f, g, k)
<1> DEFINE S == { j \in Nat : j \in 1 .. k => f[j] = g[j] }
<1>1. 0 \in S
  OBVIOUS
<1>2. ASSUME NEW j \in Nat, j \in S PROVE j + 1 \in S
  <2> SUFFICES ASSUME j + 1 <= k PROVE f[j + 1] = g[j + 1]
    OBVIOUS
  <2>1. PICK h \in Nat : h = j + 1
    OBVIOUS
  <2>2. h \in 1 .. n /\ h \in 1 .. m /\ h - 1 = j /\ h \in 1 .. k
    BY <2>1
  <2>3. f[h] = IF h = 1 THEN D[h] ELSE f[j] \o D[h]
    BY <2>2 DEF FlatOf
  <2>4. g[h] = IF h = 1 THEN E[h] ELSE g[j] \o E[h]
    BY <2>2 DEF FlatOf
  <2>5. h # 1 => f[j] = g[j]
    BY <1>2, <2>1, <2>2
  <2>6. D[h] = E[h]
    BY <2>2 DEF PartsAgree
  <2> QED BY <2>1, <2>3, <2>4, <2>5, <2>6
<1> HIDE DEF S
<1>3. \A j \in Nat : j \in S
  BY <1>1, <1>2, Induction
<1>4. \A j \in Nat : j \in 1 .. k => f[j] = g[j]
  BY <1>3 DEF S
<1> QED BY <1>4 DEF PartsAgree

(* Sequences of bytes, one behind the other.                               *)
Flat(D) == Vless!FlattenSeq(D)

LEMMA FlatIs ==
  ASSUME NEW D \in Seq(Seq(Tok)), D # << >>
  PROVE  \E f : FlatOf(f, D, Len(D)) /\ Flat(D) = f[Len(D)]
<1> DEFINE Joins(f) == f = [i \in 1 .. Len(D) |-> IF i = 1 THEN D[i] ELSE f[i - 1] \o D[i]]
           chosen == CHOOSE f : Joins(f)
<1>1. PICK f : FlatOf(f, D, Len(D))
  BY FlatExists, LenProperties
<1>2. Joins(chosen)
  <2>1. Joins(f)
    BY <1>1 DEF FlatOf
  <2> HIDE DEF Joins
  <2> QED BY <2>1
<1>3. Len(D) # 0
  BY EmptySeq
<1>4. Flat(D) = chosen[Len(D)]
  BY <1>3 DEF Flat, Vless!FlattenSeq
<1> HIDE DEF chosen
<1> QED BY <1>2, <1>4 DEF FlatOf

(* One part at a time.                                                     *)
LEMMA FlatNone == Flat(<< >>) = << >>
<1>1. Len(<< >>) = 0
  BY EmptySeq
<1> QED BY <1>1 DEF Flat, Vless!FlattenSeq

LEMMA FlatStep ==
  ASSUME NEW D \in Seq(Seq(Tok)), NEW x \in Seq(Tok)
  PROVE  Flat(Append(D, x)) = Flat(D) \o x
<1>1. PICK n \in Nat, m \in Nat : n = Len(D) /\ m = n + 1
  BY LenProperties
<1>2. PICK E \in Seq(Seq(Tok)) : E = Append(D, x)
  BY AppendProperties
<1>3. Len(E) = m /\ E[m] = x /\ \A i \in 1 .. n : E[i] = D[i]
  BY <1>1, <1>2, AppendProperties
<1>4. E # << >>
  BY <1>1, <1>3
<1>5. PICK g : FlatOf(g, E, m) /\ Flat(E) = g[m]
  BY <1>3, <1>4, FlatIs
<1>6. m \in 1 .. m /\ m - 1 = n
  BY <1>1
<1>7. g[m] = IF m = 1 THEN E[m] ELSE g[n] \o E[m]
  BY <1>5, <1>6 DEF FlatOf
<1>8. CASE D = << >>
  <2>1. n = 0 /\ m = 1
    BY <1>1, <1>8
  <2>2. Flat(E) = x
    BY <1>3, <1>5, <1>7, <2>1
  <2>3. << >> \o x = x
    BY ConcatEmpty
  <2> QED BY <1>2, <1>8, <2>2, <2>3, FlatNone
<1>9. CASE D # << >>
  <2>1. n # 0
    BY <1>1, <1>9
  <2>2. m # 1 /\ n \in 1 .. n /\ n <= n /\ n <= m
    BY <1>1, <2>1
  <2>3. PICK f : FlatOf(f, D, n) /\ Flat(D) = f[n]
    BY <1>1, <1>9, FlatIs
  <2>4. PartsAgree(f, g, n)
    <3>1. PartsAgree(D, E, n)
      BY <1>3 DEF PartsAgree
    <3> QED BY <1>5, <2>2, <2>3, <3>1, FlatSame
  <2>5. f[n] = g[n]
    BY <2>2, <2>4 DEF PartsAgree
  <2>6. Flat(E) = g[n] \o x
    BY <1>3, <1>5, <1>7, <2>2
  <2> QED BY <1>2, <2>3, <2>5, <2>6
<1> QED BY <1>8, <1>9

-----------------------------------------------------------------------------
(* All of a sequence is in A; and it has e.                                *)
Within(s, A) == s \in Seq(Tok) /\ \A i \in 1 .. Len(s) : s[i] \in A
Shows(s, e) == \E i \in 1 .. Len(s) : s[i] = e

LEMMA WithinConcat ==
  ASSUME NEW s, NEW t, NEW A, Within(s, A), Within(t, A)
  PROVE  Within(s \o t, A)
<1>1. s \in Seq(Tok) /\ t \in Seq(Tok)
  BY DEF Within
<1>2. PICK k \in Nat, l \in Nat : k = Len(s) /\ l = Len(t)
  BY <1>1, LenProperties
<1>3. PICK w \in Seq(Tok) : w = s \o t
  BY <1>1, ConcatProperties
<1>4. Len(w) = k + l /\ \A i \in 1 .. k + l : w[i] = IF i <= k THEN s[i] ELSE t[i - k]
  BY <1>1, <1>2, <1>3, ConcatProperties
<1>5. ASSUME NEW i \in 1 .. k + l PROVE w[i] \in A
  <2>1. CASE i <= k
    BY <1>2, <1>4, <2>1 DEF Within
  <2>2. CASE ~(i <= k)
    <3>1. i - k \in 1 .. l
      BY <2>2
    <3> QED BY <1>2, <1>4, <2>2, <3>1 DEF Within
  <2> QED BY <2>1, <2>2
<1> QED BY <1>3, <1>4, <1>5 DEF Within

LEMMA ShowsConcat ==
  ASSUME NEW s \in Seq(Tok), NEW t \in Seq(Tok), NEW e, Shows(s, e) \/ Shows(t, e)
  PROVE  Shows(s \o t, e)
<1>1. PICK k, l : k = Len(s) /\ l = Len(t)
  OBVIOUS
<1>2. PICK w : w = s \o t
  OBVIOUS
<1>3. /\ k \in Nat /\ l \in Nat /\ Len(w) = k + l
      /\ \A i \in 1 .. k : w[i] = s[i]
      /\ \A i \in 1 .. l : w[k + i] = t[i]
  BY <1>1, <1>2, ConcatFacts
<1>4. CASE Shows(s, e)
  <2>1. PICK i \in 1 .. k : s[i] = e
    BY <1>1, <1>4 DEF Shows
  <2>2. i \in 1 .. k + l /\ w[i] = e
    BY <1>3, <2>1
  <2> QED BY <1>2, <1>3, <2>2 DEF Shows
<1>5. CASE Shows(t, e)
  <2>1. PICK i \in 1 .. l : t[i] = e
    BY <1>1, <1>5 DEF Shows
  <2>2. k + i \in 1 .. k + l /\ w[k + i] = e
    BY <1>3, <2>1
  <2> QED BY <1>2, <1>3, <2>2 DEF Shows
<1> QED BY <1>4, <1>5

(* What is true of all the parts is true of the whole.                     *)
LEMMA FlatWithin ==
  ASSUME NEW A, NEW E \in Seq(Seq(Tok)), \A i \in 1 .. Len(E) : Within(E[i], A)
  PROVE  Within(Flat(E), A)
<1> DEFINE All(D) == \A i \in 1 .. Len(D) : Within(D[i], A)
           S == { n \in Nat : \A D \in Seq(Seq(Tok)) : Len(D) = n /\ All(D) => Within(Flat(D), A) }
<1>1. 0 \in S
  <2>1. \A D \in Seq(Seq(Tok)) : Len(D) = 0 => D = << >>
    BY EmptySeq
  <2>2. Within(Flat(<< >>), A)
    <3>1. PICK none \in Seq(Tok) : none = << >> /\ Len(none) = 0
      BY EmptySeq
    <3>2. Within(none, A)
      BY <3>1 DEF Within
    <3> QED BY <3>1, <3>2, FlatNone
  <2> QED BY <2>1, <2>2
<1>2. ASSUME NEW n \in Nat, n \in S PROVE n + 1 \in S
  <2> SUFFICES ASSUME NEW D \in Seq(Seq(Tok)), Len(D) = n + 1, All(D) PROVE Within(Flat(D), A)
    OBVIOUS
  <2>1. D # << >>
    OBVIOUS
  <2>2. PICK C \in Seq(Seq(Tok)), x \in Seq(Tok) : D = Append(C, x)
    BY <2>1, SequenceEmptyOrAppend
  <2>3. Len(C) = n /\ D[n + 1] = x /\ \A i \in 1 .. n : D[i] = C[i]
    BY <2>2, AppendProperties, LenProperties
  <2>4. All(C) /\ Within(x, A)
    <3>1. n + 1 \in 1 .. Len(D) /\ \A i \in 1 .. n : i \in 1 .. Len(D)
      OBVIOUS
    <3> QED BY <2>3, <3>1
  <2>5. Within(Flat(C), A)
    BY <1>2, <2>3, <2>4
  <2>6. Flat(D) = Flat(C) \o x
    BY <2>2, FlatStep
  <2> QED BY <2>4, <2>5, <2>6, WithinConcat
<1>3. All(E)
  OBVIOUS
<1> HIDE DEF S, All
<1>4. \A n \in Nat : n \in S
  BY <1>1, <1>2, Induction
<1> QED BY <1>3, <1>4, LenProperties DEF S

(* ... and what a part has.                                                *)
LEMMA FlatShows ==
  ASSUME NEW e, NEW E \in Seq(Seq(Tok)), NEW h \in 1 .. Len(E), Shows(E[h], e)
  PROVE  Shows(Flat(E), e)
<1>0. \A D \in Seq(Seq(Tok)) : Flat(D) \in Seq(Tok)
  <2> SUFFICES ASSUME NEW D \in Seq(Seq(Tok)) PROVE Flat(D) \in Seq(Tok)
    OBVIOUS
  <2>1. ASSUME NEW i \in 1 .. Len(D) PROVE Within(D[i], Tok)
    <3>1. D[i] \in Seq(Tok)
      BY ElementOfSeq
    <3>2. \A j \in 1 .. Len(D[i]) : D[i][j] \in Tok
      BY <3>1, ElementOfSeq
    <3> QED BY <3>1, <3>2 DEF Within
  <2>2. Within(Flat(D), Tok)
    BY <2>1, FlatWithin
  <2> QED BY <2>2 DEF Within
<1> DEFINE One(D) == \E i \in 1 .. Len(D) : Shows(D[i], e)
           S == { n \in Nat : \A D \in Seq(Seq(Tok)) : Len(D) = n /\ One(D) => Shows(Flat(D), e) }
<1>1. 0 \in S
  OBVIOUS
<1>2. ASSUME NEW n \in Nat, n \in S PROVE n + 1 \in S
  <2> SUFFICES ASSUME NEW D \in Seq(Seq(Tok)), Len(D) = n + 1, One(D) PROVE Shows(Flat(D), e)
    OBVIOUS
  <2>1. D # << >>
    OBVIOUS
  <2>2. PICK C \in Seq(Seq(Tok)), x \in Seq(Tok) : D = Append(C, x)
    BY <2>1, SequenceEmptyOrAppend
  <2>3. Len(C) = n /\ D[n + 1] = x /\ \A i \in 1 .. n : D[i] = C[i]
    BY <2>2, AppendProperties, LenProperties
  <2>4. One(C) \/ Shows(x, e)
    <3>1. PICK i \in 1 .. n + 1 : Shows(D[i], e)
      OBVIOUS
    <3>2. i = n + 1 \/ i \in 1 .. n
      OBVIOUS
    <3> QED BY <2>3, <3>1, <3>2
  <2>5. Shows(Flat(C), e) \/ Shows(x, e)
    BY <1>2, <2>3, <2>4
  <2>6. Flat(D) = Flat(C) \o x
    BY <2>2, FlatStep
  <2> QED BY <1>0, <2>5, <2>6, ShowsConcat
<1>3. One(E)
  OBVIOUS
<1> HIDE DEF S, One
<1>4. \A n \in Nat : n \in S
  BY <1>1, <1>2, Induction
<1> QED BY <1>3, <1>4, LenProperties DEF S

-----------------------------------------------------------------------------
(* A pipe from which n bytes are read.                                     *)
LEMMA SplitAt ==
  ASSUME NEW s \in Seq(Tok), NEW n \in Nat, n <= Len(s)
  PROVE  \E a, b \in Seq(Tok) :
           a = SubSeq(s, 1, n) /\ b = Vless!From(s, n + 1) /\ a \o b = s
<1>1. PICK l \in Nat, z \in Nat : l = Len(s) /\ z = 0 /\ z + 1 = 1 /\ z <= n /\ n <= l /\ l <= l
  BY LenProperties
<1>2. Win(s, z, n) \o Win(s, n, l) = Win(s, z, l)
  BY ZenonT(40), <1>1, WinJoin
<1>3. Part(Tok, s, z, l) /\ Part(Tok, s, z, n) /\ Part(Tok, s, n, l)
  <2>1. Part(Tok, s, z, l)
    BY <1>1, WinPart
  <2>2. Part(Tok, s, z, n)
    BY <1>1, WinPart
  <2>3. Part(Tok, s, n, l)
    BY <1>1, WinPart
  <2> QED BY <2>1, <2>2, <2>3
<1>4. PICK w \in Seq(Tok) : w = Win(s, z, l) /\ Len(w) = l /\ \A i \in 1 .. l : w[i] = s[i]
  <2>1. PICK w \in Seq(Tok) : w = Win(s, z, l) /\ Len(w) = l - z /\ \A i \in 1 .. l - z : w[i] = s[z + i]
    BY <1>3 DEF Part
  <2>2. l - z = l /\ \A i \in 1 .. l : z + i = i
    BY <1>1
  <2>3. Len(w) = l /\ \A i \in 1 .. l : w[i] = s[i]
    BY <2>1, <2>2
  <2> QED BY <2>1, <2>3
<1>5. w = s
  BY <1>1, <1>4, SeqEqual
<1>6. PICK a \in Seq(Tok), b \in Seq(Tok) : a = Win(s, z, n) /\ b = Win(s, n, l)
  BY <1>3 DEF Part
<1>7. a = SubSeq(s, 1, n) /\ b = Vless!From(s, n + 1)
  BY <1>1, <1>6 DEF Win, Vless!From
<1> QED BY <1>2, <1>4, <1>5, <1>6, <1>7

(* A part of what has no framing has none.                                 *)
LEMMA BodyParts ==
  ASSUME NEW s \in Seq(Tok), NEW t \in Seq(Tok), Body(s \o t)
  PROVE  Body(s) /\ Body(t)
<1>1. PICK k, l : k = Len(s) /\ l = Len(t)
  OBVIOUS
<1>2. PICK w : w = s \o t
  OBVIOUS
<1>3. /\ k \in Nat /\ l \in Nat /\ Len(w) = k + l
      /\ \A i \in 1 .. k : w[i] = s[i]
      /\ \A i \in 1 .. l : w[k + i] = t[i]
  BY <1>1, <1>2, ConcatFacts
<1>4. \A i \in 1 .. k + l : w[i][1] \in Bodies
  BY <1>2, <1>3 DEF Body
<1>5. Body(s)
  <2>1. \A i \in 1 .. k : i \in 1 .. k + l
    BY <1>3
  <2> QED BY <1>1, <1>3, <1>4, <2>1 DEF Body
<1>6. Body(t)
  <2>1. \A i \in 1 .. l : k + i \in 1 .. k + l
    BY <1>3
  <2> QED BY <1>1, <1>3, <1>4, <2>1 DEF Body
<1> QED BY <1>5, <1>6

-----------------------------------------------------------------------------
(* The upload.  On a connection that works, and on one of posts also when  *)
(* it does not, what has been written is where it is to be.                *)
Live == ~reset \/ kind \in Vless!Packets

(* What bridge_vless_stream has written, H, are the first p units of the   *)
(* user, for Vision in padding blocks, which decode as long as the length  *)
(* of none was too much for its field.                                     *)
Encodes(H, p) ==
  /\ Counted(Vless!UnitsIn(H), 0, p) /\ NoFrames(H)
  /\ kind \notin Vless!Vision => Body(H)
  /\ kind \in Vless!Vision /\ ~overlong => Start(Visible(H)).out = Vless!UnitsIn(H)

(* The peer's unpadding ends where the padding does.                       *)
Encoding(H, p) ==
  /\ up = "first" => H = << >> /\ p = 0 /\ uplink.padding
  /\ up = "relay" /\ kind \in Vless!Vision /\ ~overlong =>
       Unpads(H, IF uplink.padding THEN "padding" ELSE "raw")

(* The user's other units are still in the pipe, until the task has ended: *)
(* on a connection that works not before all have been written.            *)
Queued(p) == IF up = "end" THEN ~reset => p = given ELSE Counted(up1, p, given)

(* Each post has its part, whether it is under way or there.               *)
Numbers == [seq : Nat, data : Seq(Tok)]
Posted(X) ==
  /\ posts \in SUBSET Numbers /\ tx \in Seq(Numbers)
  /\ \E D \in Seq(Seq(Tok)) :
       /\ Len(D) = seq /\ Flat(D) = X
       /\ \A m \in posts \cup Vless!Range(tx) : m.seq + 1 \in 1 .. seq /\ m.data = D[m.seq + 1]

(* The transport has taken X of it, and S is in the pipe in between.       *)
CarriesUp(X, S) ==
  /\ kind \in Vless!Bare => tx = X /\ S = << >>
  /\ kind \in Vless!Packets => Posted(X)
  /\ kind \notin Vless!Bare \cup Vless!Packets => Wraps(tx, X)

UpAt(X, S, p) ==
  /\ Encodes(X \o S, p) /\ CarriesUp(X, S)
  /\ Live => up2 = S /\ Encoding(X \o S, p) /\ Queued(p)

(* What the tasks have told each other.                                    *)
UpControl ==
  /\ given \in Nat /\ uplink \in Uplinks
  /\ overlong \in BOOLEAN
  /\ up \in {"first", "relay", "end"} /\ tup \in {"connect", "relay", "end"}
  /\ up # "end" => ~up2End /\ ~txEnd
  /\ up = "end" /\ ~reset => appEof
  /\ kind \notin Vless!Bare /\ ~reset /\ tup = "end" => up2End /\ up2 = << >>
  /\ kind \notin Vless!Bare /\ ~reset /\ txEnd => tup = "end"
  /\ kind \in Vless!Packets => ~txEnd
  /\ kind \notin Vless!Packets => posts = {}

UpInv == UpControl /\ \E X, S \in Seq(Tok), p \in Nat : UpAt(X, S, p)

(* The next state, for the prover.                                         *)
LEMMA UpIntro ==
  ASSUME NEW X \in Seq(Tok), NEW S \in Seq(Tok), NEW p \in Nat, UpControl', UpAt(X, S, p)'
  PROVE  UpInv'
BY DEF UpInv

(* What depends on the transport alone.                                    *)
LEMMA EncodesSame ==
  ASSUME NEW H, NEW p, Encodes(H, p), UNCHANGED kind, overlong => overlong'
  PROVE  Encodes(H, p)'
BY DEF Encodes, NoFrames, Body, Counted

LEMMA CarriesSameUp ==
  ASSUME NEW X, NEW S, CarriesUp(X, S), UNCHANGED <<kind, seq, posts, tx>>
  PROVE  CarriesUp(X, S)'
BY DEF CarriesUp, Posted, Wraps, Announced

(* Steps of others, and that the connection breaks.                        *)
LEMMA OthersUp ==
  ASSUME UpInv, UNCHANGED <<kind, given, up1, up, uplink, overlong, up2, up2End, seq, posts, tx, txEnd, tup>>,
         reset => reset', appEof => appEof'
  PROVE  UpInv'
<1>1. PICK X \in Seq(Tok), S \in Seq(Tok), p \in Nat : UpAt(X, S, p) /\ UpControl
  BY DEF UpInv
<1>2. UpControl'
  BY <1>1 DEF UpControl
<1>3. Encodes(X \o S, p)' /\ CarriesUp(X, S)'
  <2>1. PICK H : H = X \o S
    OBVIOUS
  <2>2. Encodes(H, p)'
    BY <1>1, <2>1, EncodesSame DEF UpAt
  <2>3. CarriesUp(X, S)'
    BY <1>1, CarriesSameUp DEF UpAt
  <2> QED BY <2>1, <2>2, <2>3
<1>4. Live' => Live
  BY DEF Live
<1>5. ASSUME Live' PROVE (up2 = S /\ Encoding(X \o S, p) /\ Queued(p))'
  <2>1. up2 = S /\ Encoding(X \o S, p) /\ Queued(p)
    BY <1>1, <1>4, <1>5 DEF UpAt
  <2>2. Encoding(X \o S, p)'
    BY <2>1 DEF Encoding, Unpads
  <2>3. Queued(p)'
    BY <2>1 DEF Queued, Counted
  <2> QED BY <2>1, <2>2, <2>3
<1>6. UpAt(X, S, p)'
  BY <1>3, <1>5 DEF UpAt
<1> QED BY <1>2, <1>6, UpIntro

(* A step on a connection that is broken.                                  *)
LEMMA DeadUp ==
  ASSUME NEW X \in Seq(Tok), NEW S \in Seq(Tok), NEW p \in Nat, UpAt(X, S, p),
         UpControl', ~Live', UNCHANGED <<kind, tx>>, overlong => overlong'
  PROVE  UpInv'
<1>1. PICK H : H = X \o S
  OBVIOUS
<1>2. Encodes(H, p)'
  BY <1>1, EncodesSame DEF UpAt
<1>3. CarriesUp(X, S)'
  <2>1. kind \notin Vless!Packets
    BY DEF Live
  <2>2. CarriesUp(X, S)
    BY DEF UpAt
  <2> QED BY <2>1, <2>2 DEF CarriesUp, Wraps, Announced
<1>4. UpAt(X, S, p)'
  BY <1>1, <1>2, <1>3 DEF UpAt
<1> QED BY <1>4, UpIntro

(* The user sends one more.                                                *)
LEMMA AppSendsUp ==
  ASSUME UpInv, Vless!AppSends
  PROVE  UpInv'
<1>1. PICK X \in Seq(Tok), S \in Seq(Tok), p \in Nat : UpAt(X, S, p) /\ UpControl
  BY DEF UpInv
<1>2. /\ ~appEof /\ given' = given + 1
      /\ UNCHANGED <<kind, appEof, up, uplink, overlong, up2, up2End, seq, posts, tx, txEnd, reset, tup>>
  BY DEF Vless!AppSends, Vless!upVars, Vless!hopUp, Vless!peerIn, Vless!peerOut, Vless!transport
<1>3. PICK c \in Vless!Classes : up1' = Append(up1, <<c, given + 1>>)
  <2>1. "plain" \in Vless!Classes
    BY DEF Vless!Classes
  <2> QED BY <2>1 DEF Vless!AppSends
<1>4. UpControl'
  BY <1>1, <1>2 DEF UpControl
<1>5. PICK H : H = X \o S
  OBVIOUS
<1>6. Encodes(H, p)' /\ CarriesUp(X, S)'
  <2>1. Encodes(H, p) /\ CarriesUp(X, S)
    BY <1>1, <1>5 DEF UpAt
  <2> QED BY <1>2, <2>1, EncodesSame, CarriesSameUp
<1>7. ASSUME Live' PROVE (up2 = S /\ Encoding(H, p) /\ Queued(p))'
  <2>1. up2 = S /\ Encoding(H, p) /\ Queued(p)
    BY <1>1, <1>2, <1>5, <1>7 DEF UpAt, Live
  <2>2. Encoding(H, p)'
    BY <1>2, <2>1 DEF Encoding, Unpads
  <2>3. Queued(p)'
    <3>1. CASE up = "end"
      <4>1. reset
        BY <1>1, <1>2, <3>1 DEF UpControl
      <4> QED BY <1>2, <3>1, <4>1 DEF Queued
    <3>2. CASE up # "end"
      <4>1. Counted(up1, p, given)
        BY <2>1, <3>2 DEF Queued
      <4>2. PICK q \in Nat, g \in Nat : q = given /\ g = q + 1
        BY <1>1 DEF UpControl
      <4>3. Counted(Append(up1, <<c, q + 1>>), p, q + 1)
        BY <4>1, <4>2, CountedAppend
      <4>4. Counted(up1, p, given)'
        BY <1>2, <1>3, <4>2, <4>3 DEF Counted
      <4> QED BY <1>2, <3>2, <4>4 DEF Queued
    <3> QED BY <3>1, <3>2
  <2> QED BY <1>2, <2>1, <2>2, <2>3
<1>8. UpAt(X, S, p)'
  BY <1>5, <1>6, <1>7 DEF UpAt
<1> QED BY <1>4, <1>8, UpIntro

(* The pipe of HTTP/3 is connected, or nobody will read it.                *)
LEMMA H3ConnectsUp ==
  ASSUME UpInv, Vless!H3Connects
  PROVE  UpInv'
<1>1. PICK X \in Seq(Tok), S \in Seq(Tok), p \in Nat : UpAt(X, S, p) /\ UpControl
  BY DEF UpInv
<1>2. /\ UNCHANGED <<kind, given, appEof, up1, up, uplink, overlong, up2, up2End, seq, posts, tx, txEnd, reset>>
      /\ tup = "connect" /\ (tup' = "relay" \/ (reset /\ tup' = "end"))
  BY DEF Vless!H3Connects, Vless!appVars, Vless!upVars, Vless!hopUp, Vless!peerIn, Vless!peerOut
<1>3. UpControl'
  BY <1>1, <1>2 DEF UpControl
<1>4. PICK H : H = X \o S
  OBVIOUS
<1>5. Encodes(H, p)' /\ CarriesUp(X, S)'
  <2>1. Encodes(H, p) /\ CarriesUp(X, S)
    BY <1>1, <1>4 DEF UpAt
  <2> QED BY <1>2, <2>1, EncodesSame, CarriesSameUp
<1>6. ASSUME Live' PROVE (up2 = S /\ Encoding(H, p) /\ Queued(p))'
  <2>1. up2 = S /\ Encoding(H, p) /\ Queued(p)
    BY <1>1, <1>2, <1>4, <1>6 DEF UpAt, Live
  <2>2. Encoding(H, p)'
    BY <1>2, <2>1 DEF Encoding, Unpads
  <2>3. Queued(p)'
    BY <1>2, <2>1 DEF Queued, Counted
  <2> QED BY <1>2, <2>1, <2>2, <2>3
<1>7. UpAt(X, S, p)'
  BY <1>4, <1>5, <1>6 DEF UpAt
<1> QED BY <1>3, <1>7, UpIntro

(* bridge_vless_stream writes s.                                           *)
LEMMA WritesUp ==
  ASSUME NEW X \in Seq(Tok), NEW S \in Seq(Tok), NEW p \in Nat, UpAt(X, S, p), UpControl, Live,
         NEW s \in Seq(Tok), Vless!WriteOut(s), up # "end", up' \in {"first", "relay"},
         uplink' \in Uplinks, overlong' \in BOOLEAN,
         UNCHANGED <<kind, given, appEof, reset, tup>>,
         NEW H \in Seq(Tok), H = X \o S,
         NEW q \in Nat, Encodes(H \o s, q)', Encoding(H \o s, q)', Queued(q)'
  PROVE  UpInv'
<1>1. PICK J \in Seq(Tok) : J = H \o s /\ Encodes(J, q)' /\ Encoding(J, q)'
  <2>1. PICK J \in Seq(Tok) : J = H \o s
    BY ConcatProperties
  <2> QED BY <2>1
<1>2. up2 = S /\ CarriesUp(X, S)
  BY DEF UpAt
<1>3. CASE kind \in Vless!Bare
  <2>1. tx' = tx \o s /\ UNCHANGED <<seq, posts, txEnd, up2, up2End>> /\ ~reset
    BY <1>3 DEF Vless!WriteOut, Vless!OutFails, Vless!hopUp
  <2>2. PICK none \in Seq(Tok) : none = << >> /\ S = none /\ tx = X
    BY <1>2, <1>3, EmptySeq DEF CarriesUp
  <2>3. X \o none = X
    BY <2>2, ConcatEmpty
  <2>4. J = X \o s
    BY <1>1, <2>2, <2>3
  <2>5. J \o none = J
    BY <1>1, <2>2, ConcatEmpty
  <2>6. kind \notin Vless!Packets
    BY <1>3 DEF Vless!Bare, Vless!Packets, Vless!Vision
  <2>7. CarriesUp(J, none)'
    BY <1>3, <2>1, <2>2, <2>4, <2>6 DEF CarriesUp
  <2>8. UpControl'
    BY <1>3, <2>1, <2>6 DEF UpControl
  <2>9. UpAt(J, none, q)'
    BY <1>1, <1>2, <2>1, <2>2, <2>5, <2>7 DEF UpAt
  <2> QED BY <1>1, <2>8, <2>9, UpIntro
<1>4. CASE kind \notin Vless!Bare
  <2>1. up2' = up2 \o s /\ UNCHANGED <<up2End, seq, posts, tx, txEnd>>
    BY <1>4 DEF Vless!WriteOut, Vless!peerIn
  <2>2. PICK R \in Seq(Tok) : R = S \o s
    BY ConcatProperties
  <2>3. Regroups(X, S, s)
    BY Regroup
  <2>4. J = X \o R
    BY <1>1, <2>2, <2>3 DEF Regroups
  <2>5. CarriesUp(X, R)'
    <3>1. CarriesUp(X, R)
      BY <1>2, <1>4 DEF CarriesUp
    <3> QED BY <2>1, <3>1, CarriesSameUp
  <2>6. UpControl'
    BY <1>4, <2>1 DEF UpControl
  <2>7. UpAt(X, R, q)'
    BY <1>1, <1>2, <2>1, <2>2, <2>4, <2>5 DEF UpAt
  <2> QED BY <2>2, <2>6, <2>7, UpIntro
<1> QED BY <1>3, <1>4

(* ... or ends.                                                            *)
LEMMA ShutsUp ==
  ASSUME NEW X \in Seq(Tok), NEW S \in Seq(Tok), NEW p \in Nat, UpAt(X, S, p), UpControl, Live,
         Vless!ShutOut, up # "end", up' = "end", uplink' \in Uplinks, overlong' \in BOOLEAN,
         overlong => overlong',
         UNCHANGED <<kind, given, appEof, reset, tup>>, ~reset => p = given /\ appEof
  PROVE  UpInv'
<1>1. up2 = S /\ CarriesUp(X, S)
  BY DEF UpAt
<1>2. UNCHANGED <<up2, seq, posts, tx>>
  BY DEF Vless!ShutOut, Vless!hopUp, Vless!peerIn
<1>3. PICK H : H = X \o S
  OBVIOUS
<1>4. Encodes(H, p)' /\ CarriesUp(X, S)'
  <2>1. Encodes(H, p)
    BY <1>3 DEF UpAt
  <2> QED BY <1>1, <1>2, <2>1, EncodesSame, CarriesSameUp
<1>5. Encoding(H, p)' /\ Queued(p)'
  BY DEF Encoding, Queued
<1>6. UpAt(X, S, p)'
  BY <1>1, <1>2, <1>3, <1>4, <1>5 DEF UpAt
<1>7. UpControl'
  <2>1. CASE kind \in Vless!Bare
    <3>1. kind \notin Vless!Packets
      BY <2>1 DEF Vless!Bare, Vless!Packets, Vless!Vision
    <3> QED BY <1>2, <2>1, <3>1 DEF UpControl, Vless!ShutOut
  <2>2. CASE kind \notin Vless!Bare
    <3>1. up2End' = TRUE /\ UNCHANGED txEnd
      BY <2>2 DEF Vless!ShutOut, Vless!peerIn
    <3> QED BY <1>2, <2>2, <3>1 DEF UpControl
  <2> QED BY <2>1, <2>2
<1> QED BY <1>6, <1>7, UpIntro

(* Nothing has been written but what Encodes says of it.                   *)
LEMMA EncodesIn ==
  ASSUME NEW H, NEW p \in Nat, Encodes(H, p)
  PROVE  /\ H \in Seq(Tok) /\ Vless!UnitsIn(H) \in Seq(Tok)
         /\ Counted(Vless!UnitsIn(H), 0, p) /\ NoFrames(H)
         /\ kind \notin Vless!Vision => Body(H)
BY DEF Encodes, NoFrames, Counted

(* One more read, as it is.                                                *)
LEMMA EncodesPlain ==
  ASSUME NEW H, NEW p \in Nat, Encodes(H, p), kind \notin Vless!Vision,
         NEW b, Body(b), NEW q \in Nat, Counted(Vless!UnitsIn(b), p, q), UNCHANGED kind
  PROVE  Encodes(H \o b, q)'
<1>1. H \in Seq(Tok) /\ b \in Seq(Tok) /\ Body(H)
  BY EncodesIn DEF Body
<1>2. Body(H \o b)
  BY <1>1, BodyConcat
<1>3. NoFrames(H \o b)
  BY <1>2, BodyIs
<1>4. Vless!UnitsIn(H \o b) = Vless!UnitsIn(H) \o Vless!UnitsIn(b)
  BY <1>1, UnitsConcat
<1>5. PICK z \in Nat, w \in {Vless!UnitsIn(H)}, v \in {Vless!UnitsIn(b)} : z = 0
  OBVIOUS
<1>6. Counted(w, z, p) /\ Counted(v, p, q)
  BY <1>5, EncodesIn
<1>7. Counted(w \o v, z, q)
  BY <1>6, CountedConcat
<1> QED BY <1>2, <1>3, <1>4, <1>5, <1>7 DEF Encodes, NoFrames, Body, Counted

(* ... and for Vision, padded or not.                                      *)
LEMMA EncodesVision ==
  ASSUME NEW H, NEW p \in Nat, Encodes(H, p), kind \in Vless!Vision,
         NEW b, NoFrames(b), NEW q \in Nat, Counted(Vless!UnitsIn(b), p, q),
         UNCHANGED kind, NEW mode, ~overlong' => Unpads(H \o b, mode)
  PROVE  Encodes(H \o b, q)'
<1>1. H \in Seq(Tok) /\ b \in Seq(Tok) /\ NoFrames(H)
  BY EncodesIn DEF NoFrames
<1>2. NoFrames(H \o b)
  BY <1>1, NoFramesConcat
<1>3. Vless!UnitsIn(H \o b) = Vless!UnitsIn(H) \o Vless!UnitsIn(b)
  BY <1>1, UnitsConcat
<1>4. PICK z \in Nat, w \in {Vless!UnitsIn(H)}, v \in {Vless!UnitsIn(b)} : z = 0
  OBVIOUS
<1>5. Counted(w, z, p) /\ Counted(v, p, q)
  BY <1>4, EncodesIn
<1>6. Counted(w \o v, z, q)
  BY <1>5, CountedConcat
<1>7. ~overlong' => Start(Visible(H \o b)).out = Vless!UnitsIn(H \o b)
  BY DEF Unpads, Vless!Push
<1> QED BY <1>2, <1>3, <1>4, <1>6, <1>7 DEF Encodes, NoFrames, Counted

(* What a read takes.                                                      *)
LEMMA FrontIs ==
  ASSUME NEW s \in Seq(Tok), NEW n \in Nat, n <= Len(s)
  PROVE  \E a \in Seq(Tok) : a = SubSeq(s, 1, n) /\ Len(a) = n
<1>1. PICK z \in Nat : z = 0 /\ z <= n
  OBVIOUS
<1>2. /\ Win(s, z, n) \in Seq(Tok) /\ Len(Win(s, z, n)) = n - z
  BY <1>1, WinFacts
<1>3. Win(s, z, n) = SubSeq(s, 1, n) /\ n - z = n
  BY <1>1 DEF Win
<1> QED BY <1>2, <1>3

(* The request, with what the user has sent so far.                        *)
LEMMA UpFirstStep ==
  ASSUME UpInv, Vless!UpFirst
  PROVE  UpInv'
<1>1. PICK X \in Seq(Tok), S \in Seq(Tok), p \in Nat : UpAt(X, S, p) /\ UpControl
  BY DEF UpInv
<1>2. PICK n \in IF up1 = << >> THEN {0} ELSE { m \in 1 .. Len(up1) : m <= FirstLimit } :
        /\ up1' = Vless!From(up1, n + 1)
        /\ \/ /\ Vless!WriteOut(<<<<"request", 0>>>> \o
                   (IF kind \in Vless!Vision THEN Vless!Padded(SubSeq(up1, 1, n), 0, TRUE)
                    ELSE SubSeq(up1, 1, n)))
              /\ up' = "relay"
           \/ Vless!OutFails /\ Vless!ShutOut /\ up' = "end"
  BY DEF Vless!UpFirst
<1>3. up = "first" /\ UNCHANGED <<kind, given, appEof, uplink, overlong, reset, tup>>
  BY DEF Vless!UpFirst, Vless!appVars, Vless!peerOut, Vless!transport
<1>4. uplink' \in Uplinks /\ overlong' \in BOOLEAN
  BY <1>1, <1>3 DEF UpControl
<1>5. CASE ~Live
  <2>1. reset /\ kind \notin Vless!Packets
    BY <1>5 DEF Live
  <2>2. UNCHANGED tx /\ (txEnd' = txEnd \/ kind \in Vless!Bare) /\ up' \in {"relay", "end"}
        /\ UNCHANGED posts /\ (up' # "end" => UNCHANGED <<up2End, txEnd>>)
    BY <1>2, <2>1 DEF Vless!WriteOut, Vless!OutFails, Vless!ShutOut, Vless!peerIn, Vless!hopUp
  <2>3. UpControl'
    BY <1>1, <1>3, <1>4, <2>1, <2>2 DEF UpControl
  <2>4. ~Live'
    BY <1>3, <1>5 DEF Live
  <2> QED BY <1>1, <1>3, <2>2, <2>3, <2>4, DeadUp
<1>6. CASE Live /\ Vless!OutFails /\ Vless!ShutOut /\ up' = "end"
  <2>1. reset
    BY <1>1, <1>3, <1>6 DEF Vless!OutFails, UpControl
  <2> QED BY <1>1, <1>3, <1>4, <1>6, <2>1, ShutsUp
<1>7. CASE Live /\ up' = "relay"
           /\ Vless!WriteOut(<<<<"request", 0>>>> \o
                   (IF kind \in Vless!Vision THEN Vless!Padded(SubSeq(up1, 1, n), 0, TRUE)
                    ELSE SubSeq(up1, 1, n)))
  <2>1. PICK H : H = X \o S /\ Encodes(H, p) /\ Encoding(H, p) /\ Queued(p)
    BY <1>1, <1>7 DEF UpAt
  <2>2. PICK z \in Nat : z = 0 /\ p = z /\ H = << >> /\ H \in Seq(Tok) /\ uplink.padding
    BY <1>3, <2>1, EmptySeq DEF Encoding
  <2>3. PICK g \in Nat : g = given /\ Counted(up1, z, g)
    BY <1>1, <1>3, <2>1, <2>2 DEF Queued, UpControl
  <2>4. n \in Nat /\ n <= Len(up1) /\ n < Width
    <3>1. up1 \in Seq(Tok)
      BY <2>3 DEF Counted
    <3>2. FirstLimit \in Nat /\ FirstLimit < Width
      BY BridgesAssumption DEF Vless!UnitsAssumption
    <3> QED BY <3>1, <3>2, WidthIs, LenProperties
  <2>5. PICK q \in z .. g : /\ Counted(SubSeq(up1, 1, n), z, q)
                            /\ Counted(Vless!From(up1, n + 1), q, g)
    BY <2>3, <2>4, CountedTaken
  <2>6. q \in Nat
    BY <2>5
  <2>7. PICK first : first = SubSeq(up1, 1, n) /\ Counted(first, z, q) /\ first \in Seq(Tok)
    BY <2>5 DEF Counted
  <2>11. Len(first) < Width
    <3>1. up1 \in Seq(Tok)
      BY <2>3 DEF Counted
    <3>2. PICK a \in Seq(Tok) : a = SubSeq(up1, 1, n) /\ Len(a) = n
      BY <2>4, <3>1, FrontIs
    <3> QED BY <2>4, <2>7, <3>2
  <2>8. Queued(q)'
    BY <1>2, <1>3, <1>7, <2>3, <2>5 DEF Queued, Counted
  <2>9. CASE kind \in Vless!Vision
    <3>1. PICK s \in Seq(Tok) : /\ s = <<<<"request", 0>>>> \o Vless!Padded(first, 0, TRUE)
                                /\ Vless!UnitsIn(s) = first /\ Unpads(s, "padding") /\ NoFrames(s)
      BY <2>2, <2>6, <2>7, <2>11, FirstUnpads
    <3>2. Vless!WriteOut(s)
      BY <1>7, <2>7, <2>9, <3>1
    <3>3. H \o s = s
      BY <2>2, ConcatEmpty
    <3>4. Encodes(H \o s, q)'
      BY <1>3, <2>1, <2>2, <2>6, <2>7, <2>9, <3>1, <3>3, EncodesVision
    <3>5. Encoding(H \o s, q)'
      BY <1>3, <1>7, <2>2, <3>1, <3>3 DEF Encoding, Unpads
    <3> QED BY <1>1, <1>3, <1>4, <1>7, <2>1, <2>2, <2>6, <2>8, <3>2, <3>4, <3>5, WritesUp
  <2>10. CASE kind \notin Vless!Vision
    <3>1. PICK r \in Seq(Tok) : r = <<<<"request", 0>>>> /\ Body(r) /\ Vless!UnitsIn(r) = << >>
      BY RequestIs
    <3>2. Vless!UnitsIn(first) = first /\ Body(first)
      BY <2>6, <2>7, CountedUnits
    <3>3. PICK s \in Seq(Tok) : s = r \o first
      BY <2>7, <3>1, ConcatProperties
    <3>4. Body(s)
      BY <3>1, <3>2, <3>3, BodyConcat
    <3>5. Vless!UnitsIn(s) = first
      <4>1. Vless!UnitsIn(r \o first) = Vless!UnitsIn(r) \o Vless!UnitsIn(first)
        BY <2>7, <3>1, UnitsConcat
      <4>2. << >> \o first = first
        BY <2>7, ConcatEmpty
      <4> QED BY <3>1, <3>2, <3>3, <4>1, <4>2
    <3>6. Vless!WriteOut(s)
      BY <1>7, <2>7, <2>10, <3>1, <3>3
    <3>7. Encodes(H \o s, q)'
      BY <1>3, <2>1, <2>2, <2>6, <2>7, <2>10, <3>4, <3>5, EncodesPlain
    <3>8. Encoding(H \o s, q)'
      BY <1>3, <1>7, <2>10 DEF Encoding
    <3> QED BY <1>1, <1>3, <1>4, <1>7, <2>1, <2>2, <2>6, <2>8, <3>6, <3>7, <3>8, WritesUp
  <2> QED BY <2>9, <2>10
<1> QED BY <1>2, <1>5, <1>6, <1>7

(* One more read of the user's, padded as long as the padding lasts.       *)
LEMMA UpRelayStep ==
  ASSUME UpInv, Vless!UpRelay
  PROVE  UpInv'
<1>1. PICK X \in Seq(Tok), S \in Seq(Tok), p \in Nat : UpAt(X, S, p) /\ UpControl
  BY DEF UpInv
<1>20. PICK n \in 1 .. Len(up1) :
         LET chunk == SubSeq(up1, 1, n)
             pads == kind \in Vless!Vision /\ uplink.padding
             decision == Vless!CommandFor(uplink, chunk, FALSE)
         IN
         /\ up1' = Vless!From(up1, n + 1)
         /\ uplink' = IF pads THEN decision.uplink ELSE uplink
         /\ overlong' = (overlong \/ (pads /\ n >= Width))
         /\ \/ /\ Vless!WriteOut(IF pads THEN Vless!Padded(chunk, decision.command, FALSE) ELSE chunk)
               /\ UNCHANGED up
            \/ Vless!OutFails /\ Vless!ShutOut /\ up' = "end"
  BY DEF Vless!UpRelay
<1>21. PICK chunk, decision : chunk = SubSeq(up1, 1, n) /\ decision = Vless!CommandFor(uplink, chunk, FALSE)
  OBVIOUS
<1>22. PICK pads \in BOOLEAN : pads <=> (kind \in Vless!Vision /\ uplink.padding)
  OBVIOUS
<1>2. /\ chunk = SubSeq(up1, 1, n) /\ pads = (kind \in Vless!Vision /\ uplink.padding)
      /\ decision = Vless!CommandFor(uplink, chunk, FALSE)
      /\ up1' = Vless!From(up1, n + 1)
      /\ uplink' = IF pads THEN decision.uplink ELSE uplink
      /\ overlong' = (overlong \/ (pads /\ n >= Width))
      /\ \/ /\ Vless!WriteOut(IF pads THEN Vless!Padded(chunk, decision.command, FALSE) ELSE chunk)
            /\ UNCHANGED up
         \/ Vless!OutFails /\ Vless!ShutOut /\ up' = "end"
  BY <1>20, <1>21, <1>22
<1>3. up = "relay" /\ UNCHANGED <<kind, given, appEof, reset, tup>>
  BY DEF Vless!UpRelay, Vless!appVars, Vless!peerOut, Vless!transport
<1>4. pads => /\ decision.command \in 0 .. 2 /\ decision.uplink \in Uplinks
              /\ decision.uplink.padding <=> decision.command = 0
  <2>1. SUFFICES ASSUME pads PROVE /\ decision.command \in 0 .. 2 /\ decision.uplink \in Uplinks
                                   /\ decision.uplink.padding <=> decision.command = 0
    OBVIOUS
  <2>2. uplink \in Uplinks /\ uplink.padding
    BY <1>1, <1>2, <2>1 DEF UpControl
  <2> QED BY <1>2, <2>2, CommandEnds
<1>5. uplink' \in Uplinks /\ overlong' \in BOOLEAN /\ (overlong => overlong')
  BY <1>1, <1>2, <1>4 DEF UpControl
<1>6. CASE ~Live
  <2>1. reset /\ kind \notin Vless!Packets
    BY <1>6 DEF Live
  <2>2. UNCHANGED <<tx, posts>> /\ (txEnd' = txEnd \/ kind \in Vless!Bare) /\ up' \in {"relay", "end"}
        /\ (up' # "end" => UNCHANGED <<up2End, txEnd>>)
    BY <1>2, <1>3, <2>1 DEF Vless!WriteOut, Vless!OutFails, Vless!ShutOut, Vless!peerIn, Vless!hopUp
  <2>3. UpControl'
    BY <1>1, <1>3, <1>5, <2>1, <2>2 DEF UpControl
  <2>4. ~Live'
    BY <1>3, <1>6 DEF Live
  <2> QED BY <1>1, <1>3, <1>5, <2>2, <2>3, <2>4, DeadUp
<1>7. CASE Live /\ Vless!OutFails /\ Vless!ShutOut /\ up' = "end"
  <2>1. reset
    BY <1>1, <1>3, <1>7 DEF Vless!OutFails, UpControl
  <2> QED BY <1>1, <1>3, <1>5, <1>7, <2>1, ShutsUp
<1>8. CASE Live /\ UNCHANGED up
           /\ Vless!WriteOut(IF pads THEN Vless!Padded(chunk, decision.command, FALSE) ELSE chunk)
  <2>1. PICK H : H = X \o S /\ Encodes(H, p) /\ Encoding(H, p) /\ Queued(p) /\ H \in Seq(Tok)
    BY <1>1, <1>8, EncodesIn DEF UpAt
  <2>2. PICK g \in Nat : g = given /\ Counted(up1, p, g)
    BY <1>1, <1>3, <2>1 DEF Queued, UpControl
  <2>3. n \in Nat /\ n <= Len(up1)
    <3>1. up1 \in Seq(Tok)
      BY <2>2 DEF Counted
    <3> QED BY <3>1, LenProperties
  <2>4. PICK q \in p .. g : /\ Counted(SubSeq(up1, 1, n), p, q)
                            /\ Counted(Vless!From(up1, n + 1), q, g)
    BY <2>2, <2>3, CountedTaken
  <2>5. q \in Nat /\ Counted(chunk, p, q) /\ chunk \in Seq(Tok)
    BY <1>2, <2>4 DEF Counted
  <2>6. Queued(q)'
    BY <1>2, <1>3, <1>8, <2>2, <2>4 DEF Queued, Counted
  <2>7. Vless!UnitsIn(chunk) = chunk /\ Body(chunk) /\ NoFrames(chunk)
    <3>1. Vless!UnitsIn(chunk) = chunk /\ Body(chunk)
      BY <2>5, CountedUnits
    <3> QED BY <3>1, BodyIs
  <2>8. CASE pads
    <3>1. kind \in Vless!Vision /\ uplink.padding
      BY <1>2, <2>8
    <3>2. PICK sound \in BOOLEAN : sound <=> ~overlong
      BY <1>1 DEF UpControl
    <3>9. sound => Unpads(H, "padding")
      BY <1>3, <2>1, <3>1, <3>2 DEF Encoding
    <3>10. Len(chunk) = n
      <4>1. up1 \in Seq(Tok)
        BY <2>2 DEF Counted
      <4>2. PICK a \in Seq(Tok) : a = SubSeq(up1, 1, n) /\ Len(a) = n
        BY <2>3, <4>1, FrontIs
      <4> QED BY <1>2, <4>2
    <3>3. PICK command \in 0 .. 2 : command = decision.command
      BY <1>4, <2>8
    <3>4. PICK b \in Seq(Tok) : /\ b = Vless!Padded(chunk, command, FALSE)
                                /\ Vless!UnitsIn(b) = chunk /\ NoFrames(b)
                                /\ sound /\ Len(chunk) < Width =>
                                     Unpads(H \o b, ModeAfter(command))
      BY <2>1, <2>5, <3>9, BlockUnpads
    <3>11. ~overlong' => Unpads(H \o b, ModeAfter(command))
      <4>1. ~overlong' => ~overlong /\ ~(n >= Width)
        BY <1>2, <2>8
      <4>2. ~(n >= Width) => Len(chunk) < Width
        BY <2>3, <3>10, WidthIs
      <4> QED BY <3>2, <3>4, <4>1, <4>2
    <3>5. Vless!WriteOut(b)
      BY <1>8, <2>8, <3>3, <3>4
    <3>6. Encodes(H \o b, q)'
      BY <1>3, <2>1, <2>5, <3>1, <3>4, <3>11, EncodesVision
    <3>7. uplink'.padding <=> command = 0
      BY <1>2, <1>4, <2>8, <3>3
    <3>8. Encoding(H \o b, q)'
      BY <1>3, <1>8, <3>7, <3>11 DEF Encoding, Unpads, ModeAfter
    <3> QED BY <1>1, <1>3, <1>5, <1>8, <2>1, <2>5, <2>6, <3>5, <3>6, <3>8, WritesUp
  <2>9. CASE ~pads /\ kind \in Vless!Vision
    <3>1. ~uplink.padding /\ uplink' = uplink /\ overlong' = overlong
      BY <1>1, <1>2, <2>9 DEF UpControl
    <3>2. ~overlong => Unpads(H, "raw")
      BY <1>3, <2>1, <2>9, <3>1 DEF Encoding
    <3>3. ~overlong => Unpads(H \o chunk, "raw")
      BY <2>1, <2>5, <3>2, RawUnpads
    <3>4. Vless!WriteOut(chunk)
      BY <1>8, <2>9
    <3>5. Encodes(H \o chunk, q)'
      BY <1>3, <2>1, <2>5, <2>7, <2>9, <3>1, <3>3, EncodesVision
    <3>6. Encoding(H \o chunk, q)'
      BY <1>3, <1>8, <3>1, <3>3 DEF Encoding, Unpads
    <3> QED BY <1>1, <1>3, <1>5, <1>8, <2>1, <2>5, <2>6, <3>4, <3>5, <3>6, WritesUp
  <2>10. CASE ~pads /\ kind \notin Vless!Vision
    <3>1. Vless!WriteOut(chunk)
      BY <1>8, <2>10
    <3>2. Encodes(H \o chunk, q)'
      BY <1>3, <2>1, <2>5, <2>7, <2>10, EncodesPlain
    <3>3. Encoding(H \o chunk, q)'
      BY <1>3, <1>8, <2>10 DEF Encoding
    <3> QED BY <1>1, <1>3, <1>5, <1>8, <2>1, <2>5, <2>6, <3>1, <3>2, <3>3, WritesUp
  <2> QED BY <2>8, <2>9, <2>10
<1> QED BY <1>2, <1>6, <1>7, <1>8

(* The end of the user's side, when everything has been read.              *)
LEMMA UpEndsStep ==
  ASSUME UpInv, Vless!UpEnds
  PROVE  UpInv'
<1>1. PICK X \in Seq(Tok), S \in Seq(Tok), p \in Nat : UpAt(X, S, p) /\ UpControl
  BY DEF UpInv
<1>2. /\ up = "relay" /\ up1 = << >> /\ appEof /\ Vless!ShutOut /\ up' = "end"
      /\ UNCHANGED <<kind, given, appEof, uplink, overlong, reset, tup>>
  BY DEF Vless!UpEnds, Vless!appVars, Vless!peerOut, Vless!transport
<1>3. uplink' \in Uplinks /\ overlong' \in BOOLEAN
  BY <1>1, <1>2 DEF UpControl
<1>4. CASE ~Live
  <2>1. reset /\ kind \notin Vless!Packets
    BY <1>4 DEF Live
  <2>2. UNCHANGED <<tx, posts>> /\ (txEnd' = txEnd \/ kind \in Vless!Bare)
    BY <1>2 DEF Vless!ShutOut, Vless!peerIn, Vless!hopUp
  <2>3. UpControl'
    BY <1>1, <1>2, <1>3, <2>1, <2>2 DEF UpControl
  <2>4. ~Live'
    BY <1>2, <1>4 DEF Live
  <2> QED BY <1>1, <1>2, <2>2, <2>3, <2>4, DeadUp
<1>5. CASE Live
  <2>1. Counted(up1, p, given)
    BY <1>1, <1>2, <1>5 DEF UpAt, Queued
  <2>2. p = given
    BY <1>2, <2>1, EmptySeq DEF Counted
  <2> QED BY <1>1, <1>2, <1>3, <1>5, <2>2, ShutsUp
<1> QED BY <1>4, <1>5

(* The upload task of a transport that frames each read.                   *)
LEMMA UploadsStep ==
  ASSUME UpInv, NEW last \in {<< >>, <<<<"chunk", 0>>>>}, Vless!Uploads(last),
         kind \notin Vless!Bare, kind \notin Vless!Packets
  PROVE  UpInv'
<1>1. PICK X \in Seq(Tok), S \in Seq(Tok), p \in Nat : UpAt(X, S, p) /\ UpControl
  BY DEF UpInv
<1>2. /\ tup = "relay"
      /\ UNCHANGED <<kind, given, appEof, up1, up, uplink, overlong, up2End, reset>>
  BY DEF Vless!Uploads, Vless!upRest, Vless!appVars, Vless!upVars, Vless!peerOut
<1>3. PICK H : H = X \o S /\ Encodes(H, p) /\ CarriesUp(X, S) /\ H \in Seq(Tok)
  <2>1. X \o S \in Seq(Tok)
    BY ConcatProperties
  <2> QED BY <1>1, <2>1 DEF UpAt
<1>4. CASE reset
  <2>1. UNCHANGED <<tx, posts>> /\ tup' = "end" /\ (txEnd' = FALSE \/ txEnd' = txEnd)
    BY <1>4 DEF Vless!Uploads, Vless!peerIn
  <2>2. UpControl'
    BY <1>1, <1>2, <1>4, <2>1 DEF UpControl
  <2>3. ~Live'
    BY <1>2, <1>4 DEF Live
  <2> QED BY <1>1, <1>2, <2>1, <2>2, <2>3, DeadUp
<1>5. CASE ~reset
  <2>1. Live /\ up2 = S /\ Encoding(H, p) /\ Queued(p)
    BY <1>1, <1>3, <1>5 DEF UpAt, Live
  <2>2. Encodes(H, p)' /\ Encoding(H, p)' /\ Queued(p)'
    <3>1. Encodes(H, p)'
      BY <1>2, <1>3, EncodesSame
    <3>2. Encoding(H, p)'
      BY <1>2, <2>1 DEF Encoding, Unpads
    <3>3. Queued(p)'
      BY <1>2, <2>1 DEF Queued, Counted
    <3> QED BY <3>1, <3>2, <3>3
  <2>3. Wraps(tx, X)
    BY <1>3 DEF CarriesUp
  <2>4. ASSUME NEW n \in 1 .. Len(up2), up2' = Vless!From(up2, n + 1),
               tx' = tx \o Vless!Framed(SubSeq(up2, 1, n)), UNCHANGED <<seq, posts, txEnd, tup>>
        PROVE  UpInv'
    <3>1. n \in Nat /\ n <= Len(S)
      BY <2>1, LenProperties
    <3>2. PICK a \in Seq(Tok), b \in Seq(Tok) :
            a = SubSeq(S, 1, n) /\ b = Vless!From(S, n + 1) /\ a \o b = S
      BY <3>1, SplitAt
    <3>3. PICK Y \in Seq(Tok) : Y = X \o a
      BY ConcatProperties
    <3>4. Regroups(X, a, b)
      BY Regroup
    <3>5. H = Y \o b
      BY <1>3, <3>2, <3>3, <3>4 DEF Regroups
    <3>6. Body(H)
      <4>1. kind \notin Vless!Vision
        BY DEF Vless!Bare
      <4> QED BY <1>3, <4>1, EncodesIn
    <3>7. Body(a)
      <4>1. Body(Y)
        BY <3>5, <3>6, BodyParts
      <4> QED BY <3>3, <4>1, BodyParts
    <3>8. Wraps(Vless!Framed(a), a)
      BY <3>7, FramedWraps
    <3>9. Wraps(tx \o Vless!Framed(a), Y)
      BY <2>3, <3>3, <3>8, WrapsConcat
    <3>10. tx' = tx \o Vless!Framed(a) /\ up2' = b
      BY <2>1, <2>4, <3>2
    <3>11. Wraps(tx, Y)'
      BY <3>9, <3>10 DEF Wraps, Announced
    <3>12. CarriesUp(Y, b)'
      BY <1>2, <3>11 DEF CarriesUp
    <3>13. UpAt(Y, b, p)'
      BY <2>2, <3>5, <3>10, <3>12 DEF UpAt
    <3>14. UpControl'
      BY <1>1, <1>2, <2>4 DEF UpControl
    <3> QED BY <3>13, <3>14, UpIntro
  <2>5. ASSUME up2 = << >>, up2End, tup' = "end", txEnd' = TRUE, tx' = tx \o last,
               UNCHANGED <<up2, seq, posts>>
        PROVE  UpInv'
    <3>1. Wraps(tx \o last, X)
      BY <2>3, WrapsLast
    <3>2. Wraps(tx, X)'
      BY <2>5, <3>1 DEF Wraps, Announced
    <3>3. CarriesUp(X, S)'
      BY <1>2, <3>2 DEF CarriesUp
    <3>4. UpAt(X, S, p)'
      BY <1>3, <2>1, <2>2, <2>5, <3>3 DEF UpAt
    <3>5. UpControl'
      BY <1>1, <1>2, <2>5 DEF UpControl
    <3> QED BY <3>4, <3>5, UpIntro
  <2> QED BY <1>5, <2>4, <2>5 DEF Vless!Uploads
<1> QED BY <1>4, <1>5

(* One more post.                                                          *)
LEMMA PostedNext ==
  ASSUME NEW X \in Seq(Tok), NEW a \in Seq(Tok), Posted(X),
         posts' = posts \cup {[seq |-> seq, data |-> a]}, seq' = seq + 1, UNCHANGED tx
  PROVE  Posted(X \o a)'
<1>1. PICK D \in Seq(Seq(Tok)) :
        /\ Len(D) = seq /\ Flat(D) = X
        /\ \A m \in posts \cup Vless!Range(tx) : m.seq + 1 \in 1 .. seq /\ m.data = D[m.seq + 1]
  BY DEF Posted
<1>2. PICK n \in Nat : n = seq
  BY <1>1, LenProperties
<1>3. PICK E \in Seq(Seq(Tok)) : E = Append(D, a)
  BY AppendProperties
<1>4. Len(E) = n + 1 /\ E[n + 1] = a /\ \A i \in 1 .. n : E[i] = D[i]
  BY <1>1, <1>2, <1>3, AppendProperties
<1>5. Flat(E) = X \o a
  BY <1>1, <1>3, FlatStep
<1>6. PICK new \in Numbers : new = [seq |-> n, data |-> a] /\ new.seq = n /\ new.data = a
  <2>1. [seq |-> n, data |-> a] \in Numbers
    BY DEF Numbers
  <2> QED BY <2>1
<1>7. posts' = posts \cup {new}
  BY <1>2, <1>6
<1>8. ASSUME NEW m \in posts' \cup Vless!Range(tx)
      PROVE  m.seq + 1 \in 1 .. n + 1 /\ m.data = E[m.seq + 1]
  <2>1. CASE m = new
    BY <1>4, <1>6, <2>1
  <2>2. CASE m \in posts \cup Vless!Range(tx)
    <3>1. m.seq + 1 \in 1 .. n /\ m.data = D[m.seq + 1]
      BY <1>1, <1>2, <2>2
    <3> QED BY <1>4, <3>1
  <2> QED BY <1>7, <1>8, <2>1, <2>2
<1>9. posts' \in SUBSET Numbers /\ tx \in Seq(Numbers)
  BY <1>6, <1>7 DEF Posted
<1>10. Vless!Range(tx)' = Vless!Range(tx)
  BY DEF Vless!Range
<1>11. \A m \in posts' \cup Vless!Range(tx)' : m.seq + 1 \in 1 .. seq' /\ m.data = E[m.seq + 1]
  BY <1>2, <1>8, <1>10
<1>12. Len(E) = seq' /\ Flat(E) = X \o a
  BY <1>2, <1>4, <1>5
<1> QED BY <1>9, <1>11, <1>12 DEF Posted

(* A post that is there is no longer under way.                            *)
LEMMA PostedThere ==
  ASSUME NEW X, Posted(X), NEW m \in posts, posts' = posts \ {m},
         UNCHANGED seq, tx' = Append(tx, m) \/ tx' = tx
  PROVE  Posted(X)'
<1>1. PICK D \in Seq(Seq(Tok)) :
        /\ Len(D) = seq /\ Flat(D) = X
        /\ \A q \in posts \cup Vless!Range(tx) : q.seq + 1 \in 1 .. seq /\ q.data = D[q.seq + 1]
  BY DEF Posted
<1>2. posts \in SUBSET Numbers /\ tx \in Seq(Numbers) /\ m \in Numbers
  BY DEF Posted
<1>3. tx' \in Seq(Numbers) /\ posts' \in SUBSET Numbers
  BY <1>2, AppendProperties
<1>4. Vless!Range(tx)' \subseteq Vless!Range(tx) \cup {m}
  <2>1. CASE tx' = tx
    BY <2>1 DEF Vless!Range
  <2>2. CASE tx' = Append(tx, m)
    <3>1. PICK n \in Nat : n = Len(tx)
      BY <1>2, LenProperties
    <3>2. PICK t \in Seq(Numbers) : t = Append(tx, m)
      BY <1>2, AppendProperties
    <3>3. Len(t) = n + 1 /\ t[n + 1] = m /\ \A i \in 1 .. n : t[i] = tx[i]
      BY <1>2, <3>1, <3>2, AppendProperties
    <3>4. DOMAIN t = 1 .. n + 1 /\ DOMAIN tx = 1 .. n
      BY <1>2, <3>1, <3>2, <3>3, LenProperties
    <3>5. ASSUME NEW i \in 1 .. n + 1 PROVE t[i] \in Vless!Range(tx) \cup {m}
      <4>1. CASE i \in 1 .. n
        BY <3>3, <3>4, <4>1 DEF Vless!Range
      <4>2. CASE i = n + 1
        BY <3>3, <4>2
      <4> QED BY <4>1, <4>2
    <3> QED BY <2>2, <3>2, <3>4, <3>5 DEF Vless!Range
  <2> QED BY <2>1, <2>2
<1>5. \A q \in posts' \cup Vless!Range(tx)' : q.seq + 1 \in 1 .. seq' /\ q.data = D[q.seq + 1]
  BY <1>1, <1>4
<1>6. Len(D) = seq'
  BY <1>1
<1> QED BY <1>1, <1>3, <1>5, <1>6 DEF Posted

(* The upload task of the packet transports.                               *)
LEMMA PostsStep ==
  ASSUME UpInv, Vless!Posts, kind \in Vless!Packets
  PROVE  UpInv'
<1>1. PICK X \in Seq(Tok), S \in Seq(Tok), p \in Nat : UpAt(X, S, p) /\ UpControl
  BY DEF UpInv
<1>2. /\ tup = "relay" /\ kind \notin Vless!Bare
      /\ UNCHANGED <<kind, given, appEof, up1, up, uplink, overlong, up2End, reset>>
  BY DEF Vless!Posts, Vless!upRest, Vless!appVars, Vless!upVars, Vless!peerOut, Vless!Bare,
    Vless!Packets, Vless!Vision
<1>3. PICK H : H = X \o S /\ Encodes(H, p) /\ Posted(X) /\ CarriesUp(X, S)
  BY <1>1 DEF UpAt, CarriesUp
<1>4. up2 = S /\ Encoding(H, p) /\ Queued(p)
  BY <1>1, <1>3 DEF UpAt, Live
<1>5. Encodes(H, p)' /\ Encoding(H, p)' /\ Queued(p)'
  <2>1. Encodes(H, p)'
    BY <1>2, <1>3, EncodesSame
  <2>2. Encoding(H, p)'
    BY <1>2, <1>4 DEF Encoding, Unpads
  <2>3. Queued(p)'
    BY <1>2, <1>4 DEF Queued, Counted
  <2> QED BY <2>1, <2>2, <2>3
<1>6. ASSUME NEW n \in 1 .. Len(up2), up2' = Vless!From(up2, n + 1),
             posts' = posts \cup {[seq |-> seq, data |-> SubSeq(up2, 1, n)]}, seq' = seq + 1,
             UNCHANGED <<tx, txEnd, tup>>
      PROVE  UpInv'
  <2>1. n \in Nat /\ n <= Len(S)
    BY <1>4, LenProperties
  <2>2. PICK a \in Seq(Tok), b \in Seq(Tok) :
          a = SubSeq(S, 1, n) /\ b = Vless!From(S, n + 1) /\ a \o b = S
    BY <2>1, SplitAt
  <2>3. PICK Y \in Seq(Tok) : Y = X \o a
    BY ConcatProperties
  <2>4. Regroups(X, a, b)
    BY Regroup
  <2>5. H = Y \o b
    BY <1>3, <2>2, <2>3, <2>4 DEF Regroups
  <2>6. up2' = b /\ posts' = posts \cup {[seq |-> seq, data |-> a]}
    BY <1>4, <1>6, <2>2
  <2>7. Posted(X \o a)'
    BY <1>3, <1>6, <2>6, PostedNext
  <2>8. CarriesUp(Y, b)'
    BY <1>2, <2>3, <2>7 DEF CarriesUp
  <2>9. UpAt(Y, b, p)'
    BY <1>5, <2>5, <2>6, <2>8 DEF UpAt
  <2>10. UpControl'
    BY <1>1, <1>2, <1>6 DEF UpControl
  <2> QED BY <2>9, <2>10, UpIntro
<1>7. ASSUME up2 = << >>, up2End, tup' = "end", UNCHANGED <<up2, seq, posts, tx, txEnd>>
      PROVE  UpInv'
  <2>1. CarriesUp(X, S)'
    BY <1>2, <1>3, <1>7, CarriesSameUp
  <2>2. UpAt(X, S, p)'
    BY <1>3, <1>4, <1>5, <1>7, <2>1 DEF UpAt
  <2>3. UpControl'
    BY <1>1, <1>2, <1>7 DEF UpControl
  <2> QED BY <2>2, <2>3, UpIntro
<1> QED BY <1>6, <1>7 DEF Vless!Posts, Vless!peerIn

(* A post arrives, or fails.                                               *)
LEMMA PostEndsStep ==
  ASSUME UpInv, Vless!PostEnds
  PROVE  UpInv'
<1>1. PICK X \in Seq(Tok), S \in Seq(Tok), p \in Nat : UpAt(X, S, p) /\ UpControl
  BY DEF UpInv
<1>2. PICK m \in posts : posts' = posts \ {m} /\ (tx' = Append(tx, m) \/ tx' = tx)
  BY DEF Vless!PostEnds
<1>3. UNCHANGED <<kind, given, appEof, up1, up, uplink, overlong, up2, up2End, seq, txEnd, reset, tup>>
  BY DEF Vless!PostEnds, Vless!appVars, Vless!upVars, Vless!hopUp, Vless!peerOut, Vless!transport
<1>4. kind \in Vless!Packets
  BY <1>1, <1>2 DEF UpControl
<1>5. kind \notin Vless!Bare
  BY <1>4 DEF Vless!Bare, Vless!Packets, Vless!Vision
<1>6. PICK H : H = X \o S /\ Encodes(H, p) /\ Posted(X)
  BY <1>1, <1>4 DEF UpAt, CarriesUp
<1>7. up2 = S /\ Encoding(H, p) /\ Queued(p)
  BY <1>1, <1>4, <1>6 DEF UpAt, Live
<1>8. Encodes(H, p)' /\ Encoding(H, p)' /\ Queued(p)'
  <2>1. Encodes(H, p)'
    BY <1>3, <1>6, EncodesSame
  <2>2. Encoding(H, p)'
    BY <1>3, <1>7 DEF Encoding, Unpads
  <2>3. Queued(p)'
    BY <1>3, <1>7 DEF Queued, Counted
  <2> QED BY <2>1, <2>2, <2>3
<1>9. Posted(X)'
  BY <1>2, <1>3, <1>6, PostedThere
<1>10. CarriesUp(X, S)'
  BY <1>3, <1>4, <1>5, <1>9 DEF CarriesUp
<1>11. UpAt(X, S, p)'
  BY <1>3, <1>6, <1>7, <1>8, <1>10 DEF UpAt
<1>12. UpControl'
  BY <1>1, <1>3, <1>4 DEF UpControl
<1> QED BY <1>11, <1>12, UpIntro

(* Steps that the upload has no part in.                                   *)
LEMMA BystandersUp ==
  ASSUME UpInv,
         \/ Vless!AppCloses \/ Vless!AppDrops \/ Vless!Arrive \/ Vless!PeerEnds
         \/ Vless!ConnectionBreaks \/ Vless!TransportDownload \/ Vless!Down
         \/ UNCHANGED Vless!vars
  PROVE  UpInv'
<1>1. CASE \/ Vless!AppCloses \/ Vless!AppDrops \/ Vless!Arrive \/ Vless!PeerEnds
           \/ Vless!ConnectionBreaks \/ UNCHANGED Vless!vars
  <2>1. UNCHANGED <<kind, given, up1, up, uplink, overlong, up2, up2End, seq, posts, tx, txEnd, tup>>
    BY <1>1 DEF Vless!AppCloses, Vless!AppDrops, Vless!Arrive, Vless!PeerEnds,
      Vless!ConnectionBreaks, Vless!vars, Vless!appVars, Vless!upVars, Vless!hopUp, Vless!peerIn,
      Vless!transport
  <2>2. (reset => reset') /\ (appEof => appEof')
    BY <1>1 DEF Vless!AppCloses, Vless!AppDrops, Vless!Arrive, Vless!PeerEnds,
      Vless!ConnectionBreaks, Vless!vars, Vless!appVars, Vless!peerOut
  <2> QED BY <2>1, <2>2, OthersUp
<1>2. CASE Vless!Down
  <2>1. UNCHANGED Vless!downRest
    BY <1>2 DEF Vless!Down, Vless!DownHeader, Vless!DownAddon, Vless!DownRelay, Vless!DownEnds
  <2>2. UNCHANGED <<kind, given, appEof, up1, up, uplink, overlong, up2, up2End, seq, posts, tx, txEnd,
                    reset, tup>>
    BY <2>1 DEF Vless!downRest, Vless!appVars, Vless!upVars, Vless!hopUp, Vless!peerIn,
      Vless!transport
  <2> QED BY <2>2, OthersUp
<1>3. CASE Vless!TransportDownload
  <2>1. UNCHANGED Vless!tdownRest
    BY <1>3 DEF Vless!TransportDownload, Vless!Http1Download, Vless!PacketDownload,
      Vless!H3Download, Vless!WsDownload, Vless!H2Download, Vless!Copies, Vless!AwaitsResponse,
      Vless!ResponseEnds
  <2>2. UNCHANGED <<kind, given, appEof, up1, up, uplink, overlong, up2, up2End, seq, posts, tx, txEnd,
                    reset, tup>>
    BY <2>1 DEF Vless!tdownRest, Vless!appVars, Vless!upVars, Vless!hopUp, Vless!peerIn
  <2> QED BY <2>2, OthersUp
<1> QED BY <1>1, <1>2, <1>3

(* The upload task of each transport.                                      *)
LEMMA TransportUp ==
  ASSUME UpInv, Vless!TransportUpload
  PROVE  UpInv'
<1>1. \A k \in {"http1", "ws", "h2", "grpc"} : k \notin Vless!Bare /\ k \notin Vless!Packets
  BY DEF Vless!Bare, Vless!Vision, Vless!Packets
<1>2. CASE Vless!Http1Upload
  <2>1. kind = "http1" /\ Vless!Uploads(<<<<"chunk", 0>>>>)
    BY <1>2 DEF Vless!Http1Upload
  <2>2. PICK last \in {<< >>, <<<<"chunk", 0>>>>} : last = <<<<"chunk", 0>>>>
    OBVIOUS
  <2> QED BY <1>1, <2>1, <2>2, UploadsStep
<1>3. CASE Vless!WsUpload \/ Vless!H2Upload
  <2>1. kind \in {"ws", "h2", "grpc"} /\ Vless!Uploads(<< >>)
    BY <1>3 DEF Vless!WsUpload, Vless!H2Upload
  <2>2. PICK last \in {<< >>, <<<<"chunk", 0>>>>} : last = << >>
    OBVIOUS
  <2> QED BY <1>1, <2>1, <2>2, UploadsStep
<1>4. CASE Vless!PacketUpload \/ Vless!H3Upload
  <2>1. kind \in Vless!Packets /\ Vless!Posts
    BY <1>4 DEF Vless!PacketUpload, Vless!H3Upload, Vless!Packets
  <2> QED BY <2>1, PostsStep
<1>5. CASE Vless!H3Connects
  BY <1>5, H3ConnectsUp
<1> QED BY <1>2, <1>3, <1>4, <1>5 DEF Vless!TransportUpload

(* No step loses anything of the upload.                                   *)
LEMMA UpStep ==
  ASSUME UpInv, [Vless!Next]_(Vless!vars)
  PROVE  UpInv'
<1>1. CASE \/ Vless!AppCloses \/ Vless!AppDrops \/ Vless!Arrive \/ Vless!PeerEnds
           \/ Vless!ConnectionBreaks \/ Vless!TransportDownload \/ Vless!Down
           \/ UNCHANGED Vless!vars
  BY <1>1, BystandersUp
<1>2. CASE Vless!AppSends
  BY <1>2, AppSendsUp
<1>3. CASE Vless!PostEnds
  BY <1>3, PostEndsStep
<1>4. CASE Vless!Up
  BY <1>4, UpFirstStep, UpRelayStep, UpEndsStep DEF Vless!Up
<1>5. CASE Vless!TransportUpload
  BY <1>5, TransportUp
<1> QED BY <1>1, <1>2, <1>3, <1>4, <1>5 DEF Vless!Next

(* The beginning.                                                          *)
LEMMA UpInit == Vless!Init => UpInv
<1> SUFFICES ASSUME Vless!Init PROVE UpInv
  OBVIOUS
<1>1. PICK none \in Seq(Tok) : none = << >> /\ Len(none) = 0 /\ none \o none = none
  BY EmptySeq, ConcatEmpty
<1>2. PICK z \in Nat : z = 0 /\ Counted(none, z, z)
  <2>1. Counted(<< >>, 0, 0)
    BY CountedNone
  <2> QED BY <1>1, <2>1
<1>3. \A i \in 1 .. Len(none) : FALSE
  BY <1>1
<1>4. Vless!UnitsIn(none) = none /\ Visible(none) = none
  BY <1>1, <1>3, HeaderUnseen
<1>5. NoFrames(none) /\ Body(none) /\ Announced(none)
  BY <1>3 DEF NoFrames, Body, Announced
<1>6. /\ given = z /\ up1 = none /\ up = "first" /\ uplink = Vless!FirstUplink /\ ~overlong
      /\ up2 = none /\ ~up2End /\ seq = z /\ posts = {} /\ tx = none /\ ~txEnd
  BY <1>1, <1>2 DEF Vless!Init
<1>7. /\ kind \in Vless!Bare => tup = "end"
      /\ kind \notin Vless!Bare => tup \in {"connect", "relay"}
  <2>1. tup = CASE kind \in Vless!Bare -> "end" [] kind = "h3" -> "connect" [] OTHER -> "relay"
    BY DEF Vless!Init
  <2>2. "h3" \notin Vless!Bare
    BY DEF Vless!Bare, Vless!Vision
  <2> QED BY <2>1, <2>2
<1>8. uplink \in Uplinks /\ uplink.padding
  <2>1. FilterLimit \in Nat
    BY BridgesAssumption DEF Vless!VisionAssumption
  <2> QED BY <1>6, <2>1 DEF Vless!FirstUplink, Uplinks
<1>17. overlong \in BOOLEAN
  BY DEF Vless!Init
<1>9. UpControl
  BY <1>6, <1>7, <1>8, <1>17 DEF UpControl
<1>10. Start(none).out = none
  BY <1>1 DEF Start, Vless!Push
<1>11. Encodes(none, z)
  BY <1>2, <1>4, <1>5, <1>10 DEF Encodes
<1>12. Encoding(none, z) /\ Queued(z)
  BY <1>1, <1>2, <1>6, <1>8 DEF Encoding, Queued
<1>13. Wraps(none, none)
  BY <1>4, <1>5 DEF Wraps
<1>14. Posted(none)
  <2>1. PICK D \in Seq(Seq(Tok)) : D = << >> /\ Len(D) = 0
    BY EmptySeq
  <2>2. Flat(D) = none
    BY <1>1, <2>1, FlatNone
  <2>3. tx \in Seq(Numbers)
    BY <1>1, <1>6, EmptySeq
  <2>4. DOMAIN tx = {}
    BY <1>1, <1>6
  <2>5. posts \cup Vless!Range(tx) = {}
    BY <1>6, <2>4 DEF Vless!Range
  <2> QED BY <1>2, <1>6, <2>1, <2>2, <2>3, <2>5 DEF Posted
<1>15. CarriesUp(none, none)
  BY <1>1, <1>6, <1>13, <1>14 DEF CarriesUp
<1>16. UpAt(none, none, z)
  BY <1>1, <1>6, <1>11, <1>12, <1>15 DEF UpAt
<1> QED BY <1>9, <1>16 DEF UpInv

-----------------------------------------------------------------------------
(* Units that count from the first one.                                    *)
LEMMA CountsIs ==
  ASSUME NEW s, NEW z \in Nat, z = 0, NEW q \in Nat, Counted(Vless!UnitsIn(s), z, q)
  PROVE  Vless!Counts(s) /\ Len(Vless!UnitsIn(s)) = q
<1>1. PICK u : u = Vless!UnitsIn(s)
  OBVIOUS
<1>2. u \in Seq(Tok) /\ z + Len(u) = q /\ \A i \in 1 .. Len(u) : u[i][2] = z + i
  BY <1>1 DEF Counted
<1>3. Len(u) \in Nat /\ DOMAIN u = 1 .. Len(u)
  BY <1>2, LenProperties
<1>4. \A i \in DOMAIN u : u[i][2] = i
  BY <1>2, <1>3
<1> QED BY <1>1, <1>2, <1>3, <1>4 DEF Vless!Counts

(* The front of what has been written counts too.                          *)
LEMMA FrontCounts ==
  ASSUME NEW X \in Seq(Tok), NEW S \in Seq(Tok), NEW p \in Nat, Encodes(X \o S, p),
         NEW s, Vless!UnitsIn(s) = Vless!UnitsIn(X)
  PROVE  Vless!Counts(s)
<1>1. PICK z \in Nat : z = 0
  OBVIOUS
<1>2. PICK u \in Seq(Tok), v \in Seq(Tok) : u = Vless!UnitsIn(X) /\ v = Vless!UnitsIn(S)
  BY UnitsConcat
<1>3. Vless!UnitsIn(X \o S) = Vless!UnitsIn(X) \o Vless!UnitsIn(S)
  BY UnitsConcat
<1>4. Counted(u \o v, z, p)
  BY <1>1, <1>2, <1>3 DEF Encodes
<1>5. PICK q \in z .. p : Counted(u, z, q)
  BY <1>4, CountedFront
<1>6. q \in Nat
  BY <1>5
<1>7. Counted(Vless!UnitsIn(s), z, q)
  BY <1>2, <1>5
<1> QED BY <1>1, <1>6, <1>7, CountsIs

(* What UploadIntact says of bytes: those of the peer, without their       *)
(* framing, decode to the user's units.                                    *)
LEMMA Reads ==
  ASSUME NEW s \in Seq(Tok), Vless!Sent = s,
         Vless!Contains(s, Vless!Lost) \/
           (/\ Vless!Counts(s)
            /\ ~overlong => (IF kind \in Vless!Vision THEN Start(Visible(s)).out ELSE Visible(s))
                              = Vless!UnitsIn(s)),
         Announced(s) \/ NoFrames(s)
  PROVE  Vless!UploadIntact
<1>1. Vless!Unframed = Visible(s)
  BY DEF Vless!Unframed, Visible, Coded
<1>2. Visible(s) \in Seq(Tok)
  BY UnitsConcat
<1>3. Vless!PushDownlink(Vless!FirstUnpadding, Visible(s)) = Start(Visible(s))
  BY <1>2, FirstPush
<1>4. PICK l \in Nat : l = Len(s) /\ DOMAIN s = 1 .. l
  BY LenProperties
<1>5. ASSUME NEW i \in DOMAIN s, s[i][1] \in Vless!Framing, NEW j \in i + 1 .. i + s[i][2]
      PROVE  Vless!IsUnit(s[j]) \/ s[j][1] = "request"
  <2>1. Announced(s)
    BY <1>4, <1>5 DEF NoFrames
  <2>2. i \in 1 .. l
    BY <1>4
  <2>3. PICK n : n = s[i][2] /\ n \in Nat
    <3>1. s[i] \in Tok
      BY <1>4, <2>2, ElementOfSeq
    <3> QED BY <3>1 DEF Tok
  <2>4. i + n <= l
    BY <1>4, <1>5, <2>1, <2>2, <2>3 DEF Announced
  <2>5. j \in 1 .. l /\ i < j /\ j <= i + n
    BY <1>5, <2>2, <2>3, <2>4
  <2>6. s[j][1] \in Bodies
    BY <1>4, <1>5, <2>1, <2>2, <2>3, <2>5 DEF Announced
  <2> QED BY <2>6 DEF Bodies, Vless!IsUnit
<1>6. \A i \in DOMAIN s : s[i][1] \in Vless!Framing =>
        \A j \in i + 1 .. i + s[i][2] : Vless!IsUnit(s[j]) \/ s[j][1] = "request"
  BY <1>5
<1> QED BY <1>1, <1>3, <1>6 DEF Vless!UploadIntact

-----------------------------------------------------------------------------
(* The posts, by their numbers.                                            *)
WithNumber(n) == { m \in posts \cup Vless!Range(tx) : m.seq = n }
ByNumber ==
  [i \in 1 .. seq |-> IF WithNumber(i - 1) = {} THEN <<Vless!Lost>>
                      ELSE (CHOOSE m \in WithNumber(i - 1) : TRUE).data]

(* Each is there, whether it has arrived or not, or has been lost.         *)
LEMMA ByNumberIs ==
  ASSUME NEW n \in Nat, n = seq, NEW D \in Seq(Seq(Tok)), Len(D) = n,
         \A m \in posts \cup Vless!Range(tx) : m.seq + 1 \in 1 .. seq /\ m.data = D[m.seq + 1],
         posts \in SUBSET Numbers, tx \in Seq(Numbers)
  PROVE  \E F \in Seq(Seq(Tok)) :
           /\ F = ByNumber /\ Len(F) = n
           /\ \A i \in 1 .. n : F[i] = D[i] \/ F[i] = <<Vless!Lost>>
<1>1. PICK lost \in Seq(Tok) : lost = <<Vless!Lost>>
  <2>1. "lost" \in Types /\ 0 \in Nat
    BY DEF Types
  <2>2. PICK e \in Tok : e = Vless!Lost
    BY <2>1, TokenIs DEF Vless!Lost
  <2> QED BY <2>2, OneToken
<1>2. PICK F : F = ByNumber
  OBVIOUS
<1>3. ASSUME NEW i \in 1 .. n PROVE F[i] = D[i] \/ F[i] = lost
  <2>1. CASE WithNumber(i - 1) = {}
    BY <1>1, <1>2, <2>1 DEF ByNumber
  <2>2. CASE WithNumber(i - 1) # {}
    <3>1. PICK m : m = CHOOSE q \in WithNumber(i - 1) : TRUE
      OBVIOUS
    <3>2. m \in WithNumber(i - 1)
      BY <2>2, <3>1
    <3>3. F[i] = m.data
      BY <1>2, <2>2, <3>1 DEF ByNumber
    <3>4. m \in posts \cup Vless!Range(tx) /\ m.seq = i - 1
      BY <3>2 DEF WithNumber
    <3>5. m.seq + 1 = i
      BY <3>4
    <3>6. m.data = D[i]
      BY <3>4, <3>5
    <3> QED BY <3>3, <3>6
  <2> QED BY <2>1, <2>2
<1>4. \A i \in 1 .. n : D[i] \in Seq(Tok)
  BY ElementOfSeq
<1>5. PICK T : T = Seq(Tok)
  OBVIOUS
<1>6. F \in [1 .. n -> T]
  <2>1. \A i \in 1 .. n : F[i] \in T
    BY <1>1, <1>3, <1>4, <1>5
  <2>2. F = [i \in 1 .. n |-> F[i]]
    BY <1>2 DEF ByNumber
  <2> QED BY <2>1, <2>2
<1>7. F \in Seq(T) /\ Len(F) = n
  BY <1>6
<1> QED BY <1>1, <1>2, <1>3, <1>5, <1>7

(* What the peer of a packet connection can read.                          *)
LEMMA PacketsRead ==
  ASSUME NEW X \in Seq(Tok), NEW S \in Seq(Tok), NEW p \in Nat, UpAt(X, S, p),
         kind \in Vless!Packets
  PROVE  Vless!UploadIntact
<1>1. kind \notin Vless!Vision /\ kind \notin Vless!Bare
  BY DEF Vless!Packets, Vless!Vision, Vless!Bare
<1>2. Posted(X) /\ Encodes(X \o S, p)
  BY DEF UpAt, CarriesUp
<1>3. Body(X)
  <2>1. Body(X \o S)
    BY <1>1, <1>2 DEF Encodes
  <2> QED BY <2>1, BodyParts
<1>4. PICK D \in Seq(Seq(Tok)) :
        /\ Len(D) = seq /\ Flat(D) = X
        /\ \A m \in posts \cup Vless!Range(tx) : m.seq + 1 \in 1 .. seq /\ m.data = D[m.seq + 1]
  BY <1>2 DEF Posted
<1>5. PICK n \in Nat : n = seq
  BY <1>4, LenProperties
<1>6. posts \in SUBSET Numbers /\ tx \in Seq(Numbers)
  BY <1>2 DEF Posted
<1>7. PICK F \in Seq(Seq(Tok)) :
        /\ F = ByNumber /\ Len(F) = n
        /\ \A i \in 1 .. n : F[i] = D[i] \/ F[i] = <<Vless!Lost>>
  BY <1>4, <1>5, <1>6, ByNumberIs
<1>8. Vless!Sent = Flat(F)
  BY <1>7 DEF Vless!Sent, Flat, ByNumber, WithNumber
<1>9. PICK e \in Tok : e = Vless!Lost /\ e[1] = "lost"
  <2>1. "lost" \in Types /\ 0 \in Nat
    BY DEF Types
  <2> QED BY <2>1, TokenIs DEF Vless!Lost
<1>10. PICK lost \in Seq(Tok) : lost = <<e>> /\ Len(lost) = 1 /\ lost[1] = e
  BY OneToken
<1>11. PICK A : A = { t \in Tok : t[1] \notin Vless!Framing }
  OBVIOUS
<1>12. ASSUME NEW i \in 1 .. Len(F) PROVE Within(F[i], A)
  <2>1. CASE F[i] = lost
    <3>1. e \in A
      BY <1>9, <1>11 DEF Vless!Framing
    <3>2. \A k \in 1 .. Len(lost) : lost[k] = e
      BY <1>10
    <3> QED BY <2>1, <3>1, <3>2 DEF Within
  <2>2. CASE F[i] = D[i]
    <3>1. i \in 1 .. Len(D)
      BY <1>4, <1>5, <1>7
    <3>2. PICK d \in Seq(Tok) : d = D[i]
      BY <3>1, ElementOfSeq
    <3>3. ASSUME NEW k \in 1 .. Len(d) PROVE d[k] \in A
      <4>1. PICK t \in Tok : t = d[k]
        BY ElementOfSeq
      <4>2. Shows(D[i], t)
        BY <3>2, <4>1 DEF Shows
      <4>3. Shows(Flat(D), t)
        BY <3>1, <4>2, FlatShows
      <4>4. PICK l \in 1 .. Len(X) : X[l] = t
        BY <1>4, <4>3 DEF Shows
      <4>5. t[1] \in Bodies
        BY <1>3, <4>4 DEF Body
      <4>6. \A b \in Bodies : b \notin Vless!Framing
        BY DEF Bodies, Vless!Framing, Vless!Classes
      <4> QED BY <1>11, <4>1, <4>5, <4>6
    <3> QED BY <2>2, <3>2, <3>3 DEF Within
  <2> QED BY <1>7, <1>9, <1>10, <2>1, <2>2
<1>13. Within(Flat(F), A)
  BY <1>12, FlatWithin
<1>14. PICK s \in Seq(Tok) : s = Flat(F) /\ NoFrames(s)
  BY <1>11, <1>13 DEF Within, NoFrames
<1>15. CASE \A i \in 1 .. n : F[i] = D[i]
  <2>1. PICK T : T = Seq(Tok)
    OBVIOUS
  <2>2. F \in Seq(T) /\ D \in Seq(T) /\ Len(F) = n /\ Len(D) = n
    BY <1>4, <1>5, <1>7, <2>1
  <2>3. F = D
    BY <1>15, <2>2, SeqEqual
  <2>4. s = X
    BY <1>4, <1>14, <2>3
  <2>5. Visible(s) = Vless!UnitsIn(s)
    BY <1>3, <2>4, BodyIs
  <2>6. Vless!Counts(s)
    BY <1>2, <2>4, FrontCounts
  <2> QED BY <1>1, <1>8, <1>14, <2>5, <2>6, Reads
<1>16. CASE \E i \in 1 .. n : F[i] # D[i]
  <2>1. PICK i \in 1 .. n : F[i] = lost
    BY <1>7, <1>9, <1>10, <1>16
  <2>2. i \in 1 .. Len(F)
    BY <1>7
  <2>3. Shows(F[i], e)
    BY <1>10, <2>1 DEF Shows
  <2>4. Shows(Flat(F), e)
    BY <2>2, <2>3, FlatShows
  <2>5. Vless!Contains(s, Vless!Lost)
    BY <1>9, <1>14, <2>4 DEF Shows, Vless!Contains
  <2> QED BY <1>8, <1>14, <2>5, Reads
<1> QED BY <1>15, <1>16

(* What the peer has received decodes to the first of the user's units.    *)
LEMMA UpIntact == UpInv => Vless!UploadIntact
<1> SUFFICES ASSUME UpInv PROVE Vless!UploadIntact
  OBVIOUS
<1>1. PICK X \in Seq(Tok), S \in Seq(Tok), p \in Nat : UpAt(X, S, p)
  BY DEF UpInv
<1>2. Encodes(X \o S, p) /\ CarriesUp(X, S)
  BY <1>1 DEF UpAt
<1>3. CASE kind \in Vless!Packets
  BY <1>1, <1>3, PacketsRead
<1>4. CASE kind \notin Vless!Packets /\ kind \in Vless!Bare
  <2>1. tx = X /\ S = << >>
    BY <1>2, <1>4 DEF CarriesUp
  <2>2. X \o << >> = X
    BY ConcatEmpty
  <2>3. Encodes(X, p)
    BY <1>2, <2>1, <2>2
  <2>4. Vless!Sent = X
    BY <1>4, <2>1 DEF Vless!Sent
  <2>5. Vless!Counts(X)
    BY <1>2, FrontCounts
  <2>6. NoFrames(X)
    BY <2>3 DEF Encodes
  <2>7. CASE kind \in Vless!Vision
    <3>1. ~overlong => Start(Visible(X)).out = Vless!UnitsIn(X)
      BY <2>3, <2>7 DEF Encodes
    <3> QED BY <2>4, <2>5, <2>6, <2>7, <3>1, Reads
  <2>8. CASE kind \notin Vless!Vision
    <3>1. Visible(X) = Vless!UnitsIn(X)
      BY <2>3, <2>8, BodyIs DEF Encodes
    <3> QED BY <2>4, <2>5, <2>6, <2>8, <3>1, Reads
  <2> QED BY <2>7, <2>8
<1>5. CASE kind \notin Vless!Packets /\ kind \notin Vless!Bare
  <2>1. Wraps(tx, X)
    BY <1>2, <1>5 DEF CarriesUp
  <2>2. PICK s \in Seq(Tok) : s = tx
    BY <2>1 DEF Wraps, Announced
  <2>3. Announced(s) /\ Vless!UnitsIn(s) = Vless!UnitsIn(X) /\ Visible(s) = Vless!UnitsIn(s)
    BY <2>1, <2>2 DEF Wraps
  <2>4. Vless!Sent = s
    BY <1>5, <2>2 DEF Vless!Sent
  <2>5. Vless!Counts(s)
    BY <1>2, <2>3, FrontCounts
  <2>6. kind \notin Vless!Vision
    BY <1>5 DEF Vless!Bare
  <2> QED BY <2>3, <2>4, <2>5, <2>6, Reads
<1> QED BY <1>3, <1>4, <1>5

(* When it is told of the end on a connection that works, of all of them.  *)
LEMMA UpWhole == UpInv => (~reset /\ txEnd => Len(Vless!UnitsIn(Vless!Sent)) = given)
<1> SUFFICES ASSUME UpInv, ~reset, txEnd PROVE Len(Vless!UnitsIn(Vless!Sent)) = given
  OBVIOUS
<1>1. PICK X \in Seq(Tok), S \in Seq(Tok), p \in Nat : UpAt(X, S, p) /\ UpControl
  BY DEF UpInv
<1>2. kind \notin Vless!Packets /\ up = "end" /\ Live
  BY <1>1 DEF UpControl, Live
<1>3. up2 = S /\ p = given /\ CarriesUp(X, S) /\ Encodes(X \o S, p)
  BY <1>1, <1>2 DEF UpAt, Queued
<1>4. S = << >>
  <2>1. CASE kind \in Vless!Bare
    BY <1>3, <2>1 DEF CarriesUp
  <2>2. CASE kind \notin Vless!Bare
    BY <1>1, <1>3, <2>2 DEF UpControl
  <2> QED BY <2>1, <2>2
<1>5. X \o << >> = X
  BY ConcatEmpty
<1>6. Encodes(X, p)
  BY <1>3, <1>4, <1>5
<1>7. Vless!UnitsIn(tx) = Vless!UnitsIn(X)
  BY <1>2, <1>3 DEF CarriesUp, Wraps
<1>8. PICK z \in Nat : z = 0 /\ Counted(Vless!UnitsIn(tx), z, p)
  BY <1>6, <1>7 DEF Encodes
<1>9. Len(Vless!UnitsIn(tx)) = p
  BY <1>8, CountsIs
<1>10. Vless!Sent = tx
  BY <1>2 DEF Vless!Sent
<1> QED BY <1>3, <1>9, <1>10

-----------------------------------------------------------------------------
(* The upload of a VLESS connection, beside the XHTTP bridges.             *)
UploadInv == of = "vless" => UpInv

(* The invariant is inductive.                                             *)
LEMMA UploadInduction ==
  /\ Init => UploadInv
  /\ UploadInv /\ [Next]_vars => UploadInv'
<1>1. Init => UploadInv
  BY UpInit DEF Init, UploadInv
<1>2. ASSUME UploadInv, [Next]_vars, (of = "vless")' PROVE UpInv'
  <2>1. of = "vless" /\ [Vless!Next]_(Vless!vars)
    BY <1>2, ConnectionOrOther
  <2> QED BY <1>2, <2>1, UpStep DEF UploadInv
<1> QED BY <1>1, <1>2 DEF UploadInv

(* The user's units are in the pipe of the relay, in the second pipe, in a *)
(* post or with the peer, each once and in order, framed in whole frames   *)
(* and padded in whole blocks; the blocks decode to the units unless the   *)
(* length of one was too large for its field (overlong).                   *)
THEOREM UploadInvAlways == Spec => []UploadInv
<1> QED BY UploadInduction, PTL DEF Spec

(* What the peer of a VLESS connection can read is what the user has sent, *)
(* in order, whatever the transport, the user's traffic, the reads and the *)
(* order and losses of the posts are: every frame announces what follows   *)
(* it, and the padding blocks decode to the user's units, with the padding *)
(* ended where a command ends it, unless a block was longer than its length*)
(* field can say; and an XHTTP server never has to keep more than the lanes*)
(* of h1_packet let posts run ahead.                                       *)
THEOREM UploadIntactAlways == Spec => []UploadIntact
<1>1. UploadInv /\ XhttpSafety => UploadIntact
  BY UpIntact DEF UploadInv, XhttpSafety, UploadIntact
<1> QED BY <1>1, UploadInvAlways, XhttpSafe, PTL

(* The end of an upload that the peer sees, and that of a download which   *)
(* the user sees, come behind everything when the connection works; an     *)
(* XHTTP server that sees the end of a request has all of it; and an XHTTP *)
(* upload that is answered and ends without a failure has delivered all    *)
(* but the posts still queued or under way.                                *)
THEOREM EndsAreWholeAlways == Spec => []EndsAreWhole
<1>1. UploadInv /\ ConnectionInv /\ XhttpSafety => EndsAreWhole
  BY UpWhole, DownWhole
    DEF UploadInv, ConnectionInv, XhttpSafety, EndsAreWhole, Vless!EndsAreWhole
<1> QED BY <1>1, UploadInvAlways, ConnectionInvAlways, XhttpSafe, PTL
=============================================================================
