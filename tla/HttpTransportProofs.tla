------------------------- MODULE HttpTransportProofs -------------------------
(***************************************************************************)
(* Proofs about UrlParser, HttpTransport and HttpsTransport.                *)
(***************************************************************************)
EXTENDS HttpsTransport, SequenceTheorems, WellFoundedInduction, TLAPS

-----------------------------------------------------------------------------
(* parseUrl of the four transports, for any parts of a URL, any words that  *)
(* are numbers and any words that lower case changes.                       *)

(* The characters that decide; the provers do better with their names. *)
Blank == " "
Colon == ":"
Slash == "/"
Words == STRING \cup {Blank, Colon, Slash}

(* A set of numbers with an element has a first one. *)
LEMMA FirstOf ==
  ASSUME NEW S \in SUBSET Nat, S # {}
  PROVE  First(S) \in S /\ \A j \in S : First(S) <= j
<1>1. \E x \in S : \A y \in S : ~(<<y, x>> \in OpToRel(<, Nat))
  BY NatLessThanWellFounded, WFMin, Zenon
<1>2. PICK x \in S : \A y \in S : ~(<<y, x>> \in OpToRel(<, Nat))
  BY <1>1
<1>3. ASSUME NEW y \in S PROVE x <= y
  <2>1. ~(<<y, x>> \in OpToRel(<, Nat))
    BY <1>2
  <2>2. x \in Nat /\ y \in Nat
    OBVIOUS
  <2>3. ~(y < x)
    BY <2>1, <2>2 DEF OpToRel
  <2> QED BY <2>2, <2>3
<1> QED BY <1>3 DEF First

(* A first element is the first. *)
LEMMA FirstIs ==
  ASSUME NEW S \in SUBSET Nat, NEW x \in S, \A j \in S : x <= j
  PROVE  First(S) = x
<1>1. First(S) \in S /\ \A j \in S : First(S) <= j
  BY FirstOf
<1>2. First(S) <= x /\ x <= First(S) /\ x \in Nat /\ First(S) \in Nat
  BY <1>1
<1> QED BY <1>2

(* A bounded one has a last one. *)
LEMMA LastOf ==
  ASSUME NEW n \in Nat, NEW S \in SUBSET (1 .. n), S # {}
  PROVE  Last(S) \in S /\ \A j \in S : j <= Last(S)
<1> DEFINE T == {n - i : i \in S}
<1>1. T \in SUBSET Nat /\ T # {}
  <2>1. \A i \in S : i \in Int /\ 1 <= i /\ i <= n
    OBVIOUS
  <2>2. \A i \in S : n - i \in Nat
    BY <2>1
  <2> QED BY <2>2
<1>2. First(T) \in T /\ \A j \in T : First(T) <= j
  BY <1>1, FirstOf
<1>3. PICK x \in S : First(T) = n - x
  BY <1>2
<1>4. ASSUME NEW j \in S PROVE j <= x
  <2>1. n - x <= n - j
    BY <1>2, <1>3
  <2>2. x \in 1 .. n /\ j \in 1 .. n
    OBVIOUS
  <2> QED BY <2>1, <2>2
<1> QED BY <1>4 DEF Last

(* A last element is the last. *)
LEMMA LastIs ==
  ASSUME NEW n \in Nat, NEW S \in SUBSET (1 .. n), NEW x \in S, \A j \in S : j <= x
  PROVE  Last(S) = x
<1>1. Last(S) \in S /\ \A j \in S : j <= Last(S)
  BY LastOf
<1>2. Last(S) <= x /\ x <= Last(S) /\ x \in 1 .. n /\ Last(S) \in 1 .. n
  BY <1>1
<1> QED BY <1>2

(* What SubSeq cuts out. *)
LEMMA Cut ==
  ASSUME NEW s \in Seq(Words), NEW l \in Int, NEW r \in Int, 1 <= l, l <= r + 1, r <= Len(s)
  PROVE  /\ SubSeq(s, l, r) \in Seq(Words) /\ Len(SubSeq(s, l, r)) = r - l + 1
         /\ \A i \in 1 .. r - l + 1 : SubSeq(s, l, r)[i] = s[l + i - 1]
<1>1. \A i \in l .. r : s[i] \in Words
  <2>1. Len(s) \in Nat /\ s \in [1 .. Len(s) -> Words]
    BY LenProperties
  <2> QED BY <2>1
<1> QED BY <1>1, SubSeqProperties

(* Cutting twice is cutting once. *)
LEMMA CutTwice ==
  ASSUME NEW s \in Seq(Words), NEW l \in Int, NEW r \in Int, 1 <= l, l <= r + 1, r <= Len(s),
         NEW m \in Int, NEW n \in Int, 1 <= m, m <= n + 1, n <= r - l + 1
  PROVE  SubSeq(SubSeq(s, l, r), m, n) = SubSeq(s, l + m - 1, l + n - 1)
<1> DEFINE w == SubSeq(s, l, r)
<1>1. w \in Seq(Words) /\ Len(w) = r - l + 1 /\ \A i \in 1 .. r - l + 1 : w[i] = s[l + i - 1]
  BY Cut
<1>2. /\ SubSeq(w, m, n) \in Seq(Words) /\ Len(SubSeq(w, m, n)) = n - m + 1
      /\ \A i \in 1 .. n - m + 1 : SubSeq(w, m, n)[i] = w[m + i - 1]
  BY <1>1, Cut
<1> DEFINE p == l + m - 1
           q == l + n - 1
<1>3. p \in Int /\ q \in Int /\ 1 <= p /\ p <= q + 1 /\ q <= Len(s) /\ q - p = n - m
  <2>1. Len(s) \in Nat
    BY LenProperties
  <2> QED BY <2>1
<1>4. /\ SubSeq(s, p, q) \in Seq(Words) /\ Len(SubSeq(s, p, q)) = q - p + 1
      /\ \A i \in 1 .. q - p + 1 : SubSeq(s, p, q)[i] = s[p + i - 1]
  BY <1>3, Cut
<1>5. ASSUME NEW i \in 1 .. n - m + 1
      PROVE  SubSeq(w, m, n)[i] = SubSeq(s, p, q)[i]
  <2>1. m + i - 1 \in 1 .. r - l + 1 /\ l + (m + i - 1) - 1 = p + i - 1
    OBVIOUS
  <2>2. SubSeq(w, m, n)[i] = w[m + i - 1] /\ w[m + i - 1] = s[p + i - 1]
    BY <1>1, <1>2, <2>1
  <2> QED BY <1>3, <1>4, <2>2
<1> HIDE DEF w, p, q
<1>6. SubSeq(w, m, n) = SubSeq(s, p, q)
  BY <1>2, <1>3, <1>4, <1>5, SeqEqual
<1> QED BY <1>6 DEF w, p, q

(* The places between l and r that hold no blank. *)
Ink(s, l, r) == {i \in l .. r : s[i] # Blank}

(* boost::trim keeps what stands between the first and the last of them. *)
LEMMA TrimCut ==
  ASSUME NEW s \in Seq(Words), NEW l \in Int, NEW r \in Int, 1 <= l, l <= r + 1, r <= Len(s)
  PROVE  Trim(SubSeq(s, l, r)) =
           IF Ink(s, l, r) = {} THEN <<>>
           ELSE SubSeq(s, First(Ink(s, l, r)), Last(Ink(s, l, r)))
<1> DEFINE w == SubSeq(s, l, r)
           k == r - l + 1
           I == Ink(s, l, r)
           K == {i \in DOMAIN w : w[i] # Blank}
<1>1. w \in Seq(Words) /\ Len(w) = k /\ \A i \in 1 .. k : w[i] = s[l + i - 1]
  BY Cut
<1>2. K = {i \in 1 .. k : s[l + i - 1] # Blank}
  BY <1>1, LenProperties
<1> HIDE DEF K, w
<1>3. ASSUME NEW i \in K PROVE l + i - 1 \in I
  <2>1. i \in 1 .. k /\ s[l + i - 1] # Blank
    BY <1>2
  <2>2. l + i - 1 \in l .. r
    BY <2>1
  <2> QED BY <2>1, <2>2 DEF Ink
<1>4. ASSUME NEW j \in I PROVE j - l + 1 \in K
  <2>1. j \in l .. r /\ s[j] # Blank
    BY DEF Ink
  <2> HIDE DEF I
  <2>2. j - l + 1 \in 1 .. k /\ l + (j - l + 1) - 1 = j
    BY <2>1
  <2> QED BY <1>2, <2>1, <2>2
<1>5. Trim(w) = IF K = {} THEN <<>> ELSE SubSeq(w, First(K), Last(K))
  BY DEF Trim, K, Blank
<1>6. CASE I = {}
  <2>1. K = {}
    BY <1>3, <1>6
  <2> QED BY <1>5, <1>6, <2>1 DEF w
<1>7. CASE I # {}
  <2>1. K # {} /\ K \in SUBSET (1 .. k) /\ k \in Nat /\ K \in SUBSET Nat
    <3>1. K # {}
      BY <1>4, <1>7
    <3>2. K \subseteq 1 .. k /\ k \in Nat
      BY <1>2
    <3> QED BY <3>1, <3>2
  <2>2. PICK a \in K, b \in K : a = First(K) /\ b = Last(K) /\ \A i \in K : a <= i /\ i <= b
    <3>1. First(K) \in K /\ \A i \in K : First(K) <= i
      BY <2>1, FirstOf
    <3> HIDE DEF k
    <3>2. Last(K) \in K /\ \A i \in K : i <= Last(K)
      BY <2>1, LastOf
    <3> QED BY <3>1, <3>2
  <2>3. I \in SUBSET (1 .. r) /\ I \in SUBSET Nat
    <3>1. \A i \in l .. r : i \in 1 .. r /\ i \in Nat
      OBVIOUS
    <3> QED BY <3>1 DEF Ink
  <2>4. a \in 1 .. k /\ b \in 1 .. k /\ a <= b
    BY <2>1, <2>2
  <2>5. l + a - 1 \in I /\ l + b - 1 \in I
    BY <1>3
  <2>6. ASSUME NEW j \in I PROVE l + a - 1 <= j /\ j <= l + b - 1
    <3>1. a <= j - l + 1 /\ j - l + 1 <= b
      BY <1>4, <2>2
    <3>2. j \in Nat
      BY <2>3
    <3> HIDE DEF I
    <3> QED BY <2>4, <3>1, <3>2
  <2> HIDE DEF I, K, w
  <2>7. First(I) = l + a - 1
    BY <2>3, <2>5, <2>6, FirstIs
  <2>8. Last(I) = l + b - 1
    <3>1. r \in Nat
      BY <2>4
    <3>2. \A j \in I : j <= l + b - 1
      BY <2>6
    <3> DEFINE y == l + b - 1
    <3>3. y \in I /\ \A j \in I : j <= y
      BY <2>5, <3>2
    <3> HIDE DEF y
    <3>4. Last(I) = y
      BY <2>3, <3>1, <3>3, LastIs
    <3> QED BY <3>4 DEF y
  <2>9. SubSeq(w, a, b) = SubSeq(s, l + a - 1, l + b - 1)
    <3>1. a \in Int /\ b \in Int /\ 1 <= a /\ a <= b + 1 /\ b <= r - l + 1
      BY <2>4
    <3> QED BY <3>1, CutTwice DEF w
  <2> QED BY <1>5, <1>7, <2>1, <2>2, <2>7, <2>8, <2>9 DEF w, I
<1> QED BY <1>6, <1>7

(* Two cuts that differ in blanks at their ends are trimmed to the same. *)
LEMMA TrimSame ==
  ASSUME NEW s \in Seq(Words),
         NEW l \in Int, NEW r \in Int, 1 <= l, l <= r + 1, r <= Len(s),
         NEW m \in Int, NEW n \in Int, 1 <= m, m <= n + 1, l <= m, n <= r,
         \A i \in l .. r : i \notin m .. n => s[i] = Blank
  PROVE  Trim(SubSeq(s, l, r)) = Trim(SubSeq(s, m, n))
<1>1. Ink(s, l, r) = Ink(s, m, n)
  <2>1. \A i \in m .. n : i \in l .. r
    OBVIOUS
  <2>2. \A i : i \in Ink(s, l, r) <=> i \in Ink(s, m, n)
    BY <2>1 DEF Ink
  <2> QED BY <2>2
<1>2. n <= Len(s)
  <2>1. Len(s) \in Nat
    BY LenProperties
  <2> QED BY <2>1
<1> QED BY <1>1, <1>2, TrimCut
-----------------------------------------------------------------------------
(* They are three, and none is another. *)
LEMMA Marks ==
  /\ Blank \in Words /\ Colon \in Words /\ Slash \in Words
  /\ Blank # Colon /\ Blank # Slash /\ Colon # Slash
<1>1. Blank \in Words /\ Colon \in Words /\ Slash \in Words
  BY DEF Words
<1>2. Blank # Colon /\ Blank # Slash /\ Colon # Slash
  BY DEF Blank, Colon, Slash
<1> QED BY <1>1, <1>2

(* What stands where in the URL u made of its parts. *)
Laid(scheme, host, port, path, u, a, e, f) ==
  /\ u \in Seq(Words) /\ a \in Nat /\ e \in Nat /\ f \in Nat /\ Len(u) \in Nat
  /\ 1 <= a /\ a <= e /\ e <= f /\ f <= Len(u) + 1
  /\ scheme = <<>> => a = 1
  /\ scheme # <<>> =>
       /\ a > 4 /\ u[a - 3] = Colon /\ u[a - 2] = Slash /\ u[a - 1] = Slash
       /\ SubSeq(u, 1, a - 4) = scheme
       /\ \A i \in 1 .. a - 4 : u[i] # Colon /\ u[i] # Blank
  /\ SubSeq(u, a, e - 1) = host
  /\ \A i \in a .. e - 1 : u[i] # Colon /\ u[i] # Slash
  /\ port = <<>> => e = f
  /\ port # <<>> => e + 1 < f /\ u[e] = Colon /\ SubSeq(u, e + 1, f - 1) = port
  /\ \A i \in e + 1 .. f - 1 : u[i] # Colon /\ u[i] # Slash
  /\ path = <<>> => f = Len(u) + 1
  /\ path # <<>> => f <= Len(u) /\ u[f] = Slash /\ u[Len(u)] # Blank
  /\ SubSeq(u, f, Len(u)) = path

(* A cut is known by its length and its elements. *)
LEMMA CutIs ==
  ASSUME NEW s \in Seq(Words), NEW t \in Seq(Words), NEW l \in Int, NEW r \in Int, 1 <= l,
         r = l + Len(t) - 1, r <= Len(s), \A i \in 1 .. Len(t) : s[l + i - 1] = t[i]
  PROVE  SubSeq(s, l, r) = t
<1>1. Len(t) \in Nat /\ Len(s) \in Nat
  BY LenProperties
<1>2. l <= r + 1 /\ r - l + 1 = Len(t)
  BY <1>1
<1>3. /\ SubSeq(s, l, r) \in Seq(Words) /\ Len(SubSeq(s, l, r)) = Len(t)
      /\ \A i \in 1 .. Len(t) : SubSeq(s, l, r)[i] = s[l + i - 1]
  BY <1>2, Cut
<1> QED BY <1>3, SeqEqual

(* Joining two sequences. *)
LEMMA Join ==
  ASSUME NEW s \in Seq(Words), NEW t \in Seq(Words)
  PROVE  /\ s \o t \in Seq(Words) /\ Len(s \o t) = Len(s) + Len(t)
         /\ Len(s) \in Nat /\ Len(t) \in Nat
         /\ \A i \in 1 .. Len(s) : (s \o t)[i] = s[i]
         /\ \A i \in 1 .. Len(t) : (s \o t)[Len(s) + i] = t[i]
<1>1. /\ s \o t \in Seq(Words) /\ Len(s \o t) = Len(s) + Len(t)
      /\ \A i \in 1 .. Len(s) + Len(t) :
           (s \o t)[i] = IF i <= Len(s) THEN s[i] ELSE t[i - Len(s)]
  BY ConcatProperties
<1>2. Len(s) \in Nat /\ Len(t) \in Nat
  BY LenProperties
<1>3. ASSUME NEW i \in 1 .. Len(s) PROVE (s \o t)[i] = s[i]
  BY <1>1, <1>2
<1>4. ASSUME NEW i \in 1 .. Len(t) PROVE (s \o t)[Len(s) + i] = t[i]
  <2>1. Len(s) + i \in 1 .. Len(s) + Len(t) /\ ~(Len(s) + i <= Len(s)) /\ Len(s) + i - Len(s) = i
    BY <1>2
  <2> QED BY <1>1, <2>1
<1> QED BY <1>1, <1>2, <1>3, <1>4

(* The parts, in the provers' names. *)
LEMMA Parts ==
  ASSUME NEW p, WellFormed(p)
  PROVE  /\ p.scheme \in Seq(Words) /\ p.host \in Seq(Words)
         /\ p.port \in Seq(Words) /\ p.path \in Seq(Words)
         /\ \A i \in 1 .. Len(p.scheme) : p.scheme[i] # Colon /\ p.scheme[i] # Blank
         /\ \A i \in 1 .. Len(p.host) : p.host[i] # Colon /\ p.host[i] # Slash
         /\ \A i \in 1 .. Len(p.port) : p.port[i] # Colon /\ p.port[i] # Slash
         /\ p.path # <<>> => p.path[1] = Slash /\ p.path[Len(p.path)] # Blank
<1>1. /\ p.scheme \in Seq(Words) /\ p.host \in Seq(Words)
      /\ p.port \in Seq(Words) /\ p.path \in Seq(Words)
  <2>1. /\ p.scheme \in Seq(STRING) /\ p.host \in Seq(STRING)
        /\ p.port \in Seq(STRING) /\ p.path \in Seq(STRING)
    BY Zenon DEF WellFormed
  <2>2. STRING \subseteq Words
    BY Zenon DEF Words
  <2> QED BY <2>1, <2>2, SeqMonotonic, Zenon
<1>2. /\ DOMAIN p.scheme = 1 .. Len(p.scheme) /\ DOMAIN p.host = 1 .. Len(p.host)
      /\ DOMAIN p.port = 1 .. Len(p.port)
  BY <1>1, LenProperties
<1> QED BY <1>1, <1>2, Zenon DEF WellFormed, Colon, Slash, Blank

(* The part before the host. *)
LEMMA BeforeHost ==
  ASSUME NEW t \in Seq(Words), t # <<>>
  PROVE  LET pre == t \o <<":", "/", "/">>
             n == Len(t)
         IN /\ pre \in Seq(Words) /\ n \in Nat \ {0} /\ Len(pre) = n + 3
            /\ \A i \in 1 .. n : pre[i] = t[i]
            /\ pre[n + 1] = Colon /\ pre[n + 2] = Slash /\ pre[n + 3] = Slash
<1> DEFINE sep == <<Colon, Slash, Slash>>
<1>1. sep \in Seq(Words) /\ Len(sep) = 3 /\ sep[1] = Colon /\ sep[2] = Slash /\ sep[3] = Slash
  BY Marks
<1>2. sep = <<":", "/", "/">>
  BY DEF Colon, Slash
<1> HIDE DEF sep
<1>3. /\ t \o sep \in Seq(Words) /\ Len(t \o sep) = Len(t) + Len(sep)
      /\ Len(t) \in Nat /\ \A i \in 1 .. Len(t) : (t \o sep)[i] = t[i]
      /\ \A i \in 1 .. Len(sep) : (t \o sep)[Len(t) + i] = sep[i]
  BY <1>1, Join
<1>4. Len(t) # 0
  BY EmptySeq
<1>5. 1 \in 1 .. 3 /\ 2 \in 1 .. 3 /\ 3 \in 1 .. 3
  OBVIOUS
<1>6. /\ (t \o sep)[Len(t) + 1] = Colon /\ (t \o sep)[Len(t) + 2] = Slash
      /\ (t \o sep)[Len(t) + 3] = Slash
  BY <1>1, <1>3, <1>5
<1> QED BY <1>1, <1>2, <1>3, <1>4, <1>6

(* The part between the host and the path. *)
LEMMA AfterHost ==
  ASSUME NEW t \in Seq(Words), t # <<>>
  PROVE  LET mid == <<":">> \o t
             n == Len(t)
         IN /\ mid \in Seq(Words) /\ n \in Nat \ {0} /\ Len(mid) = n + 1
            /\ mid[1] = Colon /\ \A i \in 1 .. n : mid[i + 1] = t[i]
<1> DEFINE sep == <<Colon>>
<1>1. sep \in Seq(Words) /\ Len(sep) = 1 /\ sep[1] = Colon
  BY Marks
<1>2. sep = <<":">>
  BY DEF Colon
<1> HIDE DEF sep
<1>3. /\ sep \o t \in Seq(Words) /\ Len(sep \o t) = Len(sep) + Len(t)
      /\ Len(t) \in Nat /\ \A i \in 1 .. Len(sep) : (sep \o t)[i] = sep[i]
      /\ \A i \in 1 .. Len(t) : (sep \o t)[Len(sep) + i] = t[i]
  BY <1>1, Join
<1>4. Len(t) # 0
  BY EmptySeq
<1>5. (sep \o t)[1] = Colon
  BY <1>1, <1>3
<1>6. \A i \in 1 .. Len(t) : (sep \o t)[i + 1] = t[i]
  <2>1. \A i \in 1 .. Len(t) : 1 + i = i + 1
    BY <1>3
  <2> QED BY <1>1, <1>3, <2>1
<1> QED BY <1>1, <1>2, <1>3, <1>4, <1>5, <1>6
(* Four parts in a row, and where they begin. *)
RowOf(p1, p2, p3, p4, u, a, e, f) ==
  /\ u \in Seq(Words) /\ a \in Nat /\ e \in Nat /\ f \in Nat /\ Len(u) \in Nat
  /\ 1 <= a /\ a <= e /\ e <= f /\ Len(u) = f + Len(p4) - 1 /\ Len(p4) \in Nat
  /\ \A i \in 1 .. a - 1 : u[i] = p1[i]
  /\ \A i \in 1 .. Len(p2) : u[a + i - 1] = p2[i]
  /\ \A i \in 1 .. f - e : u[e + i - 1] = p3[i]
  /\ \A i \in 1 .. Len(p4) : u[f + i - 1] = p4[i]

(* They are joined so. *)
LEMMA Row ==
  ASSUME NEW p1 \in Seq(Words), NEW p2 \in Seq(Words), NEW p3 \in Seq(Words), NEW p4 \in Seq(Words),
         NEW a, NEW e, NEW f,
         a = Len(p1) + 1, e = a + Len(p2), f = e + Len(p3)
  PROVE  RowOf(p1, p2, p3, p4, p1 \o p2 \o p3 \o p4, a, e, f)
<1> DEFINE v == p1 \o p2
           w == v \o p3
           u == w \o p4
<1>1. /\ v \in Seq(Words) /\ Len(v) = Len(p1) + Len(p2)
      /\ Len(p1) \in Nat /\ Len(p2) \in Nat
      /\ \A i \in 1 .. Len(p1) : v[i] = p1[i]
      /\ \A i \in 1 .. Len(p2) : v[Len(p1) + i] = p2[i]
  BY Join
<1> HIDE DEF v
<1>2. /\ w \in Seq(Words) /\ Len(w) = Len(v) + Len(p3)
      /\ Len(v) \in Nat /\ Len(p3) \in Nat
      /\ \A i \in 1 .. Len(v) : w[i] = v[i]
      /\ \A i \in 1 .. Len(p3) : w[Len(v) + i] = p3[i]
  BY <1>1, Join
<1> HIDE DEF w
<1>3. /\ u \in Seq(Words) /\ Len(u) = Len(w) + Len(p4)
      /\ Len(w) \in Nat /\ Len(p4) \in Nat
      /\ \A i \in 1 .. Len(w) : u[i] = w[i]
      /\ \A i \in 1 .. Len(p4) : u[Len(w) + i] = p4[i]
  BY <1>2, Join
<1> HIDE DEF u
<1>4. /\ a \in Nat /\ e \in Nat /\ f \in Nat /\ Len(u) \in Nat
      /\ Len(p1) = a - 1 /\ Len(p2) = e - a /\ Len(p3) = f - e
      /\ Len(v) = e - 1 /\ Len(w) = f - 1 /\ 1 <= a /\ a <= e /\ e <= f
      /\ Len(u) = f + Len(p4) - 1
  BY <1>1, <1>2, <1>3
<1>5. ASSUME NEW i \in 1 .. a - 1 PROVE u[i] = p1[i]
  <2>1. i \in 1 .. Len(p1) /\ i \in 1 .. Len(v) /\ i \in 1 .. Len(w)
    BY <1>4
  <2> QED BY <1>1, <1>2, <1>3, <2>1
<1>6. ASSUME NEW i \in 1 .. Len(p2) PROVE u[a + i - 1] = p2[i]
  <2>1. /\ Len(p1) + i = a + i - 1 /\ a + i - 1 \in 1 .. Len(v) /\ a + i - 1 \in 1 .. Len(w)
    BY <1>1, <1>4
  <2> QED BY <1>1, <1>2, <1>3, <2>1
<1>7. ASSUME NEW i \in 1 .. f - e PROVE u[e + i - 1] = p3[i]
  <2>1. i \in 1 .. Len(p3) /\ Len(v) + i = e + i - 1 /\ e + i - 1 \in 1 .. Len(w)
    BY <1>2, <1>4
  <2> QED BY <1>2, <1>3, <2>1
<1>8. ASSUME NEW i \in 1 .. Len(p4) PROVE u[f + i - 1] = p4[i]
  <2>1. Len(w) + i = f + i - 1
    BY <1>3, <1>4
  <2> QED BY <1>3, <2>1
<1>9. RowOf(p1, p2, p3, p4, u, a, e, f)
  BY <1>3, <1>4, <1>5, <1>6, <1>7, <1>8 DEF RowOf
<1> QED BY <1>9 DEF u, v, w

(* Render lays the parts out that way. *)
LEMMA PartsLaid ==
  ASSUME NEW scheme \in Seq(Words), NEW host \in Seq(Words),
         NEW port \in Seq(Words), NEW path \in Seq(Words),
         \A i \in 1 .. Len(scheme) : scheme[i] # Colon /\ scheme[i] # Blank,
         \A i \in 1 .. Len(host) : host[i] # Colon /\ host[i] # Slash,
         \A i \in 1 .. Len(port) : port[i] # Colon /\ port[i] # Slash,
         path # <<>> => path[1] = Slash /\ path[Len(path)] # Blank
  PROVE  \E a, e, f :
           Laid(scheme, host, port, path,
                (IF scheme = <<>> THEN <<>> ELSE scheme \o <<":", "/", "/">>)
                \o host \o (IF port = <<>> THEN <<>> ELSE <<":">> \o port) \o path, a, e, f)
<1> DEFINE a == IF scheme = <<>> THEN 1 ELSE Len(scheme) + 4
           e == a + Len(host)
           f == IF port = <<>> THEN e ELSE e + 1 + Len(port)
           pre == IF scheme = <<>> THEN <<>> ELSE scheme \o <<":", "/", "/">>
           mid == IF port = <<>> THEN <<>> ELSE <<":">> \o port
           u == pre \o host \o mid \o path
<1>3. /\ pre \in Seq(Words) /\ a = Len(pre) + 1
      /\ scheme = <<>> => a = 1
      /\ scheme # <<>> =>
           /\ a > 4 /\ Len(scheme) = a - 4 /\ a \in Nat
           /\ \A i \in 1 .. a - 4 : pre[i] = scheme[i]
           /\ pre[a - 3] = Colon /\ pre[a - 2] = Slash /\ pre[a - 1] = Slash
  <2>1. CASE scheme = <<>>
    BY <2>1, EmptySeq
  <2>2. CASE scheme # <<>>
    <3> DEFINE n == Len(scheme)
               x == scheme \o <<":", "/", "/">>
    <3>1. /\ x \in Seq(Words) /\ n \in Nat \ {0} /\ Len(x) = n + 3
          /\ \A i \in 1 .. n : x[i] = scheme[i]
          /\ x[n + 1] = Colon /\ x[n + 2] = Slash /\ x[n + 3] = Slash
      BY <2>2, BeforeHost
    <3>2. pre = x /\ a = n + 4
      BY <2>2
    <3> HIDE DEF x, pre, a, n
    <3>3. /\ a > 4 /\ n = a - 4 /\ a \in Nat /\ n + 1 = a - 3 /\ n + 2 = a - 2 /\ n + 3 = a - 1
          /\ a = Len(x) + 1
      BY <3>1, <3>2
    <3> QED BY <2>2, <3>1, <3>2, <3>3 DEF n
  <2> QED BY <2>1, <2>2
<1>4. /\ mid \in Seq(Words) /\ f = e + Len(mid) /\ Len(mid) \in Nat
      /\ port = <<>> => Len(mid) = 0
      /\ port # <<>> => /\ mid[1] = Colon /\ Len(mid) = Len(port) + 1 /\ Len(port) \in Nat \ {0}
                          /\ \A i \in 1 .. Len(port) : mid[i + 1] = port[i]
  <2>0. e \in Nat
    <3>1. Len(pre) \in Nat /\ Len(host) \in Nat
      BY <1>3, LenProperties
    <3>2. e = a + Len(host) /\ a = Len(pre) + 1
      BY <1>3
    <3> HIDE DEF pre, a, e
    <3> QED BY <3>1, <3>2
  <2>1. CASE port = <<>>
    BY <2>0, <2>1, EmptySeq
  <2>2. CASE port # <<>>
    <3> DEFINE n == Len(port)
               x == <<":">> \o port
    <3>1. /\ x \in Seq(Words) /\ n \in Nat \ {0} /\ Len(x) = n + 1
          /\ x[1] = Colon /\ \A i \in 1 .. n : x[i + 1] = port[i]
      BY <2>2, AfterHost
    <3>2. mid = x /\ f = e + 1 + n
      BY <2>2
    <3> HIDE DEF x, mid, f, e, n
    <3>3. f = e + Len(x)
      BY <2>0, <3>1, <3>2
    <3> QED BY <2>2, <3>1, <3>2, <3>3 DEF n
  <2> QED BY <2>1, <2>2
<1>5. e = a + Len(host)
  OBVIOUS
<1> HIDE DEF pre, mid, a, e, f, u
<1>6. /\ u \in Seq(Words) /\ a \in Nat /\ e \in Nat /\ f \in Nat /\ Len(u) \in Nat
      /\ 1 <= a /\ a <= e /\ e <= f /\ Len(u) = f + Len(path) - 1 /\ Len(path) \in Nat
      /\ \A i \in 1 .. a - 1 : u[i] = pre[i]
      /\ \A i \in 1 .. Len(host) : u[a + i - 1] = host[i]
      /\ \A i \in 1 .. f - e : u[e + i - 1] = mid[i]
      /\ \A i \in 1 .. Len(path) : u[f + i - 1] = path[i]
  <2>1. pre \in Seq(Words) /\ mid \in Seq(Words) /\ a = Len(pre) + 1 /\ f = e + Len(mid)
    BY <1>3, <1>4
  <2>2. RowOf(pre, host, mid, path, u, a, e, f)
    BY <1>5, <2>1, Row DEF u
  <2> QED BY <2>2 DEF RowOf
<1>7. /\ scheme = <<>> => a = 1
      /\ scheme # <<>> =>
           /\ a > 4 /\ u[a - 3] = Colon /\ u[a - 2] = Slash /\ u[a - 1] = Slash
           /\ SubSeq(u, 1, a - 4) = scheme
           /\ \A i \in 1 .. a - 4 : u[i] # Colon /\ u[i] # Blank
  <2> SUFFICES ASSUME scheme # <<>>
               PROVE  /\ a > 4 /\ u[a - 3] = Colon /\ u[a - 2] = Slash /\ u[a - 1] = Slash
                      /\ SubSeq(u, 1, a - 4) = scheme
                      /\ \A i \in 1 .. a - 4 : u[i] # Colon /\ u[i] # Blank
    BY <1>3
  <2>1. a > 4 /\ Len(scheme) = a - 4
    BY <1>3
  <2>2. a - 3 \in 1 .. a - 1 /\ a - 2 \in 1 .. a - 1 /\ a - 1 \in 1 .. a - 1
    BY <1>6, <2>1
  <2>3. u[a - 3] = Colon /\ u[a - 2] = Slash /\ u[a - 1] = Slash
    BY <1>3, <1>6, <2>2
  <2>4. ASSUME NEW i \in 1 .. a - 4 PROVE u[i] = scheme[i]
    <3>1. i \in 1 .. a - 1
      BY <1>6
    <3> QED BY <1>3, <1>6, <3>1
  <2>5. SubSeq(u, 1, a - 4) = scheme
    <3>1. a - 4 <= Len(u) /\ a - 4 = 1 + Len(scheme) - 1 /\ a - 4 \in Int
      BY <1>6, <2>1
    <3>2. \A i \in 1 .. Len(scheme) : u[1 + i - 1] = scheme[i]
      BY <2>1, <2>4
    <3> QED BY <1>6, <3>1, <3>2, CutIs
  <2> QED BY <2>1, <2>3, <2>4, <2>5
<1>8. /\ SubSeq(u, a, e - 1) = host
      /\ \A i \in a .. e - 1 : u[i] # Colon /\ u[i] # Slash
  <2>1. e - 1 \in Int /\ e - 1 = a + Len(host) - 1 /\ e - 1 <= Len(u)
    BY <1>5, <1>6
  <2>2. SubSeq(u, a, e - 1) = host
    BY <1>6, <2>1, CutIs
  <2>3. ASSUME NEW i \in a .. e - 1 PROVE u[i] # Colon /\ u[i] # Slash
    <3>1. i - a + 1 \in 1 .. Len(host) /\ a + (i - a + 1) - 1 = i
      BY <1>6, <2>1, LenProperties
    <3>2. u[a + (i - a + 1) - 1] = host[i - a + 1]
      BY <1>6, <3>1
    <3> QED BY <3>1, <3>2
  <2> QED BY <2>2, <2>3
<1>9. /\ port = <<>> => e = f
      /\ port # <<>> => e + 1 < f /\ u[e] = Colon /\ SubSeq(u, e + 1, f - 1) = port
      /\ \A i \in e + 1 .. f - 1 : u[i] # Colon /\ u[i] # Slash
  <2>1. CASE port = <<>>
    BY <1>4, <1>6, <2>1
  <2>2. CASE port # <<>>
    <3>0. Len(mid) = Len(port) + 1 /\ Len(port) \in Nat \ {0} /\ f = e + Len(mid)
      BY <1>4, <2>2
    <3>1. Len(port) = f - e - 1 /\ e + 1 < f /\ f - 1 <= Len(u)
      BY <1>6, <3>0
    <3>2. u[e] = Colon
      <4>1. 1 \in 1 .. f - e /\ e + 1 - 1 = e
        BY <1>6, <3>1
      <4>2. u[e + 1 - 1] = mid[1]
        BY <1>6, <4>1
      <4> QED BY <1>4, <2>2, <4>1, <4>2
    <3>3. ASSUME NEW i \in 1 .. Len(port) PROVE u[(e + 1) + i - 1] = port[i]
      <4>1. i + 1 \in 1 .. f - e /\ e + (i + 1) - 1 = (e + 1) + i - 1
        BY <1>6, <3>1
      <4>2. u[e + (i + 1) - 1] = mid[i + 1]
        BY <1>6, <4>1
      <4> QED BY <1>4, <2>2, <4>1, <4>2
    <3>4. SubSeq(u, e + 1, f - 1) = port
      <4>1. e + 1 \in Int /\ f - 1 \in Int /\ 1 <= e + 1 /\ f - 1 = (e + 1) + Len(port) - 1
        BY <1>6, <3>1
      <4> QED BY <1>6, <3>1, <3>3, <4>1, CutIs
    <3>5. ASSUME NEW i \in e + 1 .. f - 1 PROVE u[i] # Colon /\ u[i] # Slash
      <4>1. i - e \in 1 .. Len(port) /\ (e + 1) + (i - e) - 1 = i
        BY <1>6, <3>1
      <4> QED BY <3>3, <4>1
    <3> QED BY <2>2, <3>1, <3>2, <3>4, <3>5
  <2> QED BY <2>1, <2>2
<1>10. /\ path = <<>> => f = Len(u) + 1
       /\ path # <<>> => f <= Len(u) /\ u[f] = Slash /\ u[Len(u)] # Blank
       /\ SubSeq(u, f, Len(u)) = path
  <2>1. path = <<>> => f = Len(u) + 1
    BY <1>6, EmptySeq
  <2>2. ASSUME path # <<>> PROVE f <= Len(u) /\ u[f] = Slash /\ u[Len(u)] # Blank
    <3>1. Len(path) \in Nat \ {0}
      BY <2>2, EmptySeq
    <3>2. /\ 1 \in 1 .. Len(path) /\ Len(path) \in 1 .. Len(path)
          /\ f + 1 - 1 = f /\ f + Len(path) - 1 = Len(u) /\ f <= Len(u)
      BY <1>6, <3>1
    <3>3. u[f + 1 - 1] = path[1] /\ u[f + Len(path) - 1] = path[Len(path)]
      BY <1>6, <3>2
    <3> QED BY <2>2, <3>2, <3>3
  <2>3. SubSeq(u, f, Len(u)) = path
    <3>1. Len(u) \in Int /\ f \in Int /\ Len(u) <= Len(u)
      BY <1>6
    <3> QED BY <1>6, <3>1, CutIs
  <2> QED BY <2>1, <2>2, <2>3
<1>11. f <= Len(u) + 1
  BY <1>6
<1>12. Laid(scheme, host, port, path, u, a, e, f)
  BY <1>6, <1>7, <1>8, <1>9, <1>10, <1>11 DEF Laid
<1> QED BY <1>12 DEF u, pre, mid

(* So a URL made of well-formed parts is laid out. *)
LEMMA RenderLaid ==
  ASSUME NEW p, WellFormed(p)
  PROVE  \E a, e, f : Laid(p.scheme, p.host, p.port, p.path, Render(p), a, e, f)
BY Parts, PartsLaid, Zenon DEF Render, NoScheme, NoPort

-----------------------------------------------------------------------------
(* What parseUrl makes of what it has cut out. *)
Result(scheme, host, ports, path, tlsSchemes) ==
  LET standard == IF scheme \in tlsSchemes THEN 443 ELSE 80
  IN IF host = <<>> THEN {}
     ELSE {[scheme |-> scheme, host |-> host, path |-> path,
            port |-> IF n = 0 THEN standard ELSE n] : n \in ports}

(* That is what it does. *)
LEMMA ParseResult ==
  ASSUME NEW url, NEW default, NEW tlsSchemes
  PROVE  LET s     == Trim(url)
             start == IF SchemeMarks(s) = {} THEN 1 ELSE First(SchemeMarks(s)) + 3
             slash == Find(s, "/", start)
             end   == HostEnd(Find(s, ":", start), slash)
         IN ParseUrl(url, default, tlsSchemes) =
              Result(IF SchemeMarks(s) = {} THEN <<default>> ELSE Lower(SubSeq(s, 1, start - 4)),
                     Trim(SubSeq(s, start, end - 1)),
                     IF end = slash THEN {0} ELSE Stoi(SubSeq(s, end + 1, slash - 1)),
                     IF slash > Len(s) THEN <<"/">> ELSE SubSeq(s, slash, Len(s)), tlsSchemes)
BY Zenon DEF ParseUrl, Result

(* ... of s, cut at a, e and f, and of the parts of a URL. *)
CutsResult(s, a, e, f, default, tlsSchemes) ==
  Result(IF SchemeMarks(s) = {} THEN <<default>> ELSE Lower(SubSeq(s, 1, a - 4)),
         Trim(SubSeq(s, a, e - 1)),
         IF e = f THEN {0} ELSE Stoi(SubSeq(s, e + 1, f - 1)),
         IF f > Len(s) THEN <<"/">> ELSE SubSeq(s, f, Len(s)), tlsSchemes)

PartsResult(scheme, host, port, path, default, tlsSchemes) ==
  Result(IF scheme = <<>> THEN <<default>> ELSE Lower(scheme), Trim(host),
         IF port = <<>> THEN {0} ELSE Stoi(port),
         IF path = <<>> THEN <<"/">> ELSE path, tlsSchemes)

(* find() ends at the first occurrence, ... *)
LEMMA FindIs ==
  ASSUME NEW s \in Seq(Words), NEW c, NEW from \in Int, NEW x \in Int, 1 <= from, from <= x,
         x <= Len(s) + 1, \A i \in from .. x - 1 : s[i] # c, x <= Len(s) => s[x] = c
  PROVE  Find(s, c, from) = x
<1> DEFINE S == {i \in from .. Len(s) : s[i] = c} \cup {Len(s) + 1}
<1>1. Len(s) \in Nat
  BY LenProperties
<1>2. S \in SUBSET Nat
  BY <1>1
<1>3. x \in S
  BY <1>1
<1>4. ASSUME NEW j \in S PROVE x <= j
  BY <1>1
<1>5. First(S) = x
  <2> HIDE DEF S
  <2> QED BY <1>2, <1>3, <1>4, FirstIs
<1> QED BY <1>5 DEF Find

(* ... and not before what it does not find. *)
LEMMA FindBeyond ==
  ASSUME NEW s \in Seq(Words), NEW c, NEW from \in Int, NEW x \in Int, 1 <= from, from <= x,
         x <= Len(s) + 1, \A i \in from .. x - 1 : s[i] # c
  PROVE  Find(s, c, from) \in Nat /\ x <= Find(s, c, from)
<1> DEFINE S == {i \in from .. Len(s) : s[i] = c} \cup {Len(s) + 1}
<1>1. Len(s) \in Nat
  BY LenProperties
<1>2. S \in SUBSET Nat /\ S # {}
  BY <1>1
<1>3. ASSUME NEW j \in S PROVE x <= j
  BY <1>1
<1>4. First(S) \in S
  <2> HIDE DEF S
  <2> QED BY <1>2, FirstOf
<1>5. First(S) \in Nat /\ x <= First(S)
  BY <1>2, <1>3, <1>4
<1> QED BY <1>5 DEF Find

(* parseUrl cuts at a, e and f, if the first "://" ends before a, no ':' or *)
(* '/' stands between a and f but a ':' at e, and the first '/' is at f.    *)
LEMMA ParseCuts ==
  ASSUME NEW url, NEW s \in Seq(Words), Trim(url) = s, NEW default, NEW tlsSchemes,
         NEW a \in Int, NEW e \in Int, NEW f \in Int,
         1 <= a, a <= e, e <= f, f <= Len(s) + 1,
         \A i \in a .. e - 1 : s[i] # Colon /\ s[i] # Slash,
         \A i \in e + 1 .. f - 1 : s[i] # Colon /\ s[i] # Slash,
         e < f => s[e] = Colon, f <= Len(s) => s[f] = Slash,
         IF SchemeMarks(s) = {} THEN a = 1 ELSE a = First(SchemeMarks(s)) + 3
  PROVE  ParseUrl(url, default, tlsSchemes) = CutsResult(s, a, e, f, default, tlsSchemes)
<1>0. Len(s) \in Nat
  BY LenProperties
<1>1. Find(s, Slash, a) = f
  <2>1. ASSUME NEW i \in a .. f - 1 PROVE s[i] # Slash
    <3>1. i \in a .. e - 1 \/ i = e \/ i \in e + 1 .. f - 1
      OBVIOUS
    <3>2. i = e => e < f
      OBVIOUS
    <3> QED BY <3>1, <3>2, Marks
  <2>2. a <= f
    OBVIOUS
  <2> QED BY <2>1, <2>2, FindIs
<1>2. HostEnd(Find(s, Colon, a), f) = e
  <2>1. CASE e < f
    <3>1. Find(s, Colon, a) = e
      <4>1. e <= Len(s) + 1
        BY <1>0
      <4> QED BY <2>1, <4>1, FindIs
    <3> QED BY <2>1, <3>1 DEF HostEnd
  <2>2. CASE e = f
    <3>1. Find(s, Colon, a) \in Nat /\ f <= Find(s, Colon, a)
      BY <2>2, FindBeyond
    <3> QED BY <2>2, <3>1 DEF HostEnd
  <2> QED BY <2>1, <2>2
<1>3. Slash = "/" /\ Colon = ":"
  BY DEF Slash, Colon
<1> DEFINE start == IF SchemeMarks(s) = {} THEN 1 ELSE First(SchemeMarks(s)) + 3
           slash == Find(s, "/", start)
           end == HostEnd(Find(s, ":", start), slash)
<1>4. ParseUrl(url, default, tlsSchemes) =
        Result(IF SchemeMarks(s) = {} THEN <<default>> ELSE Lower(SubSeq(s, 1, start - 4)),
               Trim(SubSeq(s, start, end - 1)),
               IF end = slash THEN {0} ELSE Stoi(SubSeq(s, end + 1, slash - 1)),
               IF slash > Len(s) THEN <<"/">> ELSE SubSeq(s, slash, Len(s)), tlsSchemes)
  BY ParseResult
<1>5. start = a
  OBVIOUS
<1>6. slash = f
  BY <1>1, <1>3, <1>5
<1>7. end = e
  BY <1>2, <1>3, <1>5, <1>6
<1> HIDE DEF start, slash, end
<1> QED BY <1>4, <1>5, <1>6, <1>7 DEF CutsResult

(* A "://" is three characters. *)
LEMMA MarkAt ==
  ASSUME NEW s \in Seq(Words), NEW i \in 1 .. Len(s) - 2
  PROVE  i \in SchemeMarks(s) <=> s[i] = Colon /\ s[i + 1] = Slash /\ s[i + 2] = Slash
<1> DEFINE t == SubSeq(s, i, i + 2)
           sep == <<Colon, Slash, Slash>>
<1>0. Len(s) \in Nat
  BY LenProperties
<1>1. t \in Seq(Words) /\ Len(t) = 3 /\ t[1] = s[i] /\ t[2] = s[i + 1] /\ t[3] = s[i + 2]
  <2>1. i \in Int /\ i + 2 \in Int /\ 1 <= i /\ i <= (i + 2) + 1 /\ i + 2 <= Len(s)
    BY <1>0
  <2>2. /\ t \in Seq(Words) /\ Len(t) = (i + 2) - i + 1
        /\ \A j \in 1 .. (i + 2) - i + 1 : t[j] = s[i + j - 1]
    BY <2>1, Cut
  <2>3. (i + 2) - i + 1 = 3 /\ i + 1 - 1 = i /\ i + 2 - 1 = i + 1 /\ i + 3 - 1 = i + 2
        /\ 1 \in 1 .. 3 /\ 2 \in 1 .. 3 /\ 3 \in 1 .. 3
    OBVIOUS
  <2> HIDE DEF t
  <2> QED BY <2>2, <2>3
<1>2. sep \in Seq(Words) /\ Len(sep) = 3 /\ sep[1] = Colon /\ sep[2] = Slash /\ sep[3] = Slash
  BY Marks
<1> HIDE DEF t, sep
<1>3. t = sep <=> t[1] = sep[1] /\ t[2] = sep[2] /\ t[3] = sep[3]
  <2>1. \A j \in 1 .. 3 : j = 1 \/ j = 2 \/ j = 3
    OBVIOUS
  <2>2. t[1] = sep[1] /\ t[2] = sep[2] /\ t[3] = sep[3] => \A j \in 1 .. 3 : t[j] = sep[j]
    BY <2>1
  <2> QED BY <1>1, <1>2, <2>2, SeqEqual
<1>4. i \in SchemeMarks(s) <=> t = sep
  BY DEF SchemeMarks, t, sep, Colon, Slash
<1> QED BY <1>1, <1>2, <1>3, <1>4

(* A window, outside of which u holds only blanks. *)
Window(u, x, y) ==
  /\ x \in Int /\ y \in Int /\ 1 <= x /\ x <= y + 1 /\ y <= Len(u)
  /\ \A i \in 1 .. Len(u) : u[i] # Blank => x <= i /\ i <= y

(* boost::trim cuts one out. *)
LEMMA TrimWindow ==
  ASSUME NEW u \in Seq(Words)
  PROVE  \E x, y : Window(u, x, y) /\ Trim(u) = SubSeq(u, x, y)
<1> DEFINE I == Ink(u, 1, Len(u))
<1>0. Len(u) \in Nat /\ I \in SUBSET (1 .. Len(u)) /\ I \in SUBSET Nat
  BY LenProperties DEF Ink
<1>1. Trim(u) = IF I = {} THEN <<>> ELSE SubSeq(u, First(I), Last(I))
  BY LenProperties DEF Trim, Ink, Blank
<1>2. CASE I = {}
  <2>1. Window(u, 1, 0)
    BY <1>0, <1>2 DEF Window, Ink
  <2>2. SubSeq(u, 1, 0) = <<>>
    BY SubSeqEmpty
  <2> QED BY <1>1, <1>2, <2>1, <2>2
<1>3. CASE I # {}
  <2>1. First(I) \in I /\ \A j \in I : First(I) <= j
    BY <1>0, <1>3, FirstOf
  <2>2. Last(I) \in I /\ \A j \in I : j <= Last(I)
    BY <1>0, <1>3, LastOf
  <2>3. First(I) \in 1 .. Len(u) /\ Last(I) \in 1 .. Len(u) /\ First(I) <= Last(I)
    BY <1>0, <2>1, <2>2
  <2>4. \A i \in 1 .. Len(u) : u[i] # Blank => i \in I
    BY DEF Ink
  <2> HIDE DEF I
  <2>5. Window(u, First(I), Last(I))
    BY <1>0, <2>1, <2>2, <2>3, <2>4 DEF Window
  <2> QED BY <1>1, <1>3, <2>5
<1> QED BY <1>2, <1>3

(* Where parseUrl cuts in the window: at a, e and f, or at its ends. *)
Cuts(scheme, port, path, a, e, f, x, y, A, E, F) ==
  /\ A = (IF scheme = <<>> THEN x ELSE a) /\ F = (IF path = <<>> THEN y + 1 ELSE f)
  /\ E = (IF port = <<>> THEN F ELSE e)

(* The cuts lie in the window and in order, with only blanks cut away. *)
LEMMA WindowCuts ==
  ASSUME NEW scheme, NEW host, NEW port, NEW path, NEW u, NEW a, NEW e, NEW f,
         Laid(scheme, host, port, path, u, a, e, f), NEW x, NEW y, Window(u, x, y),
         NEW A, NEW E, NEW F, Cuts(scheme, port, path, a, e, f, x, y, A, E, F)
  PROVE  /\ A \in Int /\ E \in Int /\ F \in Int /\ x <= A /\ A <= E /\ E <= F /\ F <= y + 1
         /\ a <= A /\ E <= e /\ F <= f
         /\ scheme # <<>> => x = 1 /\ A = a /\ a - 1 <= y
         /\ path # <<>> => y = Len(u)
<1>1. /\ u \in Seq(Words) /\ a \in Nat /\ e \in Nat /\ f \in Nat /\ Len(u) \in Nat
      /\ 1 <= a /\ a <= e /\ e <= f /\ f <= Len(u) + 1
  BY DEF Laid
<1>2. x \in Int /\ y \in Int /\ 1 <= x /\ x <= y + 1 /\ y <= Len(u)
  BY DEF Window
<1>3. ASSUME NEW i \in 1 .. Len(u), u[i] # Blank PROVE x <= i /\ i <= y
  BY <1>3 DEF Window
<1>4. ASSUME scheme # <<>> PROVE x = 1 /\ a - 1 <= y /\ A = a /\ a > 4
  <2>1. a > 4 /\ u[a - 1] = Slash /\ \A i \in 1 .. a - 4 : u[i] # Blank
    BY <1>4 DEF Laid
  <2>2. a - 1 \in 1 .. Len(u) /\ 1 \in 1 .. Len(u) /\ 1 \in 1 .. a - 4
    BY <1>1, <2>1
  <2>3. x <= 1 /\ a - 1 <= y
    BY <1>3, <2>1, <2>2, Marks
  <2> QED BY <1>2, <1>4, <2>1, <2>3 DEF Cuts
<1>5. scheme = <<>> => a = 1 /\ A = x
  BY DEF Laid, Cuts
<1>6. ASSUME port # <<>> PROVE e < f /\ x <= e /\ e <= y /\ E = e
  <2>1. e + 1 < f /\ u[e] = Colon
    BY <1>6 DEF Laid
  <2>2. e \in 1 .. Len(u)
    BY <1>1, <2>1
  <2> QED BY <1>1, <1>3, <1>6, <2>1, <2>2, Marks DEF Cuts
<1>7. port = <<>> => e = f /\ E = F
  BY DEF Laid, Cuts
<1>8. ASSUME path # <<>> PROVE x <= f /\ f <= y /\ y = Len(u) /\ F = f
  <2>1. f <= Len(u) /\ u[f] = Slash /\ u[Len(u)] # Blank
    BY <1>8 DEF Laid
  <2>2. f \in 1 .. Len(u) /\ Len(u) \in 1 .. Len(u)
    BY <1>1, <2>1
  <2>3. x <= f /\ f <= y /\ Len(u) <= y
    BY <1>3, <2>1, <2>2, Marks
  <2> QED BY <1>1, <1>2, <1>8, <2>3 DEF Cuts
<1>9. path = <<>> => f = Len(u) + 1 /\ F = y + 1
  BY DEF Laid, Cuts
<1> QED BY <1>1, <1>2, <1>4, <1>5, <1>6, <1>7, <1>8, <1>9

(* In the window the first "://" is the one after the scheme, if any. *)
LEMMA WindowMarks ==
  ASSUME NEW scheme, NEW host, NEW port, NEW path, NEW u, NEW a, NEW e, NEW f,
         Laid(scheme, host, port, path, u, a, e, f), NEW x, NEW y, Window(u, x, y),
         scheme = <<>> => SchemeMarks(path) = {}
  PROVE  LET marks == SchemeMarks(SubSeq(u, x, y))
         IN /\ scheme = <<>> => marks = {}
            /\ scheme # <<>> => marks # {} /\ First(marks) + 3 = a
<1> DEFINE s == SubSeq(u, x, y)
<1>1. /\ u \in Seq(Words) /\ a \in Nat /\ e \in Nat /\ f \in Nat /\ Len(u) \in Nat
      /\ 1 <= a /\ a <= e /\ e <= f /\ f <= Len(u) + 1
      /\ \A i \in a .. e - 1 : u[i] # Colon
      /\ \A i \in e + 1 .. f - 1 : u[i] # Colon /\ u[i] # Slash
  BY DEF Laid
<1>2. x \in Int /\ y \in Int /\ 1 <= x /\ x <= y + 1 /\ y <= Len(u)
  BY DEF Window
<1>3. s \in Seq(Words) /\ Len(s) = y - x + 1 /\ \A i \in 1 .. y - x + 1 : s[i] = u[x + i - 1]
  BY <1>1, <1>2, Cut
<1> HIDE DEF s
<1>4. ASSUME NEW i \in SchemeMarks(s)
      PROVE  LET j == x + i - 1
             IN /\ i \in 1 .. Len(s) - 2 /\ j \in Nat /\ 1 <= j /\ j + 2 <= Len(u)
                /\ u[j] = Colon /\ u[j + 1] = Slash /\ u[j + 2] = Slash
  <2>1. i \in 1 .. Len(s) - 2
    BY DEF SchemeMarks
  <2>2. s[i] = Colon /\ s[i + 1] = Slash /\ s[i + 2] = Slash
    BY <1>3, <2>1, MarkAt
  <2>3. /\ i \in 1 .. y - x + 1 /\ i + 1 \in 1 .. y - x + 1 /\ i + 2 \in 1 .. y - x + 1
        /\ x + (i + 1) - 1 = (x + i - 1) + 1 /\ x + (i + 2) - 1 = (x + i - 1) + 2
        /\ x + i - 1 \in Nat /\ 1 <= x + i - 1 /\ (x + i - 1) + 2 <= Len(u)
    BY <1>1, <1>2, <1>3, <2>1
  <2>4. /\ u[x + i - 1] = s[i] /\ u[(x + i - 1) + 1] = s[i + 1] /\ u[(x + i - 1) + 2] = s[i + 2]
    BY <1>3, <2>3
  <2> QED BY <2>1, <2>2, <2>3, <2>4
<1>5. ASSUME scheme = <<>> PROVE SchemeMarks(s) = {}
  <2> SUFFICES ASSUME NEW i \in SchemeMarks(s) PROVE FALSE
    OBVIOUS
  <2> DEFINE j == x + i - 1
  <2>1. /\ j \in Nat /\ 1 <= j /\ j + 2 <= Len(u)
        /\ u[j] = Colon /\ u[j + 1] = Slash /\ u[j + 2] = Slash
    BY <1>4
  <2> HIDE DEF j
  <2>2. a = 1
    BY <1>5 DEF Laid
  <2>3. ~(j < e)
    <3>1. j < e => j \in a .. e - 1
      BY <1>1, <2>1, <2>2
    <3> QED BY <1>1, <2>1, <3>1
  <2>4. ~(j > e /\ j < f)
    <3>1. j > e /\ j < f => j \in e + 1 .. f - 1
      BY <1>1, <2>1
    <3> QED BY <1>1, <2>1, <3>1
  <2>5. ~(j = e /\ j < f)
    <3>1. port = <<>> => e = f
      BY DEF Laid
    <3>2. port # <<>> => e + 1 < f
      BY DEF Laid
    <3>3. j = e /\ j < f => j + 1 \in e + 1 .. f - 1
      BY <1>1, <2>1, <3>1, <3>2
    <3> QED BY <1>1, <2>1, <3>3
  <2>6. j >= f
    BY <1>1, <2>1, <2>3, <2>4, <2>5
  <2> DEFINE i0 == j - f + 1
  <2>7. SubSeq(u, f, Len(u)) = path
    BY DEF Laid
  <2>8. f \in Int /\ Len(u) \in Int /\ 1 <= f /\ f <= Len(u) + 1 /\ Len(u) <= Len(u)
    BY <1>1
  <2>9. /\ path \in Seq(Words) /\ Len(path) = Len(u) - f + 1
        /\ \A k \in 1 .. Len(u) - f + 1 : path[k] = u[f + k - 1]
    BY <1>1, <2>7, <2>8, Cut
  <2>10. /\ i0 \in 1 .. Len(path) - 2 /\ i0 + 1 \in 1 .. Len(path) /\ i0 + 2 \in 1 .. Len(path)
         /\ f + i0 - 1 = j /\ f + (i0 + 1) - 1 = j + 1 /\ f + (i0 + 2) - 1 = j + 2
         /\ i0 \in 1 .. Len(path)
    BY <1>1, <2>1, <2>6, <2>9
  <2> HIDE DEF i0
  <2>11. path[i0] = Colon /\ path[i0 + 1] = Slash /\ path[i0 + 2] = Slash
    BY <2>1, <2>9, <2>10
  <2>12. i0 \in SchemeMarks(path)
    BY <2>9, <2>10, <2>11, MarkAt
  <2> QED BY <1>5, <2>12
<1>6. ASSUME scheme # <<>> PROVE SchemeMarks(s) # {} /\ First(SchemeMarks(s)) + 3 = a
  <2>1. /\ a > 4 /\ u[a - 3] = Colon /\ u[a - 2] = Slash /\ u[a - 1] = Slash
        /\ \A i \in 1 .. a - 4 : u[i] # Colon /\ u[i] # Blank
    BY <1>6 DEF Laid
  <2>2. x = 1 /\ a - 1 <= y
    <3>1. a - 1 \in 1 .. Len(u) /\ 1 \in 1 .. Len(u) /\ 1 \in 1 .. a - 4
      BY <1>1, <2>1
    <3>2. x <= 1 /\ a - 1 <= y
      BY <2>1, <3>1, Marks DEF Window
    <3> QED BY <1>2, <3>2
  <2> DEFINE m == a - 3
  <2>3. m \in SchemeMarks(s)
    <3>1. /\ m \in 1 .. Len(s) - 2 /\ m \in 1 .. y - x + 1 /\ m + 1 \in 1 .. y - x + 1
          /\ m + 2 \in 1 .. y - x + 1
          /\ x + m - 1 = a - 3 /\ x + (m + 1) - 1 = a - 2 /\ x + (m + 2) - 1 = a - 1
      BY <1>1, <1>2, <1>3, <2>1, <2>2
    <3> HIDE DEF m
    <3>2. s[m] = Colon /\ s[m + 1] = Slash /\ s[m + 2] = Slash
      BY <1>3, <2>1, <3>1
    <3> QED BY <1>3, <3>1, <3>2, MarkAt
  <2>4. ASSUME NEW i \in SchemeMarks(s) PROVE m <= i
    <3>1. i \in 1 .. Len(s) - 2 /\ x + i - 1 = i /\ u[x + i - 1] = Colon
      BY <1>2, <1>3, <1>4, <2>2
    <3>2. i \in Int /\ 1 <= i
      BY <1>2, <1>3, <3>1
    <3>3. i < m => i \in 1 .. a - 4
      BY <1>1, <3>2
    <3> QED BY <1>1, <2>1, <3>1, <3>2, <3>3
  <2>5. SchemeMarks(s) \in SUBSET Nat
    BY <1>2, <1>3 DEF SchemeMarks
  <2> HIDE DEF m
  <2>6. First(SchemeMarks(s)) = m
    BY <2>3, <2>4, <2>5, FirstIs
  <2> QED BY <1>1, <2>3, <2>6 DEF m
<1> QED BY <1>5, <1>6 DEF s

(* The reference, written with what parseUrl makes of its cuts. *)
LEMMA MeaningResult ==
  ASSUME NEW p, NEW default, NEW tlsSchemes
  PROVE  Meaning(p, default, tlsSchemes) =
           PartsResult(p.scheme, p.host, p.port, p.path, default, tlsSchemes)
BY Zenon DEF Meaning, Result, PartsResult, NoScheme, NoPort

(* A laid out URL is cut into its parts. *)
LEMMA LaidParsed ==
  ASSUME NEW scheme, NEW host, NEW port, NEW path, NEW u, NEW a, NEW e, NEW f,
         Laid(scheme, host, port, path, u, a, e, f),
         scheme = <<>> => SchemeMarks(path) = {}, NEW default, NEW tlsSchemes
  PROVE  ParseUrl(u, default, tlsSchemes) =
           PartsResult(scheme, host, port, path, default, tlsSchemes)
<1>1. /\ u \in Seq(Words) /\ a \in Nat /\ e \in Nat /\ f \in Nat /\ Len(u) \in Nat
      /\ 1 <= a /\ a <= e /\ e <= f /\ f <= Len(u) + 1
      /\ \A i \in a .. e - 1 : u[i] # Colon /\ u[i] # Slash
      /\ \A i \in e + 1 .. f - 1 : u[i] # Colon /\ u[i] # Slash
  BY DEF Laid
<1>2. PICK x, y : Window(u, x, y) /\ Trim(u) = SubSeq(u, x, y)
  BY <1>1, TrimWindow
<1> DEFINE A == IF scheme = <<>> THEN x ELSE a
           F == IF path = <<>> THEN y + 1 ELSE f
           E == IF port = <<>> THEN F ELSE e
           s == SubSeq(u, x, y)
<1>3. /\ A \in Int /\ E \in Int /\ F \in Int /\ x <= A /\ A <= E /\ E <= F /\ F <= y + 1
      /\ a <= A /\ E <= e /\ F <= f
      /\ scheme # <<>> => x = 1 /\ A = a /\ a - 1 <= y
      /\ path # <<>> => y = Len(u)
  <2>1. Cuts(scheme, port, path, a, e, f, x, y, A, E, F)
    BY DEF Cuts
  <2> HIDE DEF A, E, F
  <2> QED BY <1>2, <2>1, WindowCuts
<1>4. x \in Int /\ y \in Int /\ 1 <= x /\ x <= y + 1 /\ y <= Len(u)
  BY <1>2 DEF Window
<1>5. s \in Seq(Words) /\ Len(s) = y - x + 1 /\ \A i \in 1 .. y - x + 1 : s[i] = u[x + i - 1]
  BY <1>1, <1>4, Cut
<1>6. /\ scheme = <<>> => SchemeMarks(s) = {} /\ A = x
      /\ scheme # <<>> => SchemeMarks(s) # {} /\ First(SchemeMarks(s)) + 3 = a
  BY <1>2, WindowMarks
<1>7. /\ port = <<>> => E = F
      /\ port # <<>> => E = e /\ e + 1 < f /\ u[e] = Colon /\ e < F
  <2>1. ASSUME port # <<>> PROVE e + 1 < f /\ u[e] = Colon /\ e < F
    <3>1. e + 1 < f /\ u[e] = Colon
      BY <2>1 DEF Laid
    <3>2. e \in 1 .. Len(u)
      BY <1>1, <3>1
    <3>3. e <= y
      BY <1>2, <3>1, <3>2, Marks DEF Window
    <3> QED BY <1>1, <1>4, <3>1, <3>3
  <2> QED BY <2>1
<1>8. /\ path = <<>> => F = y + 1 /\ f = Len(u) + 1
      /\ path # <<>> => F = f /\ f <= y /\ u[f] = Slash
  <2>1. path # <<>> => f <= Len(u) /\ u[f] = Slash
    BY DEF Laid
  <2>2. path = <<>> => f = Len(u) + 1
    BY DEF Laid
  <2> QED BY <1>3, <2>1, <2>2
<1> HIDE DEF A, E, F, s

(* In the window the cuts are these. *)
<1> DEFINE a1 == A - x + 1
           e1 == E - x + 1
           f1 == F - x + 1
<1>9. /\ a1 \in Int /\ e1 \in Int /\ f1 \in Int /\ 1 <= a1 /\ a1 <= e1 /\ e1 <= f1
      /\ f1 <= Len(s) + 1
  BY <1>3, <1>4, <1>5
<1>10. ASSUME NEW i \in a1 .. e1 - 1 PROVE s[i] # Colon /\ s[i] # Slash
  <2>1. i \in 1 .. y - x + 1 /\ x + i - 1 \in a .. e - 1
    BY <1>1, <1>3, <1>4
  <2> QED BY <1>1, <1>5, <2>1
<1>11. ASSUME NEW i \in e1 + 1 .. f1 - 1 PROVE s[i] # Colon /\ s[i] # Slash
  <2>1. port # <<>> /\ E = e
    BY <1>3, <1>4, <1>7
  <2>2. i \in 1 .. y - x + 1 /\ x + i - 1 \in e + 1 .. f - 1
    BY <1>1, <1>3, <1>4, <2>1
  <2> QED BY <1>1, <1>5, <2>2
<1>12. e1 < f1 => port # <<>> /\ s[e1] = Colon
  <2> SUFFICES ASSUME e1 < f1 PROVE port # <<>> /\ s[e1] = Colon
    OBVIOUS
  <2>1. port # <<>> /\ E = e /\ u[e] = Colon
    BY <1>3, <1>4, <1>7
  <2>2. e1 \in 1 .. y - x + 1 /\ x + e1 - 1 = e
    BY <1>1, <1>3, <1>4, <2>1
  <2> QED BY <1>5, <2>1, <2>2
<1>13. /\ f1 <= Len(s) => path # <<>> /\ s[f1] = Slash
       /\ f1 > Len(s) => path = <<>>
  <2>1. ASSUME f1 <= Len(s) PROVE path # <<>> /\ s[f1] = Slash
    <3>1. path # <<>> /\ F = f /\ u[f] = Slash
      BY <1>3, <1>4, <1>5, <1>8, <2>1
    <3>2. f1 \in 1 .. y - x + 1 /\ x + f1 - 1 = f
      BY <1>1, <1>3, <1>4, <1>5, <2>1, <3>1
    <3> QED BY <1>5, <3>1, <3>2
  <2>2. ASSUME f1 > Len(s) PROVE path = <<>>
    BY <1>1, <1>3, <1>4, <1>5, <1>8, <2>2
  <2> QED BY <2>1, <2>2
<1>14. IF SchemeMarks(s) = {} THEN a1 = 1 ELSE a1 = First(SchemeMarks(s)) + 3
  <2>1. CASE scheme = <<>>
    BY <1>4, <1>6, <2>1
  <2>2. CASE scheme # <<>>
    BY <1>1, <1>3, <1>6, <2>2
  <2> QED BY <2>1, <2>2
<1> HIDE DEF a1, e1, f1
<1>15. ParseUrl(u, default, tlsSchemes) = CutsResult(s, a1, e1, f1, default, tlsSchemes)
  <2>1. Trim(u) = s
    BY <1>2 DEF s
  <2>2. e1 < f1 => s[e1] = Colon
    BY <1>12
  <2>3. f1 <= Len(s) => s[f1] = Slash
    BY <1>13
  <2> QED BY <1>5, <1>9, <1>10, <1>11, <1>14, <2>1, <2>2, <2>3, ParseCuts
(* Each is the part, but for blanks. *)
<1>16. (IF SchemeMarks(s) = {} THEN <<default>> ELSE Lower(SubSeq(s, 1, a1 - 4)))
         = (IF scheme = <<>> THEN <<default>> ELSE Lower(scheme))
  <2>1. CASE scheme = <<>>
    BY <1>6, <2>1
  <2>2. CASE scheme # <<>>
    <3>1. SubSeq(u, 1, a - 4) = scheme /\ a > 4
      BY <2>2 DEF Laid
    <3>2. x = 1 /\ a1 = a /\ a - 1 <= y
      BY <1>1, <1>3, <2>2 DEF a1
    <3>3. SubSeq(s, 1, a - 4) = SubSeq(u, x + 1 - 1, x + (a - 4) - 1)
      <4>1. 1 \in Int /\ a - 4 \in Int /\ 1 <= 1 /\ 1 <= (a - 4) + 1 /\ a - 4 <= y - x + 1
        BY <1>1, <1>4, <3>1, <3>2
      <4> QED BY <1>1, <1>4, <4>1, CutTwice DEF s
    <3>4. x + 1 - 1 = 1 /\ x + (a - 4) - 1 = a - 4
      BY <1>1, <3>2
    <3> QED BY <1>6, <2>2, <3>1, <3>2, <3>3, <3>4
  <2> QED BY <2>1, <2>2
<1>17. Trim(SubSeq(s, a1, e1 - 1)) = Trim(host)
  <2>1. SubSeq(s, a1, e1 - 1) = SubSeq(u, A, E - 1)
    <3>1. e1 - 1 \in Int /\ a1 <= (e1 - 1) + 1 /\ e1 - 1 <= y - x + 1
      BY <1>3, <1>4, <1>9 DEF e1
    <3>2. SubSeq(s, a1, e1 - 1) = SubSeq(u, x + a1 - 1, x + (e1 - 1) - 1)
      BY <1>1, <1>4, <1>9, <3>1, CutTwice DEF s
    <3>3. x + a1 - 1 = A /\ x + (e1 - 1) - 1 = E - 1
      BY <1>3, <1>4 DEF a1, e1
    <3> QED BY <3>2, <3>3
  <2>2. SubSeq(u, a, e - 1) = host
    BY DEF Laid
  <2>3. ASSUME NEW i \in a .. e - 1, i \notin A .. E - 1 PROVE u[i] = Blank
    <3>1. i \in 1 .. Len(u)
      BY <1>1
    <3>2. CASE i < A
      <4>1. A = x
        BY <1>1, <1>3, <1>6, <3>2
      <4> QED BY <1>2, <1>4, <3>1, <3>2, <4>1 DEF Window
    <3>3. CASE i > E - 1
      <4>1. E = y + 1
        BY <1>1, <1>3, <1>7, <1>8, <3>3
      <4> QED BY <1>2, <1>4, <3>1, <3>3, <4>1 DEF Window
    <3> QED BY <1>1, <1>3, <2>3, <3>2, <3>3
  <2>4. /\ a \in Int /\ e - 1 \in Int /\ a <= (e - 1) + 1 /\ e - 1 <= Len(u)
        /\ A \in Int /\ E - 1 \in Int /\ 1 <= A /\ A <= (E - 1) + 1 /\ E - 1 <= e - 1
    BY <1>1, <1>3
  <2>5. Trim(SubSeq(u, a, e - 1)) = Trim(SubSeq(u, A, E - 1))
    BY <1>1, <1>3, <2>3, <2>4, TrimSame
  <2> QED BY <2>1, <2>2, <2>5
<1>18. (IF e1 = f1 THEN {0} ELSE Stoi(SubSeq(s, e1 + 1, f1 - 1)))
         = (IF port = <<>> THEN {0} ELSE Stoi(port))
  <2>1. CASE port = <<>>
    BY <1>7, <2>1 DEF e1, f1
  <2>2. CASE port # <<>>
    <3>1. E = e /\ e + 1 < f /\ e < F /\ SubSeq(u, e + 1, f - 1) = port
      BY <1>7, <2>2 DEF Laid
    <3>2. e1 # f1
      BY <1>3, <1>4, <3>1 DEF e1, f1
    <3>3. SubSeq(s, e1 + 1, f1 - 1) = SubSeq(u, e + 1, F - 1)
      <4>1. /\ e1 + 1 \in Int /\ f1 - 1 \in Int /\ 1 <= e1 + 1 /\ e1 + 1 <= (f1 - 1) + 1
            /\ f1 - 1 <= y - x + 1
        BY <1>3, <1>4, <1>9, <3>1 DEF e1, f1
      <4>2. SubSeq(s, e1 + 1, f1 - 1) = SubSeq(u, x + (e1 + 1) - 1, x + (f1 - 1) - 1)
        <5> DEFINE m == e1 + 1
                   n == f1 - 1
        <5>1. m \in Int /\ n \in Int /\ 1 <= m /\ m <= n + 1 /\ n <= y - x + 1
          BY <4>1
        <5> HIDE DEF m, n
        <5>2. SubSeq(s, m, n) = SubSeq(u, x + m - 1, x + n - 1)
          BY <1>1, <1>4, <5>1, CutTwice DEF s
        <5> QED BY <5>2 DEF m, n
      <4>3. x + (e1 + 1) - 1 = e + 1 /\ x + (f1 - 1) - 1 = F - 1
        BY <1>3, <1>4, <3>1 DEF e1, f1
      <4> QED BY <4>2, <4>3
    <3>4. ASSUME NEW i \in e + 1 .. f - 1, i \notin e + 1 .. F - 1 PROVE u[i] = Blank
      <4>1. i \in 1 .. Len(u) /\ i > F - 1
        BY <1>1, <1>3, <3>4
      <4>2. F = y + 1
        BY <1>1, <1>3, <1>8, <4>1
      <4> QED BY <1>2, <1>4, <4>1, <4>2 DEF Window
    <3>5. /\ e + 1 \in Int /\ f - 1 \in Int /\ 1 <= e + 1 /\ e + 1 <= (f - 1) + 1 /\ f - 1 <= Len(u)
          /\ F - 1 \in Int /\ e + 1 <= (F - 1) + 1 /\ F - 1 <= f - 1 /\ e + 1 <= e + 1
      BY <1>1, <1>3, <3>1
    <3>6. Trim(SubSeq(u, e + 1, f - 1)) = Trim(SubSeq(u, e + 1, F - 1))
      BY <1>1, <3>4, <3>5, TrimSame
    <3>7. Stoi(SubSeq(u, e + 1, f - 1)) = Stoi(SubSeq(u, e + 1, F - 1))
      BY <3>6 DEF Stoi
    <3> QED BY <2>2, <3>1, <3>2, <3>3, <3>7
  <2> QED BY <2>1, <2>2
<1>19. (IF f1 > Len(s) THEN <<"/">> ELSE SubSeq(s, f1, Len(s)))
         = (IF path = <<>> THEN <<"/">> ELSE path)
  <2>1. CASE f1 > Len(s)
    BY <1>13, <2>1
  <2>2. CASE f1 <= Len(s)
    <3>1. path # <<>> /\ F = f /\ y = Len(u) /\ SubSeq(u, f, Len(u)) = path
      BY <1>3, <1>8, <1>13, <2>2 DEF Laid
    <3>2. SubSeq(s, f1, Len(s)) = SubSeq(u, x + f1 - 1, x + Len(s) - 1)
      <4>1. Len(s) \in Int /\ 1 <= f1 /\ f1 <= Len(s) + 1 /\ Len(s) <= y - x + 1
        BY <1>4, <1>5, <1>9
      <4> QED BY <1>1, <1>4, <1>9, <4>1, CutTwice DEF s
    <3>3. x + f1 - 1 = f /\ x + Len(s) - 1 = Len(u) /\ ~(f1 > Len(s))
      BY <1>1, <1>3, <1>4, <1>5, <1>9, <2>2, <3>1 DEF f1
    <3> QED BY <3>1, <3>2, <3>3
  <2> QED BY <1>5, <1>4, <1>9, <2>1, <2>2
<1> QED BY <1>15, <1>16, <1>17, <1>18, <1>19 DEF CutsResult, PartsResult

(* parseUrl, for any default scheme, reads what Render writes. *)
LEMMA ParseMeaning ==
  ASSUME NEW p, WellFormed(p), ~InnerUrl(p), NEW default, NEW tlsSchemes
  PROVE  ParseUrl(Render(p), default, tlsSchemes) = Meaning(p, default, tlsSchemes)
<1>1. p.scheme = <<>> => SchemeMarks(p.path) = {}
  BY DEF InnerUrl, NoScheme
<1>2. PICK a, e, f : Laid(p.scheme, p.host, p.port, p.path, Render(p), a, e, f)
  BY RenderLaid
<1>3. ParseUrl(Render(p), default, tlsSchemes) =
        PartsResult(p.scheme, p.host, p.port, p.path, default, tlsSchemes)
  BY <1>1, <1>2, LaidParsed
<1> QED BY <1>3, MeaningResult, Zenon

(* parseUrl of the four transports: a URL that is written down from its     *)
(* parts is read back as these parts, whatever blanks surround them, unless *)
(* it has no scheme and another URL in its path.  Without a scheme it gets  *)
(* the default of the class: http, https or ws.                             *)
THEOREM ParsersReadUrls ==
  ASSUME NEW p, WellFormed(p)
  PROVE  ParsedAsWritten(p)
BY ParseMeaning, Zenon DEF ParsedAsWritten, HttpUrl, HttpsUrl, WebSocketUrl, TcpUrl

-----------------------------------------------------------------------------
(* HttpTransport and HttpsTransport, for any threads, requests,             *)
(* configurations and number of calls.                                      *)

HttpPlaces == {"idle", "sending", "assigning", "assigned", "configuring"}
HttpTypeOK == pc \in [Threads -> HttpPlaces] /\ arg = [t \in Threads |-> arg[t]]

(* A thread that sends or configures holds m_clientMutex. *)
Locked == \A t \in Threads : pc[t] \in {"configuring", "sending"} => mutex = {t}

(* When no assignment of m_sslConfig still waits for its configureSsl, the  *)
(* configureSsl in progress has read the present flag, or there is none and *)
(* the context is the one configured.                                       *)
Settling ==
  kind = "https" /\ client /\ (\A t \in Threads : pc[t] \notin {"assigning", "assigned"}) =>
    \/ \E t \in Threads : pc[t] = "configuring" /\ arg[t].verifyPeer = m_sslConfig.verifyPeer
    \/ /\ \A t \in Threads : pc[t] # "configuring"
       /\ unapplied \/ context = Options(m_sslConfig)

(* A request is under way only between its two steps, and never without a   *)
(* client.                                                                  *)
Dead ==
  /\ last.at = "sent" => \E t \in Threads : pc[t] = "sending"
  /\ ~client => ~m_connected /\ \A t \in Threads : pc[t] # "sending"

HttpInv == HttpTypeOK /\ Locked /\ Settling /\ Dead

(* The calls that both transports have. *)
Shared(t) ==
  \/ \E r \in Requests : RejectRequest(t, r) \/ BeginRequest(t, r)
  \/ FinishRequest(t) \/ Disconnect(t)
  \/ \E ms \in Defaults : SetTimeout(t, ms)

(* setSslConfig. *)
Configuring(t) ==
  \/ \E config \in Configs : SetSslConfig(t, config)
  \/ AssignRest(t) \/ ConfigureNothing(t)
  \/ ConfigureBegin(t) \/ ConfigureApply(t)

(* A step is one of these. *)
LEMMA HttpSteps == Next => \E t \in Threads : Shared(t) \/ Configuring(t)
BY DEF Next, HttpNext, HttpsRequest, HttpsAnswer, HttpsDisconnect,
       HttpsSetTimeout, Shared, Configuring

(* Where a step takes its thread; the other threads stay. *)
LEMMA HttpMoves ==
  ASSUME HttpTypeOK, NEW t \in Threads, NEW place \in HttpPlaces, NEW value,
         pc' = [pc EXCEPT ![t] = place], arg' = [arg EXCEPT ![t] = value]
  PROVE  /\ HttpTypeOK' /\ pc'[t] = place /\ arg'[t] = value
         /\ \A u \in Threads \ {t} : pc'[u] = pc[u] /\ arg'[u] = arg[u]
BY DEF HttpTypeOK

(* A request, its answer, disconnect() and setTimeout. *)
LEMMA SharedKeeps ==
  ASSUME HttpInv, NEW t \in Threads, Shared(t)
  PROVE  HttpInv'
<1> USE DEF HttpInv
<1>1. ASSUME NEW r \in Requests, RejectRequest(t, r)
      PROVE  HttpInv'
  <2>1. /\ UNCHANGED <<kind, client, m_connected, m_sslConfig, context, unapplied, mutex, pc, arg>>
        /\ last'.at = "answered"
    BY <1>1 DEF RejectRequest, Answered, tls
  <2> QED BY <2>1 DEF HttpTypeOK, Locked, Settling, Dead
<1>2. ASSUME NEW r \in Requests, BeginRequest(t, r)
      PROVE  HttpInv'
  <2>1. /\ pc[t] = "idle" /\ mutex = {} /\ client /\ mutex' = {t} /\ last'.at = "sent"
        /\ pc' = [pc EXCEPT ![t] = "sending"] /\ arg' = [arg EXCEPT ![t] = r]
        /\ UNCHANGED <<kind, client, m_connected, m_sslConfig, context, unapplied>>
    BY <1>2 DEF BeginRequest, Goes, With, tls
  <2>2. /\ HttpTypeOK' /\ pc'[t] = "sending"
        /\ \A u \in Threads \ {t} : pc'[u] = pc[u] /\ arg'[u] = arg[u]
    BY <2>1, HttpMoves DEF HttpPlaces
  <2>3. \A u \in Threads : pc[u] \notin {"configuring", "sending"}
    BY <2>1 DEF Locked
  <2>4. Locked' /\ Dead'
    BY <2>1, <2>2, <2>3 DEF Locked, Dead
  <2>5. Settling'
    BY <2>1, <2>2, <2>3 DEF Settling
  <2> QED BY <2>2, <2>4, <2>5
<1>3. CASE FinishRequest(t)
  <2>1. /\ pc[t] = "sending" /\ mutex' = {} /\ last'.at = "answered"
        /\ pc' = [pc EXCEPT ![t] = "idle"] /\ arg' = [arg EXCEPT ![t] = Idle]
        /\ UNCHANGED <<kind, client, m_sslConfig, context, unapplied>>
    BY <1>3 DEF FinishRequest, Answered, Goes, With, tls
  <2>2. /\ HttpTypeOK' /\ pc'[t] = "idle"
        /\ \A u \in Threads \ {t} : pc'[u] = pc[u] /\ arg'[u] = arg[u]
    BY <2>1, HttpMoves DEF HttpPlaces
  <2>3. \A u \in Threads \ {t} : pc[u] \notin {"configuring", "sending"}
    BY <2>1 DEF Locked
  <2>4. Locked' /\ Dead'
    BY <2>1, <2>2, <2>3 DEF Locked, Dead
  <2>5. Settling'
    BY <2>1, <2>2, <2>3 DEF Settling
  <2> QED BY <2>2, <2>4, <2>5
<1>4. CASE Disconnect(t)
  <2>1. /\ mutex = {} /\ client' = FALSE /\ m_connected' = FALSE
        /\ UNCHANGED <<mutex, pc, arg, last>>
    BY <1>4 DEF Disconnect, CanLock
  <2> QED BY <2>1 DEF HttpTypeOK, Locked, Settling, Dead
<1>5. ASSUME NEW ms \in Defaults, SetTimeout(t, ms)
      PROVE  HttpInv'
  <2>1. UNCHANGED <<kind, client, m_connected, m_sslConfig, context, unapplied, mutex, pc, arg, last>>
    BY <1>5 DEF SetTimeout, tls
  <2> QED BY <2>1 DEF HttpTypeOK, Locked, Settling, Dead
<1> QED BY <1>1, <1>2, <1>3, <1>4, <1>5 DEF Shared

(* configureSsl puts into force what it has read, or says that it did not. *)
LEMMA AttemptsEnd ==
  ASSUME NEW read, NEW inForce, NEW a \in Attempts(read, inForce)
  PROVE  a[2] = TRUE \/ (a[2] = FALSE /\ a[1] = read)
<1>1. CASE a = <<read, FALSE>>
  BY <1>1
<1>2. ASSUME NEW other, a = <<other, TRUE>> PROVE a[2] = TRUE
  BY <1>2
<1> QED BY <1>1, <1>2 DEF Attempts

(* configureSsl ends: it has read one flag and one version, both of the     *)
(* present m_sslConfig unless an assignment is still on its way.            *)
LEMMA ApplyKeeps ==
  ASSUME HttpInv, NEW t \in Threads, ConfigureApply(t)
  PROVE  HttpInv'
<1> USE DEF HttpInv
<1>1. /\ pc[t] = "configuring" /\ mutex' = mutex \ {t}
      /\ pc' = [pc EXCEPT ![t] = "idle"] /\ arg' = [arg EXCEPT ![t] = Idle]
      /\ UNCHANGED <<kind, client, m_connected, last, m_sslConfig>>
  BY DEF ConfigureApply, Goes, With, Rest
<1>2. /\ HttpTypeOK' /\ pc'[t] = "idle"
      /\ \A u \in Threads \ {t} : pc'[u] = pc[u] /\ arg'[u] = arg[u]
  BY <1>1, HttpMoves DEF HttpPlaces
<1>3. \A u \in Threads \ {t} : pc[u] \notin {"configuring", "sending"}
  BY <1>1 DEF Locked
<1>4. Locked' /\ Dead'
  BY <1>1, <1>2, <1>3 DEF Locked, Dead
<1>5. Settling'
  <2> SUFFICES ASSUME kind = "https", client, \A u \in Threads : pc'[u] \notin {"assigning", "assigned"}
               PROVE  unapplied' \/ context' = Options(m_sslConfig)
    BY <1>1, <1>2, <1>3 DEF Settling
  <2>1. \A u \in Threads : pc[u] \notin {"assigning", "assigned"}
    BY <1>1, <1>2
  <2>2. arg[t].verifyPeer = m_sslConfig.verifyPeer
    BY <1>1, <1>3, <2>1 DEF Settling
  <2>3. VersionsRead(t) = {m_sslConfig.sslVersion}
    BY <2>1 DEF VersionsRead, OthersCopy
  <2> DEFINE read == Options([verifyPeer |-> arg[t].verifyPeer,
                                    sslVersion |-> m_sslConfig.sslVersion])
  <2>4. read = Options(m_sslConfig)
    BY <2>2 DEF Options
  <2>5. PICK a \in Attempts(read, context) : context' = a[1] /\ unapplied' = a[2]
    BY <2>3 DEF ConfigureApply
  <2>6. (unapplied' = FALSE /\ context' = read) \/ unapplied' = TRUE
    <3>1. a[2] = TRUE \/ (a[2] = FALSE /\ a[1] = read)
      BY AttemptsEnd
    <3> QED BY <2>5, <3>1
  <2> QED BY <2>4, <2>6
<1> QED BY <1>2, <1>4, <1>5

(* Between the assignment and its configureSsl nothing is claimed. *)
LEMMA AssigningKeeps ==
  ASSUME HttpInv, HttpTypeOK', NEW t \in Threads,
         pc[t] \in {"idle", "assigning"}, pc'[t] \in {"assigning", "assigned"},
         \A u \in Threads \ {t} : pc'[u] = pc[u], UNCHANGED <<client, m_connected, last, mutex>>
  PROVE  HttpInv'
BY DEF HttpInv, Locked, Settling, Dead

(* setSslConfig: the assignment in two steps, and configureSsl. *)
LEMMA ConfiguringKeeps ==
  ASSUME HttpInv, NEW t \in Threads, Configuring(t)
  PROVE  HttpInv'
<1>1. ASSUME NEW config \in Configs, SetSslConfig(t, config)
      PROVE  HttpInv'
  <2>1. /\ pc[t] = "idle" /\ pc' = [pc EXCEPT ![t] = "assigning"] /\ arg' = [arg EXCEPT ![t] = config]
        /\ UNCHANGED <<client, m_connected, last, mutex>>
    BY <1>1 DEF SetSslConfig, Goes, With, Rest
  <2>2. HttpTypeOK' /\ pc'[t] = "assigning" /\ \A u \in Threads \ {t} : pc'[u] = pc[u]
    BY <2>1, HttpMoves DEF HttpInv, HttpPlaces
  <2> QED BY <2>1, <2>2, AssigningKeeps
<1>2. CASE AssignRest(t)
  <2>1. /\ pc[t] = "assigning" /\ pc' = [pc EXCEPT ![t] = "assigned"]
        /\ arg' = [arg EXCEPT ![t] = Idle] /\ UNCHANGED <<client, m_connected, last, mutex>>
    BY <1>2 DEF AssignRest, Goes, With, Rest
  <2>2. HttpTypeOK' /\ pc'[t] = "assigned" /\ \A u \in Threads \ {t} : pc'[u] = pc[u]
    BY <2>1, HttpMoves DEF HttpInv, HttpPlaces
  <2> QED BY <2>1, <2>2, AssigningKeeps
<1>3. CASE ConfigureNothing(t)
  <2>1. /\ pc[t] = "assigned" /\ ~client /\ pc' = [pc EXCEPT ![t] = "idle"]
        /\ UNCHANGED <<client, m_connected, last, mutex, arg>>
    BY <1>3 DEF ConfigureNothing, Goes, Rest
  <2>2. HttpTypeOK' /\ pc'[t] = "idle" /\ \A u \in Threads \ {t} : pc'[u] = pc[u]
    BY <2>1 DEF HttpInv, HttpTypeOK, HttpPlaces
  <2>3. Locked' /\ Settling' /\ Dead'
    BY <2>1, <2>2 DEF HttpInv, Locked, Settling, Dead
  <2> QED BY <2>2, <2>3 DEF HttpInv
<1>4. CASE ConfigureBegin(t)
  <2> DEFINE value == [at |-> "configure", verifyPeer |-> m_sslConfig.verifyPeer]
  <2>1. /\ pc[t] = "assigned" /\ mutex = {} /\ mutex' = {t}
        /\ pc' = [pc EXCEPT ![t] = "configuring"] /\ arg' = [arg EXCEPT ![t] = value]
        /\ UNCHANGED <<kind, client, m_connected, last, m_sslConfig>>
    BY <1>4 DEF ConfigureBegin, Goes, With, Rest, tls
  <2>2. /\ HttpTypeOK' /\ pc'[t] = "configuring" /\ arg'[t] = value
        /\ \A u \in Threads \ {t} : pc'[u] = pc[u] /\ arg'[u] = arg[u]
    BY <2>1, HttpMoves DEF HttpInv, HttpPlaces
  <2>3. \A u \in Threads : pc[u] \notin {"configuring", "sending"}
    BY <2>1 DEF HttpInv, Locked
  <2>4. Locked' /\ Dead'
    BY <2>1, <2>2, <2>3 DEF HttpInv, Locked, Dead
  <2>5. Settling'
    BY <2>1, <2>2 DEF HttpInv, Settling
  <2> QED BY <2>2, <2>4, <2>5 DEF HttpInv
<1> QED BY <1>1, <1>2, <1>3, <1>4, ApplyKeeps DEF Configuring

(* The factory's new transport. *)
LEMMA HttpInitHolds == Init => HttpInv
<1> SUFFICES ASSUME Init PROVE HttpInv
  OBVIOUS
<1>1. HttpTypeOK /\ Locked /\ Dead
  BY DEF Init, HttpTypeOK, HttpPlaces, Locked, Dead, Idle
<1>2. Settling
  <2> SUFFICES ASSUME kind = "https"
               PROVE  unapplied \/ context = Options(m_sslConfig)
    BY DEF Settling, Init
  <2>1. \E a \in HttpsCreated : context = a[1] /\ unapplied = a[2]
    BY DEF Init
  <2>2. (unapplied = FALSE /\ context = Options(DefaultConfig)) \/ unapplied = TRUE
    BY <2>1, AttemptsEnd, Zenon DEF HttpsCreated
  <2> QED BY <2>2 DEF Init
<1> QED BY <1>1, <1>2 DEF HttpInv

(* Every step keeps the invariant. *)
LEMMA HttpNextKeeps == HttpInv /\ [Next]_vars => HttpInv'
<1> SUFFICES ASSUME HttpInv, [Next]_vars PROVE HttpInv'
  OBVIOUS
<1>1. CASE UNCHANGED vars
  BY <1>1 DEF vars, HttpInv, HttpTypeOK, Locked, Settling, Dead
<1>2. CASE Next
  BY <1>2, HttpSteps, SharedKeeps, ConfiguringKeeps
<1> QED BY <1>1, <1>2

(* setSslConfig and configureSsl: m_sslConfig is assigned without a lock,   *)
(* and still, once every call has returned, the context in force is the one *)
(* it describes, unless the library refused to build it: whoever assigned   *)
(* last configures after that.                                              *)
THEOREM TlsSettles == Spec => []SettledTls
<1>1. HttpInv => SettledTls
  <2> SUFFICES ASSUME HttpInv, kind = "https", client, ~unapplied,
                      \A t \in Threads : pc[t] \in {"idle", "sending"}
               PROVE  context = Options(m_sslConfig)
    BY DEF SettledTls
  <2> QED BY DEF HttpInv, Settling
<1> QED BY <1>1, HttpInitHolds, HttpNextKeeps, PTL DEF Spec

(* disconnect() ends the transport: it waits for the request in progress,   *)
(* and nothing makes a new client or reports success afterwards.            *)
THEOREM DeadTransportStaysDead == Spec => DisconnectIsFinal
<1>1. HttpInv /\ [Next]_vars =>
        [~client => ~client' /\ last'.at # "sent" /\ ~ReceiveResponse'
                             /\ ~IsConnected']_vars
  <2> SUFFICES ASSUME HttpInv, [Next]_vars, ~client
               PROVE  /\ ~client' /\ last'.at # "sent" /\ ~ReceiveResponse'
                      /\ ~IsConnected'
    OBVIOUS
  <2>1. ~client'
    <3>1. CASE UNCHANGED vars
      BY <3>1 DEF vars
    <3>2. ASSUME NEW t \in Threads, Shared(t) PROVE ~client'
      BY <3>2 DEF Shared, RejectRequest, BeginRequest, FinishRequest,
         Disconnect, SetTimeout
    <3>3. ASSUME NEW t \in Threads, Configuring(t) PROVE ~client'
      BY <3>3 DEF Configuring, SetSslConfig, AssignRest, ConfigureNothing,
         ConfigureBegin, ConfigureApply, Rest
    <3> QED BY <3>1, <3>2, <3>3, HttpSteps
  <2>2. HttpInv'
    BY HttpNextKeeps
  <2> QED BY <2>1, <2>2 DEF HttpInv, Dead, ReceiveResponse, IsConnected
<1> QED BY <1>1, HttpInitHolds, HttpNextKeeps, PTL DEF Spec, DisconnectIsFinal

(* Milliseconds become seconds: from one second on they are clipped, never  *)
(* wrapped, and never more than was asked for.                              *)
LEMMA SecondsClip ==
  ASSUME NEW ms \in Int, ms >= 1000
  PROVE  Seconds(ms) >= 1 /\ Seconds(ms) * 1000 <= ms
<1> DEFINE s == ms \div 1000
<1>1. s \in Nat /\ s >= 1 /\ s * 1000 <= ms
  OBVIOUS
<1>2. Seconds(ms) = (IF s < 65535 THEN s ELSE 65535) % 65536
  BY DEF Seconds
<1>3. CASE s < 65535
  <2>1. s % 65536 = s
    BY <1>1, <1>3
  <2> QED BY <1>1, <1>2, <1>3, <2>1
<1>4. CASE s >= 65535
  <2>1. 65535 % 65536 = 65535
    OBVIOUS
  <2> QED BY <1>1, <1>2, <1>4, <2>1
<1> QED BY <1>1, <1>3, <1>4

(* The timeout that was asked for is an integer, and the one passed on is   *)
(* made of it.                                                              *)
Converted ==
  /\ m_timeout \in Int
  /\ last.at = "sent" => last.asked \in Int /\ last.timeout = Seconds(last.asked)

(* sendRequest: a timeout of a second or more, of the request or set with   *)
(* setTimeout, reaches the HttpClient as at least one second and as no more *)
(* than was asked for, although it passes through a uint16_t.               *)
LEMMA TimeoutsArrive == Spec => []TimeoutArrives
<1>1. Init => Converted
  BY DEF Init, Converted, Idle
<1>2. Converted /\ [Next]_vars => Converted'
  <2> SUFFICES ASSUME Converted, [Next]_vars PROVE Converted'
    OBVIOUS
  <2>1. CASE UNCHANGED <<m_timeout, last>>
    BY <2>1 DEF Converted, Seconds
  <2>2. ASSUME NEW t \in Threads, Shared(t) PROVE Converted'
    <3>1. ASSUME NEW r \in Requests, BeginRequest(t, r) PROVE Converted'
      <4>1. EffectiveTimeout(r) \in Int
        BY HttpConstants DEF EffectiveTimeout, Converted
      <4>2. UNCHANGED m_timeout /\ last'.asked = EffectiveTimeout(r)
            /\ last'.timeout = Seconds(EffectiveTimeout(r))
        BY <3>1 DEF BeginRequest
      <4> QED BY <4>1, <4>2 DEF Converted, Seconds
    <3>2. ASSUME NEW r \in Requests, RejectRequest(t, r) PROVE Converted'
      BY <3>2 DEF RejectRequest, Answered, Converted
    <3>3. CASE FinishRequest(t)
      BY <3>3 DEF FinishRequest, Answered, Converted
    <3>4. CASE Disconnect(t)
      BY <2>1, <3>4 DEF Disconnect
    <3>5. ASSUME NEW ms \in Defaults, SetTimeout(t, ms) PROVE Converted'
      <4>1. m_timeout' \in Int /\ UNCHANGED last
        BY <3>5, HttpConstants DEF SetTimeout
      <4> QED BY <4>1 DEF Converted, Seconds
    <3> QED BY <2>2, <3>1, <3>2, <3>3, <3>4, <3>5 DEF Shared
  <2>3. ASSUME NEW t \in Threads, Configuring(t) PROVE Converted'
    BY <2>1, <2>3 DEF Configuring, SetSslConfig, AssignRest, ConfigureNothing,
       ConfigureBegin, ConfigureApply, Rest
  <2> QED BY <2>1, <2>2, <2>3, HttpSteps DEF vars
<1>3. Converted => TimeoutArrives
  BY SecondsClip DEF Converted, TimeoutArrives
<1> QED BY <1>1, <1>2, <1>3, PTL DEF Spec

(* The request worked on or answered is one that was made, and one that was *)
(* refused did not parse or had a foreign scheme.                           *)
Traced ==
  /\ \A t \in Threads : pc[t] = "sending" => arg[t] \in Requests
  /\ last.at # "idle" => last.request \in Requests
  /\ last.at = "answered" /\ last.outcome = "refused" => ~Acceptable(Render(last.request.url))

(* What is acceptable depends on the class, which does not change. *)
LEMMA AcceptableStays ==
  ASSUME NEW url, UNCHANGED kind
  PROVE  Acceptable(url)' <=> Acceptable(url)
BY DEF Acceptable, Parsed, Schemes

(* A request is answered, refused or handed on as it is. *)
LEMMA TracedKeeps ==
  ASSUME HttpInv, Traced, [Next]_vars
  PROVE  Traced'
<1> USE DEF HttpInv
<1>1. ASSUME UNCHANGED <<kind, last>>,
             \A u \in Threads : pc'[u] = "sending" => pc[u] = "sending" /\ arg'[u] = arg[u]
      PROVE  Traced'
  <2>1. \A u \in Threads : pc'[u] = "sending" => arg'[u] \in Requests
    BY <1>1 DEF Traced
  <2>2. last'.at # "idle" => last'.request \in Requests
    BY <1>1 DEF Traced
  <2>3. last.at = "answered" /\ last.outcome = "refused" =>
          ~Acceptable(Render(last.request.url))'
    BY <1>1 DEF Traced, Acceptable, Parsed, Schemes
  <2> QED BY <1>1, <2>1, <2>2, <2>3 DEF Traced
<1>2. CASE UNCHANGED vars
  BY <1>1, <1>2 DEF vars
<1>3. ASSUME NEW t \in Threads, NEW r \in Requests, RejectRequest(t, r) PROVE Traced'
  <2>1. /\ UNCHANGED <<kind, pc, arg>> /\ last'.request = r /\ last'.at = "answered"
        /\ last'.outcome = "refused" => ~Acceptable(Render(r.url))
    BY <1>3 DEF RejectRequest, Answered
  <2>2. last'.outcome = "refused" => ~Acceptable(Render(r.url))'
    BY <2>1 DEF Acceptable, Parsed, Schemes
  <2> QED BY <2>1, <2>2 DEF Traced
<1>4. ASSUME NEW t \in Threads, NEW r \in Requests, BeginRequest(t, r) PROVE Traced'
  <2>1. /\ pc' = [pc EXCEPT ![t] = "sending"] /\ arg' = [arg EXCEPT ![t] = r]
        /\ last'.request = r /\ last'.at = "sent"
    BY <1>4 DEF BeginRequest, Goes, With
  <2>2. /\ pc'[t] = "sending" /\ arg'[t] = r
        /\ \A u \in Threads \ {t} : pc'[u] = pc[u] /\ arg'[u] = arg[u]
    BY <2>1, HttpMoves DEF HttpPlaces
  <2> QED BY <2>1, <2>2 DEF Traced
<1>5. ASSUME NEW t \in Threads, FinishRequest(t) PROVE Traced'
  <2>1. /\ pc[t] = "sending" /\ pc' = [pc EXCEPT ![t] = "idle"] /\ arg' = [arg EXCEPT ![t] = Idle]
        /\ last'.request = arg[t] /\ last'.at = "answered" /\ last'.outcome # "refused"
    BY <1>5 DEF FinishRequest, Answered, Goes, With
  <2>2. /\ pc'[t] = "idle" /\ \A u \in Threads \ {t} : pc'[u] = pc[u] /\ arg'[u] = arg[u]
    BY <2>1, HttpMoves DEF HttpPlaces
  <2> QED BY <2>1, <2>2 DEF Traced
<1>6. ASSUME NEW t \in Threads, Disconnect(t) \/ \E ms \in Defaults : SetTimeout(t, ms)
      PROVE  Traced'
  <2>1. UNCHANGED <<kind, last, pc, arg>>
    BY <1>6 DEF Disconnect, SetTimeout
  <2> QED BY <1>1, <2>1
<1>7. ASSUME NEW t \in Threads, Configuring(t) PROVE Traced'
  <2>1. UNCHANGED <<kind, last>>
    BY <1>7 DEF Configuring, SetSslConfig, AssignRest, ConfigureNothing, ConfigureBegin,
       ConfigureApply, Rest
  <2>2. PICK place \in HttpPlaces \ {"sending"} : pc' = [pc EXCEPT ![t] = place]
    BY <1>7 DEF Configuring, SetSslConfig, AssignRest, ConfigureNothing, ConfigureBegin,
       ConfigureApply, Goes, HttpPlaces
  <2>3. (\E value : arg' = [arg EXCEPT ![t] = value]) \/ arg' = arg
    BY <1>7 DEF Configuring, SetSslConfig, AssignRest, ConfigureNothing, ConfigureBegin,
       ConfigureApply, With
  <2>4. \A u \in Threads \ {t} : arg'[u] = arg[u]
    BY <2>3 DEF HttpTypeOK
  <2>5. pc'[t] # "sending" /\ \A u \in Threads \ {t} : pc'[u] = pc[u]
    BY <2>2 DEF HttpTypeOK
  <2> QED BY <1>1, <2>1, <2>4, <2>5
<1> QED BY <1>2, <1>3, <1>4, <1>5, <1>6, <1>7, HttpSteps DEF Shared

(* sendRequest: parseUrl reads the URL of every request as it was written,  *)
(* whatever is refused without reaching the network deserves it, and the    *)
(* timeout survives its conversion.                                         *)
THEOREM RequestsAreFaithful == Spec => []RequestFaithful
<1>1. Init => HttpInv /\ Traced
  <2>1. Init => Traced
    BY DEF Init, Traced, Idle
  <2> QED BY <2>1, HttpInitHolds
<1>2. HttpInv /\ Traced /\ [Next]_vars => HttpInv' /\ Traced'
  BY HttpNextKeeps, TracedKeeps
<1>3. Traced /\ TimeoutArrives => RequestFaithful
  <2> SUFFICES ASSUME Traced, TimeoutArrives PROVE RequestFaithful
    OBVIOUS
  <2> DEFINE p == last.request.url
  <2>1. last.at # "idle" => WellFormed(p)
    BY HttpRequests DEF Traced
  <2>2. last.at # "idle" => ParsedAsWritten(p)
    BY <2>1, ParsersReadUrls
  <2>3. ASSUME last.at = "answered", last.outcome = "refused", ~InnerUrl(p)
        PROVE  ~\E u \in Meaning(p, OwnScheme, {<<"https">>}) : u.scheme \in Schemes
    <3>1. ~Acceptable(Render(p))
      BY <2>3 DEF Traced
    <3>2. last.at # "idle"
      BY <2>3
    <3>3. ParsedAsWritten(p)
      BY <2>2, <3>2
    <3>4. /\ HttpUrl(Render(p)) = Meaning(p, "http", {<<"https">>})
          /\ HttpsUrl(Render(p)) = Meaning(p, "https", {<<"https">>})
      BY <2>3, <3>3, Zenon DEF ParsedAsWritten
    <3>5. Parsed(Render(p)) = Meaning(p, OwnScheme, {<<"https">>})
      BY <3>4, Zenon DEF Parsed, OwnScheme
    <3> QED BY <3>1, <3>5, Zenon DEF Acceptable
  <2> QED BY <2>2, <2>3 DEF RequestFaithful
<1> QED BY <1>1, <1>2, <1>3, TimeoutsArrive, PTL DEF Spec

==============================================================================
