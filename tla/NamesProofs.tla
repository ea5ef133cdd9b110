------------------------------ MODULE NamesProofs ------------------------------
(***************************************************************************)
(* Proofs about module Names: which names the bytes of requests, entries   *)
(* and C strings stand for, for fields and words of any size.              *)
(***************************************************************************)
EXTENDS Names, SequenceTheorems, WellFoundedInduction, TLAPS

Byte == 0 .. 127

\* A field that holds w, and zeros behind it.
Padded(w, i) == IF i \in 1 .. Len(w) THEN w[i] ELSE NUL

\* A sequence of bytes without a terminator.
Text == Seq(1 .. 127)

LEMMA BytesOfWords ==
  ASSUME NEW L \in SUBSET Nat, NEW w \in Words(L)
  PROVE  /\ w \in Text /\ w \in Seq(Letters)
         /\ Len(w) \in L /\ DOMAIN w = 1 .. Len(w)
         /\ \A i \in 1 .. Len(w) : w[i] \in Letters
<1>1. PICK n \in L : w \in [1 .. n -> Letters]
  BY DEF Words
<1>2. w \in [1 .. n -> 1 .. 127] /\ n \in Nat
  BY <1>1, NamesAssumption
<1>3. w \in Text /\ w \in Seq(Letters)
  BY <1>1, <1>2 DEF Text
<1>4. Len(w) = n
  BY <1>1, <1>2
<1> QED
  BY <1>1, <1>3, <1>4

LEMMA WordOfLetters ==
  ASSUME NEW L \in SUBSET Nat, NEW w \in Seq(Letters), Len(w) \in L
  PROVE  w \in Words(L)
<1>1. w \in [1 .. Len(w) -> Letters]
  BY LenProperties
<1> QED
  BY <1>1 DEF Words

LEMMA TextBytes ==
  ASSUME NEW w \in Text
  PROVE  /\ w \in Seq(Byte) /\ Len(w) \in Nat /\ DOMAIN w = 1 .. Len(w)
         /\ \A i \in 1 .. Len(w) : w[i] \in 1 .. 127 /\ w[i] # NUL
         /\ \A i : Padded(w, i) \in Byte
<1>1. Len(w) \in Nat /\ w \in [1 .. Len(w) -> 1 .. 127]
  BY LenProperties DEF Text
<1>2. w \in [1 .. Len(w) -> Byte]
  BY <1>1 DEF Byte
<1>3. w \in Seq(Byte)
  BY <1>1, <1>2
<1>4. \A i \in 1 .. Len(w) : w[i] \in 1 .. 127 /\ w[i] \in Byte /\ w[i] # NUL
  <2>1. \A b \in 1 .. 127 : b # NUL
    BY DEF NUL
  <2> QED
    BY <1>1, <1>2, <2>1
<1>5. NUL \in Byte
  BY DEF NUL, Byte
<1> QED
  BY <1>1, <1>3, <1>4, <1>5 DEF Padded

LEMMA PaddedEqual ==
  ASSUME NEW u \in Text, NEW v \in Text, NEW n \in Nat,
         Len(u) =< n, Len(v) =< n,
         \A i \in 1 .. n : Padded(u, i) = Padded(v, i)
  PROVE  u = v
<1>1. Len(u) = Len(v)
  <2>1. Len(u) < Len(v) => Padded(v, Len(u) + 1) # Padded(u, Len(u) + 1)
    BY TextBytes DEF Padded
  <2>2. Len(v) < Len(u) => Padded(u, Len(v) + 1) # Padded(v, Len(v) + 1)
    BY TextBytes DEF Padded
  <2>3. Len(u) \in Nat /\ Len(v) \in Nat
    BY TextBytes
  <2> QED
    BY <2>1, <2>2, <2>3
<1>2. \A i \in 1 .. Len(u) : u[i] = v[i]
  BY <1>1, TextBytes DEF Padded
<1> QED
  BY <1>1, <1>2, SeqEqual DEF Text

LEMMA LeastNat ==
  ASSUME NEW S \in SUBSET Nat, S # {}
  PROVE  \E i \in S : \A j \in S : i =< j
<1>1. PICK i \in S : \A j \in S : <<j, i>> \notin OpToRel(<, Nat)
  BY NatLessThanWellFounded, WFMin
<1>2. \A j \in S : ~(j < i)
  BY <1>1 DEF OpToRel
<1> QED
  BY <1>2

LEMMA MinIs ==
  ASSUME NEW S \in SUBSET Int, NEW x \in S, \A y \in S : x =< y
  PROVE  Min(S) = x
<1> DEFINE m == CHOOSE z \in S : \A y \in S : z =< y
<1>1. m \in S /\ \A y \in S : m =< y
  OBVIOUS
<1> HIDE DEF m
<1>2. m = x
  BY <1>1
<1> QED
  BY <1>2 DEF Min, m

-----------------------------------------------------------------------------
(* The functions of string.c and stdmem.c on C strings.                    *)

LEMMA CStringBytes ==
  ASSUME NEW w \in Text
  PROVE  /\ CString(w) \in Seq(Byte) /\ Len(CString(w)) = Len(w) + 1
         /\ DOMAIN CString(w) = 1 .. Len(w) + 1
         /\ \A i \in 1 .. Len(w) : CString(w)[i] = w[i]
         /\ CString(w)[Len(w) + 1] = NUL
<1>1. w \in Seq(Byte) /\ NUL \in Byte
  BY TextBytes DEF Byte, NUL
<1>2. CString(w) \in Seq(Byte) /\ Len(CString(w)) = Len(w) + 1
  BY <1>1 DEF CString
<1>3. DOMAIN CString(w) = 1 .. Len(w) + 1
  BY <1>2, LenProperties
<1> QED
  BY <1>1, <1>2, <1>3 DEF CString

LEMMA strlenOfText ==
  ASSUME NEW w \in Text
  PROVE  strlen(CString(w)) = Len(w)
<1> DEFINE ends == {i \in DOMAIN CString(w) : CString(w)[i] = NUL}
<1>1. /\ ends \subseteq Int /\ Len(w) + 1 \in ends
      /\ \A y \in ends : Len(w) + 1 =< y
  BY TextBytes, CStringBytes
<1>2. Min(ends) = Len(w) + 1
  BY <1>1, MinIs
<1> QED
  BY <1>2, TextBytes DEF strlen

LEMMA strncpyOfText ==
  ASSUME NEW w \in Text, NEW n \in Nat
  PROVE  /\ strncpy(CString(w), n) \in [1 .. n -> Byte]
         /\ \A i \in 1 .. n : strncpy(CString(w), n)[i] = Padded(w, i)
<1>1. \A i \in 1 .. n : strncpy(CString(w), n)[i] = Padded(w, i)
  <2> TAKE i \in 1 .. n
  <2>1. CASE i =< Len(w)
    <3>1. \A j \in 1 .. i : CString(w)[j] # NUL
      BY <2>1, TextBytes, CStringBytes
    <3> QED
      BY <2>1, <3>1, TextBytes, CStringBytes DEF strncpy, Padded
  <2>2. CASE ~(i =< Len(w))
    <3>1. Len(w) + 1 \in 1 .. i
      BY <2>2, TextBytes
    <3>2. ~\A j \in 1 .. i : CString(w)[j] # NUL
      BY <3>1, CStringBytes
    <3> QED
      BY <2>2, <3>2 DEF strncpy, Padded
  <2> QED
    BY <2>1, <2>2
<1>2. strncpy(CString(w), n) = [i \in 1 .. n |-> strncpy(CString(w), n)[i]]
  BY DEF strncpy
<1> QED
  BY <1>1, <1>2, TextBytes

\* A field is copied as it is.
LEMMA strncpyOfField ==
  ASSUME NEW w \in Text, NEW n \in Nat, NEW f,
         \A i \in 1 .. n : f[i] = Padded(w, i)
  PROVE  \A i \in 1 .. n : strncpy(f, n)[i] = Padded(w, i)
<1> TAKE i \in 1 .. n
<1>1. CASE \A j \in 1 .. i : f[j] # NUL
  BY <1>1 DEF strncpy
<1>2. CASE \E j \in 1 .. i : f[j] = NUL
  <2>1. PICK j \in 1 .. i : Padded(w, j) = NUL
    BY <1>2
  <2>2. ~(j =< Len(w))
    BY <2>1, TextBytes DEF Padded
  <2>3. Padded(w, i) = NUL
    BY <2>2, TextBytes DEF Padded
  <2> QED
    BY <1>2, <2>3 DEF strncpy
<1> QED
  BY <1>1, <1>2

LEMMA strcpyOfText ==
  ASSUME NEW w \in Text, NEW n \in Nat, NEW dest \in [1 .. n -> Byte]
  PROVE  /\ strcpy(dest, CString(w)) \in [1 .. n -> Byte]
         /\ \A i \in 1 .. n : strcpy(dest, CString(w))[i] =
              IF i =< Len(w) + 1 THEN Padded(w, i) ELSE dest[i]
<1>1. \A i \in 1 .. n : i =< Len(w) + 1 => CString(w)[i] = Padded(w, i)
  BY TextBytes, CStringBytes DEF Padded
<1>2. \A i \in 1 .. n : strcpy(dest, CString(w))[i] =
        IF i =< Len(w) + 1 THEN Padded(w, i) ELSE dest[i]
  BY <1>1, strlenOfText DEF strcpy
<1>3. strcpy(dest, CString(w)) = [i \in 1 .. n |-> strcpy(dest, CString(w))[i]]
  BY DEF strcpy
<1> QED
  BY <1>2, <1>3, TextBytes

LEMMA memcmpZero ==
  ASSUME NEW a, NEW b, NEW n \in Nat
  PROVE  memcmp(a, b, n) = 0 <=> \A i \in 1 .. n : a[i] = b[i]
BY DEF memcmp

\* Both strings end at one position up to k, and agree before it.
SameString(a, b, k) ==
  \E i \in 1 .. k : /\ a[i] = NUL /\ b[i] = NUL
                    /\ \A j \in 1 .. i - 1 : a[j] = b[j] /\ a[j] # NUL

\* strcmp is zero if both strings end where the first of them does.
LEMMA strcmpZero ==
  ASSUME NEW m \in Nat, NEW n \in Nat, NEW a \in [1 .. m -> Byte],
         NEW b, DOMAIN b = 1 .. n, \A i \in 1 .. n : b[i] \in Byte,
         NEW k \in 1 .. m, k =< n, a[k] = NUL \/ a[k] # b[k]
  PROVE  strcmp(a, b) = 0 <=> SameString(a, b, k)
<1> DEFINE stops == Stops(a, b)
<1>1. \A i : i \in stops <=> /\ i \in 1 .. m /\ i \in 1 .. n
                             /\ a[i] # b[i] \/ a[i] = NUL
  BY DEF Stops
<1>2. PICK i \in stops : i =< k /\ \A j \in stops : i =< j
  <2>1. k \in stops
    BY <1>1
  <2>2. stops \in SUBSET Nat /\ stops # {}
    BY <1>1, <2>1
  <2> HIDE DEF stops
  <2>3. PICK i \in stops : \A j \in stops : i =< j
    BY <2>2, LeastNat
  <2> QED
    BY <2>1, <2>3
<1>3. Min(stops) = i
  BY <1>1, <1>2, MinIs
<1>4. a[i] \in Byte /\ b[i] \in Byte /\ i \in 1 .. k
  BY <1>1, <1>2
<1>5. strcmp(a, b) = 0 <=> a[i] = b[i]
  <2>1. strcmp(a, b) = IF a[i] < b[i] THEN -1 ELSE IF a[i] > b[i] THEN 1 ELSE 0
    BY <1>3 DEF strcmp
  <2>2. \A x, y \in Byte : x = y => ~(x < y) /\ ~(x > y)
    BY DEF Byte
  <2>3. \A x, y \in Byte : x # y => x < y \/ x > y
    BY DEF Byte
  <2> QED
    BY <1>4, <2>1, <2>2, <2>3
<1>6. \A j \in 1 .. i - 1 : a[j] = b[j] /\ a[j] # NUL
  BY <1>1, <1>2, <1>4
<1>7. ASSUME NEW l \in 1 .. k, a[l] = NUL, b[l] = NUL,
             \A j \in 1 .. l - 1 : a[j] = b[j] /\ a[j] # NUL
      PROVE  l = i
  <2>1. l \in stops
    BY <1>1, <1>7
  <2>2. ~(i < l)
    BY <1>1, <1>2, <1>7
  <2> QED
    BY <1>2, <2>1, <2>2, <1>4
<1> QED
  BY <1>1, <1>4, <1>5, <1>6, <1>7 DEF SameString

-----------------------------------------------------------------------------
(* Fields, and the words of a line.                                        *)

EntrySize == NameSize + ExtSize + 1

LEMMA FieldOfBytes ==
  ASSUME NEW n \in Nat, NEW f \in [1 .. n -> Byte]
  PROVE  f \in Seq(Byte) /\ Len(f) = n
OBVIOUS

LEMMA ZerosAre ==
  ASSUME NEW n \in Nat
  PROVE  /\ Zeros(n) \in [1 .. n -> Byte]
         /\ \A i \in 1 .. n : Zeros(n)[i] = NUL
BY DEF Zeros, Byte, NUL

\* What h is, when it holds the m bytes of f and then the n bytes of g.
Joins(h, f, m, g, n) ==
  /\ h \in [1 .. m + n -> Byte]
  /\ \A i \in 1 .. m : h[i] = f[i]
  /\ \A i \in 1 .. n : h[m + i] = g[i]

LEMMA Joined ==
  ASSUME NEW m \in Nat, NEW n \in Nat,
         NEW f \in [1 .. m -> Byte], NEW g \in [1 .. n -> Byte]
  PROVE  Joins(f \o g, f, m, g, n)
<1>1. f \in Seq(Byte) /\ g \in Seq(Byte) /\ Len(f) = m /\ Len(g) = n
  BY FieldOfBytes
<1>2. /\ f \o g \in Seq(Byte) /\ Len(f \o g) = m + n
      /\ \A i \in 1 .. m + n :
           (f \o g)[i] = IF i =< m THEN f[i] ELSE g[i - m]
  BY <1>1, ConcatProperties
<1>3. f \o g \in [1 .. m + n -> Byte]
  BY <1>2, LenProperties
<1>4. \A i \in 1 .. m : (f \o g)[i] = f[i]
  BY <1>2
<1>5. \A i \in 1 .. n : (f \o g)[m + i] = g[i]
  <2> TAKE i \in 1 .. n
  <2>1. m + i \in 1 .. m + n /\ ~(m + i =< m) /\ (m + i) - m = i
    OBVIOUS
  <2> QED
    BY <1>2, <2>1
<1> QED
  BY <1>3, <1>4, <1>5 DEF Joins

\* The bytes e of an entry have these fields.
HasFields(e, f, g, a) ==
  /\ e \in [1 .. EntrySize -> Byte]
  /\ \A i \in 1 .. NameSize : e[i] = f[i]
  /\ \A i \in 1 .. ExtSize : e[NameSize + i] = g[i]
  /\ e[EntrySize] = a

LEMMA EntryBytesAre ==
  ASSUME NEW f \in [1 .. NameSize -> Byte], NEW g \in [1 .. ExtSize -> Byte],
         NEW a \in Byte
  PROVE  HasFields(EntryBytes(f, g, a), f, g, a)
<1>1. NameSize \in Nat /\ ExtSize \in Nat
  BY NamesAssumption
<1>2. PICK one \in Nat : one = 1
  OBVIOUS
<1>3. <<a>> \in [1 .. one -> Byte] /\ <<a>>[one] = a
  BY <1>2
<1> DEFINE fg == f \o g
           e  == fg \o <<a>>
<1>4. /\ fg \in [1 .. NameSize + ExtSize -> Byte]
      /\ \A i \in 1 .. NameSize : fg[i] = f[i]
      /\ \A i \in 1 .. ExtSize : fg[NameSize + i] = g[i]
  <2>1. Joins(fg, f, NameSize, g, ExtSize)
    BY <1>1, Joined
  <2> QED
    BY <2>1 DEF Joins
<1> HIDE DEF fg
<1>5. NameSize + ExtSize \in Nat
  BY <1>1
<1>6. /\ e \in [1 .. NameSize + ExtSize + one -> Byte]
      /\ \A i \in 1 .. NameSize + ExtSize : e[i] = fg[i]
      /\ \A i \in 1 .. one : e[NameSize + ExtSize + i] = <<a>>[i]
  <2>1. Joins(e, fg, NameSize + ExtSize, <<a>>, one)
    BY <1>3, <1>4, <1>5, Joined
  <2> QED
    BY <2>1 DEF Joins
<1>7. e[NameSize + ExtSize + 1] = a
  <2>1. one \in 1 .. one
    BY <1>2
  <2>2. e[NameSize + ExtSize + one] = a
    BY <1>3, <1>6, <2>1
  <2> QED
    BY <1>2, <2>2
<1>8. EntryBytes(f, g, a) = e
  BY DEF EntryBytes, fg
<1> HIDE DEF e
<1>9. \A i \in 1 .. NameSize : e[i] = f[i]
  BY <1>1, <1>4, <1>6
<1>10. \A i \in 1 .. ExtSize : e[NameSize + i] = g[i]
  BY <1>1, <1>4, <1>6
<1> QED
  BY <1>2, <1>6, <1>7, <1>8, <1>9, <1>10 DEF EntrySize, HasFields

LEMMA FieldsOf ==
  ASSUME NEW n \in Nat, NameSize + ExtSize =< n, NEW m \in [1 .. n -> Byte]
  PROVE  /\ NameField(m) \in [1 .. NameSize -> Byte]
         /\ \A i \in 1 .. NameSize : NameField(m)[i] = m[i]
         /\ ExtField(m) \in [1 .. ExtSize -> Byte]
         /\ \A i \in 1 .. ExtSize : ExtField(m)[i] = m[NameSize + i]
<1>1. NameSize \in Nat \ {0} /\ ExtSize \in Nat \ {0}
  BY NamesAssumption
<1>2. /\ NameField(m) \in Seq(Byte) /\ Len(NameField(m)) = NameSize
      /\ \A i \in 1 .. NameSize : NameField(m)[i] = m[i]
  <2>1. \A i \in 1 .. NameSize : m[i] \in Byte
    BY <1>1
  <2> QED
    BY <1>1, <2>1, SubSeqProperties DEF NameField
<1>3. /\ ExtField(m) \in Seq(Byte) /\ Len(ExtField(m)) = ExtSize
      /\ \A i \in 1 .. ExtSize : ExtField(m)[i] = m[NameSize + i]
  <2>1. \A i \in NameSize + 1 .. NameSize + ExtSize : m[i] \in Byte
    BY <1>1
  <2>2. /\ NameSize + 1 \in Int /\ NameSize + ExtSize \in Int
        /\ NameSize + 1 =< NameSize + ExtSize
        /\ (NameSize + ExtSize) - (NameSize + 1) + 1 = ExtSize
        /\ \A i \in 1 .. ExtSize : (NameSize + 1) + i - 1 = NameSize + i
    BY <1>1
  <2> QED
    BY <1>1, <2>1, <2>2, SubSeqProperties DEF ExtField
<1> QED
  BY <1>2, <1>3, LenProperties

\* Two words with a byte in between, as they are typed.
IsTyped(u, v, b, w) ==
  /\ u \in Text /\ Len(u) = Len(v) + 1 + Len(w)
  /\ \A i \in 1 .. Len(v) : u[i] = v[i]
  /\ u[Len(v) + 1] = b
  /\ \A i \in 1 .. Len(w) : u[Len(v) + 1 + i] = w[i]

LEMMA TypedLine ==
  ASSUME NEW v \in Text, NEW w \in Text, NEW b \in 1 .. 127
  PROVE  IsTyped(v \o <<b>> \o w, v, b, w)
<1> DEFINE vb == v \o <<b>>
           u  == vb \o w
<1>1. v \in Text /\ <<b>> \in Text /\ Len(v) \in Nat /\ Len(w) \in Nat
      /\ Len(<<b>>) = 1 /\ <<b>>[1] = b
  BY TextBytes DEF Text
<1>2. /\ vb \in Text /\ Len(vb) = Len(v) + 1
      /\ \A i \in 1 .. Len(v) + 1 :
           vb[i] = IF i =< Len(v) THEN v[i] ELSE <<b>>[i - Len(v)]
  BY <1>1, ConcatProperties DEF Text
<1>3. /\ \A i \in 1 .. Len(v) : vb[i] = v[i]
      /\ vb[Len(v) + 1] = b
  <2>1. (Len(v) + 1) - Len(v) = 1
    BY <1>1
  <2> QED
    BY <1>1, <1>2, <2>1
<1> HIDE DEF vb
<1>4. /\ u \in Text /\ Len(u) = Len(vb) + Len(w)
      /\ \A i \in 1 .. Len(vb) + Len(w) :
           u[i] = IF i =< Len(vb) THEN vb[i] ELSE w[i - Len(vb)]
  <2>1. vb \in Seq(1 .. 127) /\ w \in Seq(1 .. 127)
    BY <1>2 DEF Text
  <2> QED
    BY <2>1, ConcatProperties DEF Text
<1> HIDE DEF u
<1>5. /\ \A i \in 1 .. Len(v) : u[i] = v[i]
      /\ u[Len(v) + 1] = b
  BY <1>1, <1>2, <1>3, <1>4
<1>6. \A i \in 1 .. Len(w) : u[Len(v) + 1 + i] = w[i]
  <2> TAKE i \in 1 .. Len(w)
  <2>1. /\ Len(v) + 1 + i \in 1 .. Len(vb) + Len(w)
        /\ ~(Len(v) + 1 + i =< Len(vb))
        /\ (Len(v) + 1 + i) - Len(vb) = i
    BY <1>1, <1>2
  <2> QED
    BY <1>4, <2>1
<1>7. Len(u) = Len(v) + 1 + Len(w)
  BY <1>2, <1>4
<1> QED
  BY <1>4, <1>5, <1>6, <1>7 DEF u, vb, IsTyped

LEMMA splitWord ==
  ASSUME NEW v \in Text, NEW w \in Text
  PROVE  split(CString(v \o <<Space>> \o w), Len(v) + 1)[2] = CString(w)
<1> DEFINE u   == v \o <<Space>> \o w
           buf == CString(u)
           n   == Len(v) + 1
<1>1. /\ u \in Text /\ Len(u) = n + Len(w)
      /\ \A i \in 1 .. Len(w) : u[n + i] = w[i]
      /\ Len(v) \in Nat /\ Len(w) \in Nat /\ Len(u) \in Nat
  <2>1. Space \in 1 .. 127
    BY DEF Space
  <2>2. IsTyped(u, v, Space, w)
    BY <2>1, TypedLine
  <2> HIDE DEF u
  <2>3. /\ u \in Text /\ Len(u) = n + Len(w)
        /\ \A i \in 1 .. Len(w) : u[n + i] = w[i]
    BY <2>2 DEF IsTyped
  <2> QED
    BY <2>3, TextBytes
<1> HIDE DEF u
<1>2. /\ strlen(buf) = Len(u)
      /\ \A i \in 1 .. Len(u) : buf[i] = u[i] /\ u[i] \in 1 .. 127
  BY <1>1, strlenOfText, CStringBytes, TextBytes
<1> HIDE DEF buf
<1> DEFINE s == SubSeq(buf, n + 1, strlen(buf))
<1>3. \A i \in n + 1 .. strlen(buf) : buf[i] \in 1 .. 127
  BY <1>1, <1>2
<1>4. /\ s \in Text
      /\ Len(s) = IF n + 1 =< strlen(buf) THEN strlen(buf) - (n + 1) + 1 ELSE 0
      /\ \A i \in 1 .. strlen(buf) - (n + 1) + 1 : s[i] = buf[(n + 1) + i - 1]
  <2>1. n + 1 \in Int /\ strlen(buf) \in Int
    BY <1>1, <1>2
  <2> QED
    BY <1>3, <2>1, SubSeqProperties DEF Text
<1> HIDE DEF s
<1>5. Len(s) = Len(w)
  BY <1>1, <1>2, <1>4
<1>6. \A i \in 1 .. Len(w) : s[i] = w[i]
  <2> TAKE i \in 1 .. Len(w)
  <2>1. /\ i \in 1 .. strlen(buf) - (n + 1) + 1 /\ (n + 1) + i - 1 = n + i
        /\ n + i \in 1 .. Len(u)
    BY <1>1, <1>2
  <2> QED
    BY <1>1, <1>2, <1>4, <2>1
<1>7. s = w
  BY <1>4, <1>5, <1>6, SeqEqual DEF Text
<1> QED
  BY <1>7 DEF split, s, buf, u

LEMMA split_extName ==
  ASSUME NEW v \in Text, NEW w \in Text, \A i \in 1 .. Len(v) : v[i] # Dot
  PROVE  split_ext(CString(v \o <<Dot>> \o w))[1] = CString(v)
<1> DEFINE u    == v \o <<Dot>> \o w
           buf  == CString(u)
           ends == {i \in 1 .. strlen(buf) : buf[i] = Dot} \cup {strlen(buf) + 1}
<1>1. /\ u \in Text /\ Len(u) = Len(v) + 1 + Len(w)
      /\ \A i \in 1 .. Len(v) : u[i] = v[i]
      /\ u[Len(v) + 1] = Dot
      /\ Len(v) \in Nat /\ Len(w) \in Nat /\ Len(u) \in Nat
  <2>1. Dot \in 1 .. 127
    BY DEF Dot
  <2>2. IsTyped(u, v, Dot, w)
    BY <2>1, TypedLine
  <2> HIDE DEF u
  <2>3. /\ u \in Text /\ Len(u) = Len(v) + 1 + Len(w)
        /\ \A i \in 1 .. Len(v) : u[i] = v[i]
        /\ u[Len(v) + 1] = Dot
    BY <2>2 DEF IsTyped
  <2> QED
    BY <2>3, TextBytes
<1> HIDE DEF u
<1>2. /\ strlen(buf) = Len(u)
      /\ \A i \in 1 .. Len(u) : buf[i] = u[i] /\ u[i] \in 1 .. 127
  BY <1>1, strlenOfText, CStringBytes, TextBytes
<1> HIDE DEF buf
<1>3. Min(ends) = Len(v) + 1
  <2>1. ends \subseteq Int /\ Len(v) + 1 \in ends
    BY <1>1, <1>2
  <2>2. \A i \in ends : Len(v) + 1 =< i
    BY <1>1, <1>2
  <2> QED
    BY <2>1, <2>2, MinIs
<1> HIDE DEF ends
<1>4. SubSeq(buf, 1, Min(ends) - 1) = v
  <2>1. Min(ends) - 1 = Len(v)
    BY <1>1, <1>3
  <2>2. \A i \in 1 .. Len(v) : buf[i] \in 1 .. 127 /\ buf[i] = v[i]
    <3> TAKE i \in 1 .. Len(v)
    <3>1. i \in 1 .. Len(u)
      BY <1>1
    <3> QED
      BY <1>1, <1>2, <3>1
  <2> DEFINE s == SubSeq(buf, 1, Len(v))
  <2>3. /\ s \in Text /\ Len(s) = Len(v)
        /\ \A i \in 1 .. Len(v) : s[i] = v[i]
    BY <1>1, <2>2, SubSeqProperties DEF Text
  <2> HIDE DEF s
  <2>4. s = v
    BY <2>3, SeqEqual DEF Text
  <2> QED
    BY <2>1, <2>4 DEF s
<1> QED
  BY <1>4 DEF split_ext, buf, u, ends

LEMMA FolderRequestBytes ==
  /\ FolderRequest \in [1 .. NameSize + ExtSize + 4 -> Byte]
  /\ \A i \in 1 .. NameSize + ExtSize : FolderRequest[i] = NUL
  /\ FolderRequest[NameSize + ExtSize + 1] = Parent[1]
  /\ FolderRequest[NameSize + ExtSize + 2] = Parent[2]
  /\ FolderRequest[NameSize + ExtSize + 3] = NUL
  /\ FolderRequest[NameSize + ExtSize + 4] = NUL
<1> DEFINE n == NameSize + ExtSize
           f == Zeros(n) \o Parent
           g == f \o Zeros(2)
<1>1. PICK two \in Nat : two = 2
  OBVIOUS
<1>2. n \in Nat /\ n + two \in Nat
  BY <1>1, NamesAssumption
<1>3. Parent \in [1 .. two -> Byte]
  BY <1>1 DEF Parent, Byte
<1>4. Zeros(n) \in [1 .. n -> Byte] /\ Zeros(two) \in [1 .. two -> Byte]
      /\ Zeros(two)[1] = NUL /\ Zeros(two)[2] = NUL
  <2>1. 1 \in 1 .. two /\ 2 \in 1 .. two
    BY <1>1
  <2> QED
    BY <1>2, <2>1, ZerosAre
<1> HIDE DEF n
<1>5. /\ f \in [1 .. n + two -> Byte]
      /\ \A i \in 1 .. n : f[i] = NUL
      /\ \A i \in 1 .. two : f[n + i] = Parent[i]
  <2>1. \A i \in 1 .. n : Zeros(n)[i] = NUL
    BY <1>2, ZerosAre
  <2>2. Joins(f, Zeros(n), n, Parent, two)
    BY <1>2, <1>3, <1>4, Joined
  <2> HIDE DEF f
  <2> QED
    BY <2>1, <2>2 DEF Joins
<1> HIDE DEF f
<1>6. g = f \o Zeros(two)
  BY <1>1
<1> HIDE DEF g
<1>7. /\ g \in [1 .. (n + two) + two -> Byte]
      /\ \A i \in 1 .. n + two : g[i] = f[i]
      /\ \A i \in 1 .. two : g[(n + two) + i] = Zeros(two)[i]
  <2> DEFINE h == f \o Zeros(two)
  <2>1. Joins(h, f, n + two, Zeros(two), two)
    BY <1>2, <1>4, <1>5, Joined
  <2>2. g = h
    BY <1>6
  <2> HIDE DEF h
  <2> QED
    BY <2>1, <2>2 DEF Joins
<1>8. FolderRequest = g
  BY DEF FolderRequest, g, f, n
<1>9. g[n + 1] = Parent[1] /\ g[n + 2] = Parent[2]
  <2>1. /\ n + 1 \in 1 .. n + two /\ n + 2 \in 1 .. n + two
        /\ 1 \in 1 .. two /\ 2 \in 1 .. two
    BY <1>1, <1>2
  <2> QED
    BY <1>5, <1>7, <2>1
<1>10. g[n + 3] = NUL /\ g[n + 4] = NUL
  <2>1. /\ (n + two) + 1 = n + 3 /\ (n + two) + 2 = n + 4
        /\ 1 \in 1 .. two /\ 2 \in 1 .. two
    BY <1>1, <1>2
  <2>2. g[(n + two) + 1] = NUL /\ g[(n + two) + 2] = NUL
    BY <1>4, <1>7, <2>1
  <2> QED
    BY <2>1, <2>2
<1>11. g \in [1 .. n + 4 -> Byte]
  <2>1. (n + two) + two = n + 4
    BY <1>1, <1>2
  <2> QED
    BY <1>7, <2>1
<1>12. \A i \in 1 .. n : g[i] = NUL
  BY <1>1, <1>2, <1>5, <1>7
<1> QED
  BY <1>8, <1>9, <1>10, <1>11, <1>12 DEF n

-----------------------------------------------------------------------------
(* Which words match an entry.                                             *)

LEMMA PaddedEnds ==
  ASSUME NEW w \in Text, NEW i \in Nat \ {0}, Padded(w, i) = NUL
  PROVE  /\ Len(w) < i
         /\ \A j \in Nat : i =< j => Padded(w, j) = NUL
<1>1. Len(w) < i
  BY TextBytes DEF Padded
<1> QED
  BY <1>1, TextBytes DEF Padded

IsPart(s, m, a, k) ==
  s \in Seq(Byte) /\ Len(s) = k /\ \A i \in 1 .. k : s[i] = m[a + i]

LEMMA SubSeqFrom ==
  ASSUME NEW n \in Nat, NEW m \in [1 .. n -> Byte],
         NEW a \in Nat, NEW k \in Nat, a + k =< n
  PROVE  IsPart(SubSeq(m, a + 1, a + k), m, a, k)
<1>1. \A i \in a + 1 .. a + k : m[i] \in Byte
  OBVIOUS
<1>2. /\ a + 1 \in Int /\ a + k \in Int
      /\ (IF a + 1 =< a + k THEN (a + k) - (a + 1) + 1 ELSE 0) = k
      /\ 1 .. (a + k) - (a + 1) + 1 = 1 .. k
      /\ \A i \in 1 .. k : (a + 1) + i - 1 = a + i
  OBVIOUS
<1> DEFINE s == SubSeq(m, a + 1, a + k)
<1>3. /\ s \in Seq(Byte)
      /\ Len(s) = IF a + 1 =< a + k THEN (a + k) - (a + 1) + 1 ELSE 0
      /\ \A i \in 1 .. (a + k) - (a + 1) + 1 : s[i] = m[(a + 1) + i - 1]
  BY <1>1, <1>2, SubSeqProperties
<1> HIDE DEF s
<1>4. IsPart(s, m, a, k)
  BY <1>2, <1>3 DEF IsPart
<1> QED
  BY <1>4 DEF s

\* cd's comparison, of an entry and of a name with no extension.
LEMMA FolderMatched ==
  ASSUME NEW w \in Text, NEW x \in Text, Len(x) =< NameSize,
         NEW a \in [1 .. EntrySize -> Byte], NEW b \in [1 .. EntrySize -> Byte],
         \A i \in 1 .. NameSize : a[i] = Padded(w, i) /\ b[i] = Padded(x, i),
         a[NameSize + 1] = NUL, b[NameSize + 1] = NUL
  PROVE  strcmp(a, b) = 0 <=>
           \A i \in 1 .. NameSize : Padded(w, i) = Padded(x, i)
<1> DEFINE k == NameSize + 1
<1>1. /\ EntrySize \in Nat /\ k \in 1 .. EntrySize /\ k =< EntrySize
      /\ NameSize \in Nat \ {0} /\ Len(x) \in Nat
  BY NamesAssumption, TextBytes DEF EntrySize
<1>2. strcmp(a, b) = 0 <=>
        \E i \in 1 .. k : /\ a[i] = NUL /\ b[i] = NUL
                          /\ \A j \in 1 .. i - 1 : a[j] = b[j] /\ a[j] # NUL
  <2>1. DOMAIN b = 1 .. EntrySize /\ \A i \in 1 .. EntrySize : b[i] \in Byte
    OBVIOUS
  <2>2. a[k] = NUL
    OBVIOUS
  <2> HIDE DEF k
  <2>3. strcmp(a, b) = 0 <=> SameString(a, b, k)
    BY <1>1, <2>1, <2>2, strcmpZero
  <2> QED
    BY <2>3 DEF SameString
<1>3. ASSUME \A i \in 1 .. NameSize : Padded(w, i) = Padded(x, i)
      PROVE  strcmp(a, b) = 0
  <2> DEFINE i == Len(x) + 1
  <2>1. i \in 1 .. k
    BY <1>1
  <2>2. a[i] = NUL /\ b[i] = NUL
    <3>1. CASE Len(x) = NameSize
      BY <3>1
    <3>2. CASE Len(x) < NameSize
      <4>1. i \in 1 .. NameSize /\ Padded(x, i) = NUL
        BY <1>1, <3>2 DEF Padded
      <4> QED
        BY <1>3, <4>1
    <3> QED
      BY <1>1, <3>1, <3>2
  <2>3. \A j \in 1 .. i - 1 : a[j] = b[j] /\ a[j] # NUL
    <3> TAKE j \in 1 .. i - 1
    <3>1. j \in 1 .. NameSize /\ j \in 1 .. Len(x)
      BY <1>1
    <3>2. Padded(x, j) # NUL
      BY <3>1, TextBytes DEF Padded
    <3> QED
      BY <1>3, <3>1, <3>2
  <2> QED
    BY <1>2, <2>1, <2>2, <2>3
<1>4. ASSUME NEW i \in 1 .. k, a[i] = NUL, b[i] = NUL,
             \A j \in 1 .. i - 1 : a[j] = b[j] /\ a[j] # NUL,
             NEW j \in 1 .. NameSize
      PROVE  Padded(w, j) = Padded(x, j)
  <2>1. CASE j < i
    BY <1>1, <1>4, <2>1
  <2>2. CASE ~(j < i)
    <3>1. i \in 1 .. NameSize /\ i \in Nat \ {0} /\ j \in Nat /\ i =< j
      BY <1>1, <2>2
    <3>2. Padded(w, i) = NUL /\ Padded(x, i) = NUL
      BY <1>4, <3>1
    <3> QED
      BY <3>1, <3>2, PaddedEnds
  <2> QED
    BY <2>1, <2>2
<1> QED
  BY <1>2, <1>3, <1>4

\* cp's and rm's comparison, of an entry and of a word.
LEMMA FileMatched ==
  ASSUME NEW a \in [1 .. EntrySize -> Byte], a[EntrySize] = NUL, NEW x \in Text
  PROVE  strcmp(a, CString(x)) = 0 <=>
           /\ Len(x) + 1 =< EntrySize /\ a[Len(x) + 1] = NUL
           /\ \A j \in 1 .. Len(x) : a[j] = x[j]
<1> DEFINE b == CString(x)
           n == Len(x) + 1
           k == IF n =< EntrySize THEN n ELSE EntrySize
<1>1. EntrySize \in Nat \ {0} /\ n \in Nat \ {0} /\ Len(x) \in Nat
  BY NamesAssumption, TextBytes DEF EntrySize
<1>2. /\ DOMAIN b = 1 .. n /\ b[n] = NUL
      /\ \A i \in 1 .. n : b[i] \in Byte
      /\ \A i \in 1 .. Len(x) : b[i] = x[i] /\ b[i] # NUL
  <2>1. b \in Seq(Byte) /\ Len(b) = n
    BY CStringBytes
  <2>2. b \in [1 .. n -> Byte]
    BY <2>1, LenProperties
  <2> QED
    BY <2>2, CStringBytes, TextBytes
<1> HIDE DEF b
<1>3. strcmp(a, b) = 0 <=>
        \E i \in 1 .. k : /\ a[i] = NUL /\ b[i] = NUL
                          /\ \A j \in 1 .. i - 1 : a[j] = b[j] /\ a[j] # NUL
  <2>1. k \in 1 .. EntrySize /\ k =< n /\ (a[k] = NUL \/ a[k] # b[k])
    BY <1>1, <1>2
  <2>2. /\ DOMAIN b = 1 .. n /\ \A i \in 1 .. n : b[i] \in Byte
        /\ EntrySize \in Nat /\ n \in Nat
    BY <1>1, <1>2
  <2> HIDE DEF k, n
  <2>3. strcmp(a, b) = 0 <=> SameString(a, b, k)
    BY <2>1, <2>2, strcmpZero
  <2> QED
    BY <2>3 DEF SameString
<1>4. ASSUME n =< EntrySize, a[n] = NUL, \A j \in 1 .. Len(x) : a[j] = x[j]
      PROVE  strcmp(a, b) = 0
  <2>1. n \in 1 .. k
    BY <1>1, <1>4
  <2>2. \A j \in 1 .. n - 1 : a[j] = b[j] /\ a[j] # NUL
    <3> TAKE j \in 1 .. n - 1
    <3>1. j \in 1 .. Len(x)
      BY <1>1
    <3> QED
      BY <1>2, <1>4, <3>1
  <2> QED
    BY <1>2, <1>3, <1>4, <2>1, <2>2
<1>5. ASSUME NEW i \in 1 .. k, a[i] = NUL, b[i] = NUL,
             \A j \in 1 .. i - 1 : a[j] = b[j] /\ a[j] # NUL
      PROVE  n =< EntrySize /\ a[n] = NUL /\ \A j \in 1 .. Len(x) : a[j] = x[j]
  <2>1. i = n
    <3>1. i \notin 1 .. Len(x)
      BY <1>2, <1>5
    <3> QED
      BY <1>1, <3>1
  <2>2. \A j \in 1 .. Len(x) : a[j] = x[j]
    <3> TAKE j \in 1 .. Len(x)
    <3>1. j \in 1 .. i - 1
      BY <1>1, <2>1
    <3> QED
      BY <1>2, <1>5, <3>1
  <2>3. n =< EntrySize
    BY <1>1, <2>1
  <2> QED
    BY <1>5, <2>1, <2>2, <2>3
<1> QED
  BY <1>3, <1>4, <1>5 DEF b

\* A word that is cut to the size of the field.
LEMMA CutWord ==
  ASSUME NEW w \in Text
  PROVE  LET t == SubSeq(w, 1, Min({Len(w), NameSize})) IN
           /\ t \in Text /\ Len(t) =< NameSize
           /\ \A i \in 1 .. NameSize : Padded(t, i) = Padded(w, i)
<1> DEFINE n == Min({Len(w), NameSize})
           t == SubSeq(w, 1, n)
<1>1. Len(w) \in Nat /\ NameSize \in Nat
  BY TextBytes, NamesAssumption
<1>2. n = IF Len(w) =< NameSize THEN Len(w) ELSE NameSize
  <2>1. CASE Len(w) =< NameSize
    <3>1. Min({Len(w), NameSize}) = Len(w)
      BY <1>1, <2>1, MinIs
    <3> QED
      BY <2>1, <3>1
  <2>2. CASE ~(Len(w) =< NameSize)
    <3>1. Min({Len(w), NameSize}) = NameSize
      BY <1>1, <2>2, MinIs
    <3> QED
      BY <2>2, <3>1
  <2> QED
    BY <2>1, <2>2
<1> HIDE DEF n
<1>3. n \in Nat /\ n =< Len(w) /\ n =< NameSize
  BY <1>1, <1>2
<1>4. /\ t \in Text /\ Len(t) = n
      /\ \A i \in 1 .. n : t[i] = w[i]
  <2>1. \A i \in 1 .. n : w[i] \in 1 .. 127
    BY <1>1, <1>3, TextBytes
  <2>2. PICK one \in Int : one = 1
    OBVIOUS
  <2>3. /\ n \in Int
        /\ (IF one =< n THEN n - one + 1 ELSE 0) = n
        /\ n - one + 1 = n /\ \A i \in 1 .. n : one + i - 1 = i
        /\ one .. n = 1 .. n
    BY <1>3, <2>2
  <2>4. /\ SubSeq(w, one, n) \in Text /\ Len(SubSeq(w, one, n)) = n
        /\ \A i \in 1 .. n : SubSeq(w, one, n)[i] = w[i]
    BY <2>1, <2>3, SubSeqProperties DEF Text
  <2> QED
    BY <2>2, <2>4
<1> HIDE DEF t
<1>5. \A i \in 1 .. NameSize : Padded(t, i) = Padded(w, i)
  BY <1>1, <1>2, <1>4 DEF Padded
<1> QED
  BY <1>3, <1>4, <1>5 DEF t, n

-----------------------------------------------------------------------------
(* The inductive invariant: what the fields of the entry hold.             *)

\* A folder whose word fits name and extension is where it was asked for.
FolderBytes ==
  kind = "folder" /\ Len(word) < NameSize + ExtSize =>
    /\ SubSeq(request, NameSize + ExtSize + 1, NameSize + ExtSize + 2) = Parent
    /\ \A i \in 1 .. NameSize : entry[i] = Padded(word, i)
    /\ \A i \in 1 .. ExtSize : entry[NameSize + i] = NUL

\* The fields of a file are its word and its extension, cut and padded.
FileBytes ==
  stage # "empty" /\ kind = "file" =>
    /\ filesize \in Sizes /\ Len(word) >= 1
    /\ \A i \in 1 .. NameSize : entry[i] = Padded(word, i)
    /\ \A i \in 1 .. ExtSize : entry[NameSize + i] = Padded(ext, i)
    /\ entry[EntrySize] = NUL

NamesInv ==
  /\ NamesTypeOK
  /\ FolderBytes
  /\ FileBytes
  /\ FolderFoundByName
  /\ FileFoundByName

LEMMA SmallConstants ==
  /\ NameSize \in Nat \ {0} /\ ExtSize \in Nat \ {0} /\ EntrySize \in Nat \ {0}
  /\ EntrySize = NameSize + ExtSize + 1
  /\ MaxWord \in Nat /\ NameSize + 1 =< MaxWord
BY NamesAssumption DEF EntrySize

LEMMA WordsWithin ==
  ASSUME NEW L \in SUBSET Nat, NEW M \in SUBSET Nat, L \subseteq M
  PROVE  Words(L) \subseteq Words(M)
BY DEF Words

LEMMA NoWord ==
  ASSUME NEW n \in Nat
  PROVE  << >> \in Words(0 .. n)
<1>1. << >> \in Seq(Letters) /\ Len(<< >>) \in 0 .. n /\ 0 .. n \in SUBSET Nat
  OBVIOUS
<1> QED
  BY <1>1, WordOfLetters

LEMMA InitHolds == NamesInit => NamesInv
<1> SUFFICES ASSUME NamesInit PROVE NamesInv
  OBVIOUS
<1>1. Zeros(EntrySize) \in [1 .. EntrySize -> Byte]
  BY SmallConstants, ZerosAre
<1>2. << >> \in Words(0 .. MaxWord) /\ << >> \in Words(0 .. ExtSize)
  BY SmallConstants, NoWord
<1>3. << >> \in Seq(Byte) /\ FALSE \in BOOLEAN
  OBVIOUS
<1>4. FolderRequest \in [1 .. NameSize + ExtSize + 4 -> Byte]
  BY FolderRequestBytes
<1>5. NamesTypeOK
  BY <1>1, <1>2, <1>3, <1>4 DEF NamesInit, NamesTypeOK, Byte, EntrySize
<1> QED
  BY <1>5 DEF NamesInit, NamesInv, FolderBytes, FileBytes, FolderFoundByName,
              FileFoundByName

LEMMA AgainKeeps ==
  ASSUME NamesInv, Again
  PROVE  NamesInv'
<1>1. Zeros(EntrySize) \in [1 .. EntrySize -> Byte]
  BY SmallConstants, ZerosAre
<1>2. << >> \in Words(0 .. MaxWord) /\ << >> \in Words(0 .. ExtSize)
  BY SmallConstants, NoWord
<1>3. << >> \in Seq(Byte) /\ FALSE \in BOOLEAN
  OBVIOUS
<1>4. FolderRequest \in [1 .. NameSize + ExtSize + 4 -> Byte]
  BY FolderRequestBytes
<1>5. NamesTypeOK'
  BY <1>1, <1>2, <1>3, <1>4 DEF Again, NamesTypeOK, Byte, EntrySize
<1> QED
  BY <1>5 DEF Again, NamesInv, FolderBytes, FileBytes, FolderFoundByName,
              FileFoundByName

\* mkdir copies the word: the fields behind it stay as they were.
LEMMA RequestOf ==
  ASSUME NEW w \in Text, NEW r, r = strcpy(FolderRequest, CString(w))
  PROVE  /\ r \in [1 .. NameSize + ExtSize + 4 -> Byte]
         /\ Len(w) < NameSize + ExtSize =>
              /\ \A i \in 1 .. NameSize : r[i] = Padded(w, i)
              /\ \A k \in 1 .. 4 : r[NameSize + ExtSize + k] =
                                     FolderRequest[NameSize + ExtSize + k]
<1> DEFINE n == NameSize + ExtSize + 4
<1>1. n \in Nat /\ Len(w) \in Nat
  BY SmallConstants, TextBytes
<1>2. FolderRequest \in [1 .. n -> Byte]
  BY FolderRequestBytes
<1>3. /\ r \in [1 .. n -> Byte]
      /\ \A i \in 1 .. n : r[i] = IF i =< Len(w) + 1 THEN Padded(w, i)
                                  ELSE FolderRequest[i]
  <2> HIDE DEF n
  <2> QED
    BY <1>1, <1>2, strcpyOfText
<1>4. ASSUME Len(w) < NameSize + ExtSize, NEW i \in 1 .. NameSize
      PROVE  r[i] = Padded(w, i)
  <2>1. i \in 1 .. n /\ i \in 1 .. NameSize + ExtSize
    BY SmallConstants
  <2>2. CASE i =< Len(w) + 1
    BY <1>3, <2>1, <2>2
  <2>3. CASE ~(i =< Len(w) + 1)
    BY <1>1, <1>3, <2>1, <2>3, FolderRequestBytes DEF Padded
  <2> QED
    BY <2>2, <2>3
<1>5. ASSUME Len(w) < NameSize + ExtSize, NEW k \in 1 .. 4
      PROVE  r[NameSize + ExtSize + k] = FolderRequest[NameSize + ExtSize + k]
  <2>1. /\ NameSize + ExtSize + k \in 1 .. n
        /\ ~(NameSize + ExtSize + k =< Len(w) + 1)
    BY <1>1, <1>5, SmallConstants
  <2> QED
    BY <1>3, <2>1
<1> QED
  BY <1>3, <1>4, <1>5

LEMMA RequestEnds ==
  ASSUME NEW r \in [1 .. NameSize + ExtSize + 4 -> Byte],
         \A k \in 1 .. 4 : r[NameSize + ExtSize + k] =
                             FolderRequest[NameSize + ExtSize + k]
  PROVE  /\ SubSeq(r, NameSize + ExtSize + 1, NameSize + ExtSize + 2) = Parent
         /\ SubSeq(r, NameSize + ExtSize + 1, Len(r)) = Parent \o Zeros(2)
<1> DEFINE a == NameSize + ExtSize
           n == a + 4
<1>1. a \in Nat /\ n \in Nat /\ Len(r) = n
  BY SmallConstants
<1>2. /\ r[a + 1] = Parent[1] /\ r[a + 2] = Parent[2]
      /\ r[a + 3] = NUL /\ r[a + 4] = NUL
  BY FolderRequestBytes
<1>3. r \in [1 .. n -> Byte]
  OBVIOUS
<1> HIDE DEF a
<1>4. SubSeq(r, a + 1, a + 2) = Parent
  <2>1. PICK k \in Nat : k = 2
    OBVIOUS
  <2> DEFINE s == SubSeq(r, a + 1, a + k)
  <2>2. a + k =< n /\ n \in Nat /\ a \in Nat
    BY <1>1, <2>1
  <2> HIDE DEF n
  <2>3. s \in Seq(Byte) /\ Len(s) = k /\ \A i \in 1 .. k : s[i] = r[a + i]
    <3>1. IsPart(s, r, a, k)
      BY <1>3, <2>2, SubSeqFrom
    <3> QED
      BY <3>1 DEF IsPart
  <2> HIDE DEF s
  <2>4. Len(s) = 2 /\ s[1] = Parent[1] /\ s[2] = Parent[2]
    BY <1>2, <2>1, <2>3
  <2>5. Parent \in Seq(Byte) /\ Len(Parent) = 2
    BY DEF Parent, Byte
  <2>6. s = Parent
    <3>1. \A i \in 1 .. Len(s) : s[i] = Parent[i]
      BY <2>4
    <3> QED
      BY <2>3, <2>4, <2>5, <3>1, SeqEqual
  <2> QED
    BY <2>1, <2>6 DEF s
<1>5. SubSeq(r, a + 1, n) = Parent \o Zeros(2)
  <2>1. PICK k \in Nat : k = 4
    OBVIOUS
  <2> DEFINE s == SubSeq(r, a + 1, a + k)
             t == Parent \o Zeros(2)
  <2>2. a + k =< n /\ n \in Nat /\ a \in Nat
    BY <1>1, <2>1
  <2>n. a + k = n
    BY <2>1
  <2> HIDE DEF n
  <2>3. s \in Seq(Byte) /\ Len(s) = k /\ \A i \in 1 .. k : s[i] = r[a + i]
    <3>1. IsPart(s, r, a, k)
      BY <1>3, <2>2, SubSeqFrom
    <3> QED
      BY <3>1 DEF IsPart
  <2> HIDE DEF s
  <2>4. /\ Len(s) = 4 /\ s[1] = Parent[1] /\ s[2] = Parent[2]
        /\ s[3] = NUL /\ s[4] = NUL
    BY <1>2, <2>1, <2>3
  <2>5. PICK two \in Nat : two = 2
    OBVIOUS
  <2>6. t \in Seq(Byte) /\ Len(t) = 4 /\ t[1] = Parent[1] /\ t[2] = Parent[2]
        /\ t[3] = NUL /\ t[4] = NUL
    <3> DEFINE u == Parent \o Zeros(two)
    <3>1. Parent \in [1 .. two -> Byte] /\ Zeros(two) \in [1 .. two -> Byte]
      <4>1. Zeros(two) \in [1 .. two -> Byte]
        BY ZerosAre
      <4>2. Parent \in [1 .. two -> Byte]
        BY <2>5 DEF Parent, Byte
      <4> QED
        BY <4>1, <4>2
    <3>2. /\ u \in [1 .. two + two -> Byte]
          /\ \A i \in 1 .. two : u[i] = Parent[i]
          /\ \A i \in 1 .. two : u[two + i] = Zeros(two)[i]
      <4>1. Joins(u, Parent, two, Zeros(two), two)
        BY <3>1, Joined
      <4> QED
        BY <4>1 DEF Joins
    <3>3. \A i \in 1 .. two : Zeros(two)[i] = NUL
      BY ZerosAre
    <3>4. t = u
      BY <2>5
    <3> HIDE DEF t, u
    <3>5. two + two \in Nat /\ two + two = 4
      BY <2>5
    <3>6. u \in Seq(Byte) /\ Len(u) = 4
      BY <3>2, <3>5, FieldOfBytes
    <3>7. u[1] = Parent[1] /\ u[2] = Parent[2]
      BY <2>5, <3>2
    <3>8. u[2 + 1] = NUL /\ u[2 + 2] = NUL
      BY <2>5, <3>2, <3>3
    <3> QED
      BY <3>4, <3>6, <3>7, <3>8
  <2> HIDE DEF t
  <2>7. s = t
    <3>1. \A i \in 1 .. Len(s) : s[i] = t[i]
      BY <2>4, <2>6
    <3> QED
      BY <2>3, <2>4, <2>6, <3>1, SeqEqual
  <2> QED
    BY <2>7, <2>n DEF s, t
<1> QED
  BY <1>1, <1>4, <1>5 DEF a

LEMMA MkdirKeeps ==
  ASSUME NamesInv, NEW w \in Words(1 .. MaxWord), Mkdir(w)
  PROVE  NamesInv'
<1>1. w \in Text /\ w \in Words(0 .. MaxWord) /\ Len(w) \in Nat
  <2>1. 1 .. MaxWord \in SUBSET Nat /\ 0 .. MaxWord \in SUBSET Nat
        /\ 1 .. MaxWord \subseteq 0 .. MaxWord
    BY SmallConstants
  <2>2. w \in Text /\ w \in Words(0 .. MaxWord)
    BY <2>1, BytesOfWords, WordsWithin
  <2> QED
    BY <2>2, TextBytes
<1> DEFINE a == NameSize + ExtSize
<1>2. request' = strcpy(FolderRequest, CString(w))
  BY DEF Mkdir
<1>3. /\ request' \in [1 .. a + 4 -> Byte]
      /\ Len(w) < a =>
           /\ \A i \in 1 .. NameSize : request'[i] = Padded(w, i)
           /\ \A k \in 1 .. 4 : request'[a + k] = FolderRequest[a + k]
  BY <1>1, <1>2, RequestOf
<1>4. /\ NameField(request') \in [1 .. NameSize -> Byte]
      /\ \A i \in 1 .. NameSize : NameField(request')[i] = request'[i]
  <2>1. PICK n \in Nat : n = a + 4
    BY SmallConstants
  <2>2. request' \in [1 .. n -> Byte] /\ a =< n
    BY <1>3, <2>1, SmallConstants
  <2> QED
    BY <2>2, FieldsOf
<1> DEFINE e == EntryBytes(NameField(request'), Zeros(ExtSize), ATTR_SUBDIRECTORY)
<1>5. /\ e \in [1 .. EntrySize -> Byte]
      /\ \A i \in 1 .. NameSize : e[i] = NameField(request')[i]
      /\ \A i \in 1 .. ExtSize : e[NameSize + i] = NUL
  <2>1. /\ Zeros(ExtSize) \in [1 .. ExtSize -> Byte]
        /\ \A i \in 1 .. ExtSize : Zeros(ExtSize)[i] = NUL
    BY SmallConstants, ZerosAre
  <2>2. ATTR_SUBDIRECTORY \in Byte
    BY DEF ATTR_SUBDIRECTORY, Byte
  <2>3. /\ e \in [1 .. EntrySize -> Byte]
        /\ \A i \in 1 .. NameSize : e[i] = NameField(request')[i]
        /\ \A i \in 1 .. ExtSize : e[NameSize + i] = Zeros(ExtSize)[i]
    <3>1. HasFields(e, NameField(request'), Zeros(ExtSize), ATTR_SUBDIRECTORY)
      BY <1>4, <2>1, <2>2, EntryBytesAre
    <3> QED
      BY <3>1 DEF HasFields
  <2> HIDE DEF e
  <2> QED
    BY <2>1, <2>3
<1>6. entry' = IF SubSeq(request', a + 1, Len(request')) = Parent \o Zeros(2)
                 THEN e ELSE entry
  BY DEF Mkdir
<1> HIDE DEF e
<1>7. NamesTypeOK'
  <2>1. entry' \in [1 .. EntrySize -> Byte]
    BY <1>5, <1>6 DEF NamesInv, NamesTypeOK, Byte, EntrySize
  <2> QED
    BY <1>1, <1>3, <2>1 DEF NamesInv, NamesTypeOK, Mkdir, Byte, EntrySize
<1>8. FolderBytes'
  <2> SUFFICES ASSUME Len(w) < a
               PROVE  /\ SubSeq(request', a + 1, a + 2) = Parent
                      /\ \A i \in 1 .. NameSize : entry'[i] = Padded(w, i)
                      /\ \A i \in 1 .. ExtSize : entry'[NameSize + i] = NUL
    BY DEF FolderBytes, Mkdir
  <2>1. PICK r \in [1 .. a + 4 -> Byte] : r = request'
    BY <1>3
  <2>2. /\ SubSeq(r, a + 1, a + 2) = Parent
        /\ SubSeq(r, a + 1, Len(r)) = Parent \o Zeros(2)
    BY <1>3, <2>1, RequestEnds
  <2>3. entry' = e
    BY <1>6, <2>1, <2>2
  <2> QED
    BY <1>3, <1>4, <1>5, <2>1, <2>2, <2>3
<1> QED
  BY <1>7, <1>8 DEF NamesInv, Mkdir, FileBytes, FolderFoundByName, FileFoundByName

LEMMA CpToKeeps ==
  ASSUME NamesInv, NEW from \in Words({1}), NEW w \in Words(1 .. NameSize + 1),
         NEW e \in Words(0 .. ExtSize), NEW size \in Sizes,
         CpTo(from, w, e, size)
  PROVE  NamesInv'
<1>1. /\ from \in Text /\ w \in Text /\ e \in Text /\ w \in Words(0 .. MaxWord)
      /\ Len(w) >= 1
  <2>1. {1} \in SUBSET Nat
    OBVIOUS
  <2>2. 1 .. NameSize + 1 \in SUBSET Nat /\ 0 .. ExtSize \in SUBSET Nat
        /\ 0 .. MaxWord \in SUBSET Nat /\ 1 .. NameSize + 1 \subseteq 0 .. MaxWord
    BY SmallConstants
  <2>3. Len(w) \in 1 .. NameSize + 1
    BY <2>2, BytesOfWords
  <2>4. Len(w) >= 1
    BY <2>3, SmallConstants
  <2>5. from \in Text /\ w \in Text /\ e \in Text /\ w \in Words(0 .. MaxWord)
    BY <2>1, <2>2, BytesOfWords, WordsWithin
  <2> QED
    BY <2>4, <2>5
<1> DEFINE args == split(CString(from \o <<Space>> \o w), Len(from) + 1)
           f    == strncpy(CString(w), NameSize)
           g    == strncpy(CString(e), ExtSize)
<1>2. args[2] = CString(w)
  BY <1>1, splitWord
<1>3. entry' = EntryBytes(f, g, ATTR_FILE)
  <2>1. entry' = EntryBytes(strncpy(args[2], NameSize), g, ATTR_FILE)
    BY DEF CpTo
  <2> HIDE DEF args
  <2> QED
    BY <1>2, <2>1
<1>4. /\ f \in [1 .. NameSize -> Byte] /\ g \in [1 .. ExtSize -> Byte]
      /\ \A i \in 1 .. NameSize : f[i] = Padded(w, i)
      /\ \A i \in 1 .. ExtSize : g[i] = Padded(e, i)
  <2>1. NameSize \in Nat /\ ExtSize \in Nat
    BY SmallConstants
  <2>2. /\ f \in [1 .. NameSize -> Byte]
        /\ \A i \in 1 .. NameSize : f[i] = Padded(w, i)
    BY <1>1, <2>1, strncpyOfText
  <2>3. /\ g \in [1 .. ExtSize -> Byte]
        /\ \A i \in 1 .. ExtSize : g[i] = Padded(e, i)
    BY <1>1, <2>1, strncpyOfText
  <2> QED
    BY <2>2, <2>3
<1> HIDE DEF f, g, args
<1>5. /\ entry' \in [1 .. EntrySize -> Byte]
      /\ \A i \in 1 .. NameSize : entry'[i] = f[i]
      /\ \A i \in 1 .. ExtSize : entry'[NameSize + i] = g[i]
      /\ entry'[EntrySize] = NUL
  <2> DEFINE b == EntryBytes(f, g, NUL)
  <2>1. NUL \in Byte
    BY DEF NUL, Byte
  <2>2. /\ b \in [1 .. EntrySize -> Byte]
        /\ \A i \in 1 .. NameSize : b[i] = f[i]
        /\ \A i \in 1 .. ExtSize : b[NameSize + i] = g[i]
        /\ b[EntrySize] = NUL
    <3>1. HasFields(b, f, g, NUL)
      BY <1>4, <2>1, EntryBytesAre
    <3> QED
      BY <3>1 DEF HasFields
  <2>3. entry' = b
    BY <1>3 DEF ATTR_FILE, NUL
  <2> HIDE DEF b
  <2> QED
    BY <2>2, <2>3
<1>6. size \in Nat
  BY NamesAssumption
<1>7. NamesTypeOK'
  BY <1>1, <1>5, <1>6 DEF NamesInv, NamesTypeOK, CpTo, Byte, EntrySize
<1>8. FileBytes'
  BY <1>1, <1>4, <1>5 DEF FileBytes, CpTo
<1> QED
  BY <1>7, <1>8 DEF NamesInv, CpTo, FolderBytes, FolderFoundByName, FileFoundByName

\* What is looked for does not change what is stored.
LEMMA LookKeeps ==
  ASSUME NamesInv, NEW x \in Words(1 .. MaxWord), sought' = x,
         stage = "stored", stage' \in {"looked", "probed"},
         full' \in BOOLEAN, listed' \in BOOLEAN, matched' \in BOOLEAN,
         UNCHANGED <<kind, word, ext, filesize, entry, request, shown>>
  PROVE  NamesTypeOK' /\ FolderBytes' /\ FileBytes'
<1>1. x \in Words(0 .. MaxWord)
  <2>1. 1 .. MaxWord \in SUBSET Nat /\ 0 .. MaxWord \in SUBSET Nat
        /\ 1 .. MaxWord \subseteq 0 .. MaxWord
    BY SmallConstants
  <2> QED
    BY <2>1, WordsWithin
<1>2. NamesTypeOK'
  BY <1>1 DEF NamesInv, NamesTypeOK
<1>3. FolderBytes'
  BY DEF NamesInv, FolderBytes
<1>4. FileBytes'
  BY DEF NamesInv, FileBytes
<1> QED
  BY <1>2, <1>3, <1>4

LEMMA CdKeeps ==
  ASSUME NamesInv, NEW x \in Words(1 .. MaxWord), Cd(x)
  PROVE  NamesInv'
<1> DEFINE name == strncpy(CString(x), NameSize)
           b    == EntryBytes(name, Zeros(ExtSize), 0)
<1>1. /\ stage = "stored" /\ kind = "folder" /\ Len(x) =< NameSize
      /\ stage' = "looked" /\ sought' = x
      /\ UNCHANGED <<kind, word, ext, filesize, entry, request, full, shown>>
  BY DEF Cd, Look
<1>2. /\ listed' = (memcmp(entry, name, NameSize) = 0
                     /\ memcmp(ExtField(entry), Zeros(ExtSize), ExtSize) = 0)
      /\ matched' = (strcmp(entry, b) = 0)
  BY DEF Cd, Look
<1>3. NamesTypeOK' /\ FolderBytes' /\ FileBytes'
  <2>1. full' \in BOOLEAN /\ listed' \in BOOLEAN /\ matched' \in BOOLEAN
    BY <1>1, <1>2 DEF NamesInv, NamesTypeOK
  <2> QED
    BY <1>1, <2>1, LookKeeps
<1>4. FolderFoundByName'
  <2> DEFINE t == SubSeq(word, 1, Min({Len(word), NameSize}))
  <2> SUFFICES ASSUME Len(word) < NameSize + ExtSize
               PROVE  (listed' <=> matched') /\ (matched' <=> x = t)
    <3>1. listed' \in BOOLEAN /\ matched' \in BOOLEAN
      BY <1>2
    <3>2. (listed' <=> matched') => listed' = matched'
      BY <3>1
    <3>3. word' = word /\ sought' = x
      BY <1>1
    <3> HIDE DEF t
    <3>4. t' = t
      BY <3>3 DEF t
    <3>5. (Len(word) < NameSize + ExtSize
             => listed' = matched' /\ (matched' <=> sought' = t'))
          => FolderFoundByName'
      BY <3>3 DEF FolderFoundByName, t
    <3> QED
      BY <3>2, <3>3, <3>4, <3>5
  <2>1. x \in Text /\ word \in Text
    <3>1. 1 .. MaxWord \in SUBSET Nat /\ 0 .. MaxWord \in SUBSET Nat
      BY SmallConstants
    <3>2. word \in Words(0 .. MaxWord)
      BY DEF NamesInv, NamesTypeOK
    <3> QED
      BY <3>1, <3>2, BytesOfWords
  <2>2. /\ entry \in [1 .. EntrySize -> Byte]
        /\ \A i \in 1 .. NameSize : entry[i] = Padded(word, i)
        /\ \A i \in 1 .. ExtSize : entry[NameSize + i] = NUL
    BY <1>1 DEF NamesInv, NamesTypeOK, FolderBytes, Byte, EntrySize
  <2>3. /\ name \in [1 .. NameSize -> Byte]
        /\ \A i \in 1 .. NameSize : name[i] = Padded(x, i)
    <3>1. NameSize \in Nat
      BY SmallConstants
    <3> QED
      BY <2>1, <3>1, strncpyOfText
  <2> HIDE DEF name, t
  <2>4. /\ Zeros(ExtSize) \in [1 .. ExtSize -> Byte]
        /\ \A i \in 1 .. ExtSize : Zeros(ExtSize)[i] = NUL
    BY SmallConstants, ZerosAre
  <2>5. /\ b \in [1 .. EntrySize -> Byte]
        /\ \A i \in 1 .. NameSize : b[i] = name[i]
        /\ \A i \in 1 .. ExtSize : b[NameSize + i] = Zeros(ExtSize)[i]
    <3>1. PICK z \in Byte : z = 0
      BY DEF Byte
    <3> DEFINE bz == EntryBytes(name, Zeros(ExtSize), z)
    <3>2. HasFields(bz, name, Zeros(ExtSize), z)
      BY <2>3, <2>4, EntryBytesAre
    <3>3. b = bz
      BY <3>1
    <3> HIDE DEF b, bz
    <3> QED
      BY <3>2, <3>3 DEF HasFields
  <2> HIDE DEF b
  <2>6. matched' <=> \A i \in 1 .. NameSize : Padded(word, i) = Padded(x, i)
    <3>1. 1 \in 1 .. ExtSize
      BY SmallConstants
    <3>2. entry[NameSize + 1] = NUL /\ b[NameSize + 1] = NUL
      BY <2>2, <2>4, <2>5, <3>1
    <3>3. \A i \in 1 .. NameSize : entry[i] = Padded(word, i) /\ b[i] = Padded(x, i)
      BY <2>2, <2>3, <2>5
    <3>4. strcmp(entry, b) = 0 <=>
            \A i \in 1 .. NameSize : Padded(word, i) = Padded(x, i)
      BY <1>1, <2>1, <2>2, <2>5, <3>2, <3>3, FolderMatched
    <3> QED
      BY <1>2, <3>4
  <2>7. listed' <=> \A i \in 1 .. NameSize : Padded(word, i) = Padded(x, i)
    <3>1. memcmp(entry, name, NameSize) = 0 <=>
            \A i \in 1 .. NameSize : entry[i] = name[i]
      BY SmallConstants, memcmpZero
    <3>2. memcmp(ExtField(entry), Zeros(ExtSize), ExtSize) = 0
      <4>1. \A i \in 1 .. ExtSize : ExtField(entry)[i] = entry[NameSize + i]
        <5>1. EntrySize \in Nat /\ NameSize + ExtSize =< EntrySize
          BY SmallConstants
        <5> QED
          BY <2>2, <5>1, FieldsOf
      <4>2. \A i \in 1 .. ExtSize : ExtField(entry)[i] = Zeros(ExtSize)[i]
        BY <2>2, <2>4, <4>1
      <4>3. ExtSize \in Nat
        BY SmallConstants
      <4> QED
        BY <4>2, <4>3, memcmpZero
    <3>3. (\A i \in 1 .. NameSize : entry[i] = name[i]) <=>
            \A i \in 1 .. NameSize : Padded(word, i) = Padded(x, i)
      BY <2>2, <2>3
    <3> QED
      BY <1>2, <3>1, <3>2, <3>3
  <2>8. x = t <=> \A i \in 1 .. NameSize : Padded(word, i) = Padded(x, i)
    <3>1. /\ t \in Text /\ Len(t) =< NameSize
          /\ \A i \in 1 .. NameSize : Padded(t, i) = Padded(word, i)
      BY <2>1, CutWord DEF t
    <3>2. (\A i \in 1 .. NameSize : Padded(x, i) = Padded(t, i)) => x = t
      BY <1>1, <2>1, <3>1, SmallConstants, PaddedEqual
    <3> QED
      BY <3>1, <3>2
  <2> QED
    BY <2>6, <2>7, <2>8
<1>5. FileFoundByName'
  BY <1>1 DEF FileFoundByName
<1> QED
  BY <1>3, <1>4, <1>5 DEF NamesInv

LEMMA CpFromKeeps ==
  ASSUME NamesInv, NEW x \in Words(1 .. MaxWord), CpFrom(x)
  PROVE  NamesInv'
<1> DEFINE name == strncpy(CString(x), NameSize)
           e    == strncpy(ExtField(entry), ExtSize)
<1>1. /\ stage = "stored" /\ kind = "file"
      /\ stage' = "looked" /\ sought' = x
      /\ UNCHANGED <<kind, word, ext, filesize, entry, request, full, shown>>
  BY DEF CpFrom, Look
<1>2. /\ listed' = (memcmp(entry, name, NameSize) = 0
                     /\ memcmp(ExtField(entry), e, ExtSize) = 0)
      /\ matched' = (strcmp(entry, CString(x)) = 0)
  BY DEF CpFrom, Look
<1>3. NamesTypeOK' /\ FolderBytes' /\ FileBytes'
  <2>1. full' \in BOOLEAN /\ listed' \in BOOLEAN /\ matched' \in BOOLEAN
    BY <1>1, <1>2 DEF NamesInv, NamesTypeOK
  <2> QED
    BY <1>1, <2>1, LookKeeps
<1>4. /\ x \in Text /\ word \in Text /\ ext \in Text
      /\ Len(x) \in Nat /\ Len(word) \in Nat
  <2>1. /\ 1 .. MaxWord \in SUBSET Nat /\ 0 .. MaxWord \in SUBSET Nat
        /\ 0 .. ExtSize \in SUBSET Nat
    BY SmallConstants
  <2>2. word \in Words(0 .. MaxWord) /\ ext \in Words(0 .. ExtSize)
    BY DEF NamesInv, NamesTypeOK
  <2>3. x \in Text /\ word \in Text /\ ext \in Text
    BY <2>1, <2>2, BytesOfWords
  <2> QED
    BY <2>3, TextBytes
<1>5. /\ entry \in [1 .. EntrySize -> Byte] /\ entry[EntrySize] = NUL
      /\ \A i \in 1 .. NameSize : entry[i] = Padded(word, i)
      /\ \A i \in 1 .. ExtSize : entry[NameSize + i] = Padded(ext, i)
  BY <1>1 DEF NamesInv, NamesTypeOK, FileBytes, Byte, EntrySize
<1>6. matched' <=> /\ Len(x) + 1 =< EntrySize /\ entry[Len(x) + 1] = NUL
                   /\ \A j \in 1 .. Len(x) : entry[j] = x[j]
  BY <1>2, <1>4, <1>5, FileMatched
<1>7. listed' <=> \A i \in 1 .. NameSize : Padded(word, i) = Padded(x, i)
  <2>1. \A i \in 1 .. NameSize : name[i] = Padded(x, i)
    <3>1. NameSize \in Nat
      BY SmallConstants
    <3> QED
      BY <1>4, <3>1, strncpyOfText
  <2>2. memcmp(ExtField(entry), e, ExtSize) = 0
    <3>1. ExtSize \in Nat /\ EntrySize \in Nat /\ NameSize + ExtSize =< EntrySize
      BY SmallConstants
    <3>2. \A i \in 1 .. ExtSize : ExtField(entry)[i] = entry[NameSize + i]
      BY <1>5, <3>1, FieldsOf
    <3>3. PICK f : f = ExtField(entry)
      OBVIOUS
    <3>4. \A i \in 1 .. ExtSize : f[i] = Padded(ext, i)
      BY <1>5, <3>2, <3>3
    <3>5. \A i \in 1 .. ExtSize : strncpy(f, ExtSize)[i] = Padded(ext, i)
      BY <1>4, <3>1, <3>4, strncpyOfField
    <3>6. memcmp(f, strncpy(f, ExtSize), ExtSize) = 0
      BY <3>1, <3>4, <3>5, memcmpZero
    <3> QED
      BY <3>3, <3>6
  <2>3. memcmp(entry, name, NameSize) = 0 <=>
          \A i \in 1 .. NameSize : entry[i] = name[i]
    BY SmallConstants, memcmpZero
  <2> HIDE DEF name, e
  <2>4. (\A i \in 1 .. NameSize : entry[i] = name[i]) <=>
          \A i \in 1 .. NameSize : Padded(word, i) = Padded(x, i)
    BY <1>5, <2>1
  <2> QED
    BY <1>2, <2>2, <2>3, <2>4
<1> HIDE DEF name, e
<1>8. matched' => listed'
  <2> SUFFICES ASSUME matched', NEW i \in 1 .. NameSize
               PROVE  Padded(word, i) = Padded(x, i)
    BY <1>7
  <2>1. CASE i =< Len(x)
    <3>1. i \in 1 .. Len(x)
      BY <2>1
    <3> QED
      BY <1>5, <1>6, <3>1 DEF Padded
  <2>2. CASE ~(i =< Len(x))
    <3>1. /\ Len(x) + 1 \in 1 .. NameSize /\ Len(x) + 1 \in Nat \ {0}
          /\ i \in Nat /\ Len(x) + 1 =< i
      BY <1>4, <2>2, SmallConstants
    <3>2. Padded(word, Len(x) + 1) = NUL
      BY <1>5, <1>6, <3>1
    <3>3. Padded(word, i) = NUL
      BY <1>4, <3>1, <3>2, PaddedEnds
    <3> QED
      BY <1>4, <2>2, <3>3 DEF Padded
  <2> QED
    BY <2>1, <2>2
<1>9. ASSUME Len(word) < NameSize \/ (Len(word) = NameSize /\ ext = << >>)
      PROVE  matched' <=> x = word
  <2>1. entry[Len(word) + 1] = NUL /\ Len(word) + 1 =< EntrySize
    <3>1. CASE Len(word) < NameSize
      <4>1. Len(word) + 1 \in 1 .. NameSize
        BY <1>4, <3>1, SmallConstants
      <4> QED
        BY <1>4, <1>5, <4>1, SmallConstants DEF Padded
    <3>2. CASE Len(word) = NameSize /\ ext = << >>
      <4>1. 1 \in 1 .. ExtSize /\ Padded(ext, 1) = NUL
        BY <3>2, SmallConstants DEF Padded
      <4> QED
        BY <1>4, <1>5, <3>2, <4>1, SmallConstants
    <3> QED
      BY <1>9, <3>1, <3>2
  <2>2. ASSUME x = word PROVE matched'
    <3>1. \A j \in 1 .. Len(word) : j \in 1 .. NameSize
      BY <1>4, <1>9, SmallConstants
    <3>2. \A j \in 1 .. Len(word) : entry[j] = word[j]
      BY <1>5, <3>1 DEF Padded
    <3> QED
      BY <1>6, <2>1, <2>2, <3>2
  <2>3. ASSUME matched' PROVE x = word
    <3>1. Len(x) =< NameSize
      <4> SUFFICES ASSUME NameSize < Len(x) PROVE FALSE
        BY <1>4, SmallConstants
      <4>1. Len(word) + 1 \in 1 .. Len(x)
        BY <1>4, <1>9, SmallConstants
      <4>2. x[Len(word) + 1] = NUL
        BY <1>6, <2>1, <2>3, <4>1
      <4> QED
        BY <1>4, <4>1, <4>2, TextBytes
    <3>2. \A i \in 1 .. NameSize : Padded(x, i) = Padded(word, i)
      BY <1>7, <1>8, <2>3
    <3>3. Len(word) =< NameSize /\ NameSize \in Nat
      BY <1>4, <1>9, SmallConstants
    <3> QED
      BY <1>4, <3>1, <3>2, <3>3, PaddedEqual
  <2> QED
    BY <2>2, <2>3
<1>10. FolderFoundByName'
  BY <1>1 DEF FolderFoundByName
<1>11. FileFoundByName'
  BY <1>1, <1>8, <1>9 DEF FileFoundByName
<1> QED
  BY <1>3, <1>10, <1>11 DEF NamesInv

\* Whether the driver's answer to mv is the stored file.
LEMMA ProbedName ==
  ASSUME NamesInv, stage = "stored", kind = "file", NEW x \in Text, Len(x) =< NameSize
  PROVE  Len(word) =< NameSize => (Probed(CString(x)) <=> x = word /\ ext = << >>)
<1> DEFINE field == strncpy(CString(x), NameSize)
           asked == field \o Zeros(ExtSize)
           n     == NameSize + ExtSize
<1>2. word \in Text /\ ext \in Text /\ Len(ext) =< ExtSize
  <2>1. 0 .. MaxWord \in SUBSET Nat /\ 0 .. ExtSize \in SUBSET Nat
    BY SmallConstants
  <2>2. word \in Words(0 .. MaxWord) /\ ext \in Words(0 .. ExtSize)
    BY DEF NamesInv, NamesTypeOK
  <2>3. Len(ext) \in 0 .. ExtSize
    BY <2>1, <2>2, BytesOfWords
  <2>4. word \in Text /\ ext \in Text
    BY <2>1, <2>2, BytesOfWords
  <2> QED
    BY <2>3, <2>4, SmallConstants
<1>3. Probed(CString(x)) <=> memcmp(entry, asked, n) = 0
  BY DEF Probed
<1>5. /\ \A i \in 1 .. NameSize : entry[i] = Padded(word, i)
      /\ \A i \in 1 .. ExtSize : entry[NameSize + i] = Padded(ext, i)
  BY DEF NamesInv, FileBytes
<1>6. /\ \A i \in 1 .. NameSize : asked[i] = Padded(x, i)
      /\ \A i \in 1 .. ExtSize : asked[NameSize + i] = NUL
  <2>1. NameSize \in Nat /\ ExtSize \in Nat
    BY SmallConstants
  <2>2. /\ field \in [1 .. NameSize -> Byte]
        /\ \A i \in 1 .. NameSize : field[i] = Padded(x, i)
    BY <1>2, <2>1, strncpyOfText
  <2>3. /\ Zeros(ExtSize) \in [1 .. ExtSize -> Byte]
        /\ \A i \in 1 .. ExtSize : Zeros(ExtSize)[i] = NUL
    BY <2>1, ZerosAre
  <2> HIDE DEF field
  <2>4. /\ \A i \in 1 .. NameSize : asked[i] = field[i]
        /\ \A i \in 1 .. ExtSize : asked[NameSize + i] = Zeros(ExtSize)[i]
    <3>1. Joins(asked, field, NameSize, Zeros(ExtSize), ExtSize)
      BY <2>1, <2>2, <2>3, Joined
    <3> HIDE DEF asked
    <3> QED
      BY <3>1 DEF Joins
  <2> HIDE DEF asked
  <2> QED
    BY <2>2, <2>3, <2>4
<1> HIDE DEF asked
<1>7. Probed(CString(x)) <=> /\ \A i \in 1 .. NameSize : Padded(word, i) = Padded(x, i)
                  /\ \A i \in 1 .. ExtSize : Padded(ext, i) = NUL
  <2>1. Probed(CString(x)) <=> \A i \in 1 .. n : entry[i] = asked[i]
    <3>1. n \in Nat
      BY SmallConstants
    <3> HIDE DEF n
    <3> QED
      BY <1>3, <3>1, memcmpZero
  <2>2. (\A i \in 1 .. n : entry[i] = asked[i]) <=>
          /\ \A i \in 1 .. NameSize : entry[i] = asked[i]
          /\ \A i \in 1 .. ExtSize : entry[NameSize + i] = asked[NameSize + i]
    <3>1. ASSUME \A i \in 1 .. n : entry[i] = asked[i]
          PROVE  /\ \A i \in 1 .. NameSize : entry[i] = asked[i]
                 /\ \A i \in 1 .. ExtSize : entry[NameSize + i] = asked[NameSize + i]
      BY <3>1, SmallConstants
    <3>2. ASSUME \A i \in 1 .. NameSize : entry[i] = asked[i],
                 \A i \in 1 .. ExtSize : entry[NameSize + i] = asked[NameSize + i],
                 NEW i \in 1 .. n
          PROVE  entry[i] = asked[i]
      <4>1. CASE i =< NameSize
        BY <3>2, <4>1
      <4>2. CASE ~(i =< NameSize)
        <5>1. i - NameSize \in 1 .. ExtSize /\ NameSize + (i - NameSize) = i
          BY <4>2, SmallConstants
        <5> QED
          BY <3>2, <5>1
      <4> QED
        BY <4>1, <4>2
    <3> QED
      BY <3>1, <3>2
  <2>3. (\A i \in 1 .. NameSize : entry[i] = asked[i]) <=>
          \A i \in 1 .. NameSize : Padded(word, i) = Padded(x, i)
    BY <1>5, <1>6
  <2>4. (\A i \in 1 .. ExtSize : entry[NameSize + i] = asked[NameSize + i]) <=>
          \A i \in 1 .. ExtSize : Padded(ext, i) = NUL
    BY <1>5, <1>6
  <2> QED
    BY <2>1, <2>2, <2>3, <2>4
<1>8. ext = << >> <=> \A i \in 1 .. ExtSize : Padded(ext, i) = NUL
  <2>1. ASSUME ext = << >> PROVE \A i \in 1 .. ExtSize : Padded(ext, i) = NUL
    BY <2>1 DEF Padded
  <2>2. ASSUME \A i \in 1 .. ExtSize : Padded(ext, i) = NUL PROVE ext = << >>
    <3>1. 1 \in 1 .. ExtSize
      BY SmallConstants
    <3>2. Padded(ext, 1) = NUL
      BY <2>2, <3>1
    <3>3. Len(ext) < 1
      BY <1>2, <3>2, TextBytes DEF Padded
    <3>4. Len(ext) = 0
      BY <1>2, <3>3, TextBytes
    <3> QED
      BY <1>2, <3>4, EmptySeq DEF Text
  <2> QED
    BY <2>1, <2>2
<1>9. ASSUME Len(word) =< NameSize
      PROVE  (\A i \in 1 .. NameSize : Padded(word, i) = Padded(x, i)) <=> x = word
  <2>1. (\A i \in 1 .. NameSize : Padded(x, i) = Padded(word, i)) => x = word
    BY <1>2, <1>9, SmallConstants, PaddedEqual
  <2> QED
    BY <2>1
<1> QED
  BY <1>7, <1>8, <1>9

LEMMA MvKeeps ==
  ASSUME NamesInv, NEW x \in Words(1 .. NameSize), NEW e \in Words(1 .. ExtSize),
         NEW m \in 1 .. NameSize, NEW n \in 1 .. ExtSize, Mv(x, e, m, n)
  PROVE  NamesInv'
<1> DEFINE name == split_ext(CString(x \o <<Dot>> \o e))[1]
<1>1. /\ stage = "stored" /\ kind = "file" /\ stage' = "probed" /\ sought' = x
      /\ full' \in BOOLEAN
      /\ UNCHANGED <<kind, word, ext, filesize, entry, request, matched, shown>>
  BY DEF Mv
<1>2. /\ x \in Text /\ e \in Text /\ x \in Words(1 .. MaxWord)
      /\ Len(x) \in 1 .. NameSize /\ \A i \in 1 .. Len(x) : x[i] # Dot
  <2>1. /\ 1 .. NameSize \in SUBSET Nat /\ 1 .. ExtSize \in SUBSET Nat
        /\ 1 .. MaxWord \in SUBSET Nat /\ 1 .. NameSize \subseteq 1 .. MaxWord
    BY SmallConstants
  <2>2. x \in Text /\ e \in Text /\ Len(x) \in 1 .. NameSize
    BY <2>1, BytesOfWords
  <2>3. \A i \in 1 .. Len(x) : x[i] \in Letters
    BY <2>1, BytesOfWords
  <2>4. Dot \notin Letters
    BY NamesAssumption
  <2>5. x \in Words(1 .. MaxWord)
    BY <2>1, WordsWithin
  <2> QED
    BY <2>2, <2>3, <2>4, <2>5
<1>3. listed' \in {Probed(CString(x))}
                   \cup (IF full' THEN {Probed(CString(<< >>)), FALSE} ELSE {})
  <2>1. listed' \in {Probed(name)}
                     \cup (IF full' THEN {Probed(CString(<< >>)), FALSE} ELSE {})
    BY DEF Mv
  <2>2. name = CString(x)
    BY <1>2, split_extName
  <2> HIDE DEF name
  <2> QED
    BY <2>1, <2>2
<1>4. Len(word) =< NameSize =>
        (Probed(CString(x)) <=> x = word /\ ext = << >>)
  BY <1>1, <1>2, SmallConstants, ProbedName
<1>5. Len(word) =< NameSize => ~Probed(CString(<< >>))
  <2>1. << >> \in Text /\ Len(<< >>) = 0
    BY DEF Text
  <2>2. Len(word) =< NameSize =>
          (Probed(CString(<< >>)) <=> << >> = word /\ ext = << >>)
    BY <1>1, <2>1, SmallConstants, ProbedName
  <2>3. word # << >>
    BY <1>1, <2>1 DEF NamesInv, FileBytes
  <2> QED
    BY <2>2, <2>3
<1>6. /\ Probed(CString(x)) \in BOOLEAN
      /\ Probed(CString(<< >>)) \in BOOLEAN
  BY DEF Probed
<1>7. NamesTypeOK' /\ FolderBytes' /\ FileBytes'
  <2>1. listed' \in BOOLEAN /\ matched' \in BOOLEAN
    BY <1>1, <1>3, <1>6 DEF NamesInv, NamesTypeOK
  <2> QED
    BY <1>1, <1>2, <2>1, LookKeeps
<1>8. Len(word) =< NameSize =>
        /\ listed' => x = word /\ ext = << >>
        /\ ~full' => (x = word /\ ext = << >> => listed')
  BY <1>3, <1>4, <1>5
<1>9. FolderFoundByName' /\ FileFoundByName'
  BY <1>1, <1>8 DEF FolderFoundByName, FileFoundByName
<1> QED
  BY <1>7, <1>9 DEF NamesInv

-----------------------------------------------------------------------------
(* The digits that ls prints.                                              *)

LEMMA PowerPositive ==
  ASSUME NEW k \in 0 .. 8
  PROVE  10 ^ k \in Nat \ {0}
<1>1. k = 0 \/ k = 1 \/ k = 2 \/ k = 3 \/ k = 4 \/ k = 5 \/ k = 6 \/ k = 7 \/ k = 8
  OBVIOUS
<1>2. CASE k = 0
  BY <1>2, 10 ^ 0 = 1
<1>3. CASE k = 1
  BY <1>3, 10 ^ 1 = 10
<1>4. CASE k = 2
  BY <1>4, 10 ^ 2 = 100
<1>5. CASE k = 3
  BY <1>5, 10 ^ 3 = 1000
<1>6. CASE k = 4
  BY <1>6, 10 ^ 4 = 10000
<1>7. CASE k = 5
  BY <1>7, 10 ^ 5 = 100000
<1>8. CASE k = 6
  BY <1>8, 10 ^ 6 = 1000000
<1>9. CASE k = 7
  BY <1>9, 10 ^ 7 = 10000000
<1>10. CASE k = 8
  BY <1>10, 10 ^ 8 = 100000000
<1> QED
  BY <1>1, <1>2, <1>3, <1>4, <1>5, <1>6, <1>7, <1>8, <1>9, <1>10

LEMMA DigitByte ==
  ASSUME NEW num \in Nat, NEW p \in Nat \ {0}
  PROVE  48 + ((num \div p) % 10) \in Byte
<1>1. num \div p \in Nat
  OBVIOUS
<1>2. (num \div p) % 10 \in 0 .. 9
  BY <1>1
<1> QED
  BY <1>2 DEF Byte

LEMMA parse_intBytes ==
  ASSUME NEW num \in Nat, num < 10 ^ 9
  PROVE  parse_int(num) \in Seq(Byte)
<1> DEFINE enough == {k \in 1 .. 9 : num < 10 ^ k}
           digits == Min(enough)
           f      == [i \in 1 .. digits |-> 48 + ((num \div 10 ^ (digits - i)) % 10)]
<1>1. digits \in 1 .. 9
  <2>1. enough \in SUBSET Nat /\ 9 \in enough /\ enough \subseteq 1 .. 9
    OBVIOUS
  <2> HIDE DEF enough
  <2>2. PICK k \in enough : \A j \in enough : k =< j
    BY <2>1, LeastNat
  <2>3. Min(enough) = k
    BY <2>1, <2>2, MinIs
  <2> QED
    BY <2>1, <2>3
<1> HIDE DEF digits
<1>2. \A i \in 1 .. digits : f[i] \in Byte
  <2> TAKE i \in 1 .. digits
  <2>1. PICK p \in Nat \ {0} : p = 10 ^ (digits - i)
    <3>1. digits - i \in 0 .. 8
      BY <1>1
    <3> QED
      BY <3>1, PowerPositive
  <2>2. 48 + ((num \div p) % 10) \in Byte
    BY DigitByte
  <2> QED
    BY <2>1, <2>2
<1>3. f \in Seq(Byte)
  <2>1. f = [i \in 1 .. digits |-> f[i]]
    OBVIOUS
  <2> HIDE DEF f
  <2>2. f \in [1 .. digits -> Byte]
    BY <1>2, <2>1
  <2> QED
    BY <1>1, <2>2
<1>4. parse_int(num) = Append(f, NUL)
  BY DEF parse_int, CString, digits, enough
<1>5. NUL \in Byte
  BY DEF NUL, Byte
<1> HIDE DEF f
<1> QED
  BY <1>3, <1>4, <1>5

LEMMA LsKeeps ==
  ASSUME NamesInv, Ls
  PROVE  NamesInv'
<1>1. filesize \in Nat /\ filesize < 10 ^ 9
  <2>1. filesize \in Sizes
    BY DEF NamesInv, FileBytes, Ls
  <2> QED
    BY <2>1, NamesAssumption
<1>2. shown' \in Seq(Byte)
  BY <1>1, parse_intBytes DEF Ls
<1>3. NamesTypeOK'
  BY <1>2 DEF NamesInv, NamesTypeOK, Ls, Byte
<1> QED
  BY <1>3 DEF NamesInv, Ls, FolderBytes, FileBytes, FolderFoundByName,
              FileFoundByName

LEMMA StutterKeeps ==
  ASSUME NamesInv, UNCHANGED nameVars
  PROVE  NamesInv'
<1>1. NamesTypeOK'
  BY DEF NamesInv, NamesTypeOK, nameVars
<1>2. FolderBytes' /\ FileBytes'
  BY DEF NamesInv, FolderBytes, FileBytes, nameVars
<1>3. FolderFoundByName' /\ FileFoundByName'
  BY DEF NamesInv, FolderFoundByName, FileFoundByName, nameVars
<1> QED
  BY <1>1, <1>2, <1>3 DEF NamesInv

LEMMA NextKeeps == NamesInv /\ [NamesNext]_nameVars => NamesInv'
<1> SUFFICES ASSUME NamesInv, [NamesNext]_nameVars PROVE NamesInv'
  OBVIOUS
<1>1. ASSUME NEW w \in Words(1 .. MaxWord), Mkdir(w) PROVE NamesInv'
  BY <1>1, MkdirKeeps
<1>2. ASSUME NEW from \in Words({1}), NEW w \in Words(1 .. NameSize + 1),
             NEW e \in Words(0 .. ExtSize), NEW size \in Sizes,
             CpTo(from, w, e, size)
      PROVE  NamesInv'
  BY <1>2, CpToKeeps
<1>3. ASSUME NEW x \in Words(1 .. MaxWord), Cd(x) PROVE NamesInv'
  BY <1>3, CdKeeps
<1>4. ASSUME NEW x \in Words(1 .. MaxWord), CpFrom(x) PROVE NamesInv'
  BY <1>4, CpFromKeeps
<1>5. ASSUME NEW x \in Words(1 .. NameSize), NEW e \in Words(1 .. ExtSize),
             NEW m \in 1 .. NameSize, NEW n \in 1 .. ExtSize, Mv(x, e, m, n)
      PROVE  NamesInv'
  BY <1>5, MvKeeps
<1>6. CASE Ls
  BY <1>6, LsKeeps
<1>7. CASE Again
  BY <1>7, AgainKeeps
<1>8. CASE UNCHANGED nameVars
  BY <1>8, StutterKeeps
<1> QED
  BY <1>1, <1>2, <1>3, <1>4, <1>5, <1>6, <1>7, <1>8 DEF NamesNext

LEMMA InvariantHolds == NamesSpec => []NamesInv
<1>1. NamesInit => NamesInv
  BY InitHolds
<1>2. NamesInv /\ [NamesNext]_nameVars => NamesInv'
  BY NextKeeps
<1> QED
  BY <1>1, <1>2, PTL DEF NamesSpec

\* What is typed, stored and printed are words and bytes of their sizes,
\* and a request of mkdir never has more bytes than its struct.
THEOREM NamesTypeCorrect == NamesSpec => []NamesTypeOK
<1>1. NamesInv => NamesTypeOK
  BY DEF NamesInv
<1> QED
  BY <1>1, InvariantHolds, PTL

\* For fields of any size, and a word shorter than name and extension
\* together: mkdir's unlimited strcpy leaves parent and size of the request
\* alone, and the folder has the word's first NameSize bytes.
THEOREM RequestKept == NamesSpec => []LongNamesKeepRequest
<1>1. NamesInv => LongNamesKeepRequest
  <2> SUFFICES ASSUME NamesInv, kind = "folder", Len(word) < NameSize + ExtSize,
                      NEW i \in 1 .. NameSize
               PROVE  /\ SubSeq(request, NameSize + ExtSize + 1,
                                NameSize + ExtSize + 2) = Parent
                      /\ entry[i] = IF i =< Len(word) THEN word[i] ELSE NUL
    BY SmallConstants DEF LongNamesKeepRequest
  <2>1. Len(word) \in Nat
    <3>1. word \in Words(0 .. MaxWord) /\ 0 .. MaxWord \in SUBSET Nat
      BY SmallConstants DEF NamesInv, NamesTypeOK
    <3> QED
      BY <3>1, BytesOfWords, TextBytes
  <2> QED
    BY <2>1 DEF NamesInv, FolderBytes, Padded
<1> QED
  BY <1>1, InvariantHolds, PTL

\* For words and fields of any size: the comparison of the driver and the
\* one of the shell agree on folders, and find exactly the folder whose name
\* the typed word is.
THEOREM FolderFound == NamesSpec => []FolderFoundByName
<1>1. NamesInv => FolderFoundByName
  BY DEF NamesInv
<1> QED
  BY <1>1, InvariantHolds, PTL

\* For words and fields of any size: what cp, rm and mv find among the files
\* is the file of the name that was typed, within the limits the property
\* states.
THEOREM FileFound == NamesSpec => []FileFoundByName
<1>1. NamesInv => FileFoundByName
  BY DEF NamesInv
<1> QED
  BY <1>1, InvariantHolds, PTL

-----------------------------------------------------------------------------
(* The value of the digits that ls prints.                                 *)

\* What parse_int makes of a number that has as many digits as num.
DigitsOf(num) == Min({k \in 1 .. 9 : num < 10 ^ k})

LEMMA PowerOfTen ==
  ASSUME NEW k \in 0 .. 8, NEW num \in Nat
  PROVE  /\ num \div 10 ^ k =
              10 * (num \div 10 ^ (k + 1)) + ((num \div 10 ^ k) % 10)
         /\ num < 10 ^ (k + 1) /\ 10 ^ k =< num => (num \div 10 ^ k) % 10 # 0
         /\ num < 10 ^ (k + 1) => num \div 10 ^ (k + 1) = 0
<1>1. k = 0 \/ k = 1 \/ k = 2 \/ k = 3 \/ k = 4 \/ k = 5 \/ k = 6 \/ k = 7 \/ k = 8
  OBVIOUS
<1>2. CASE k = 0
  BY <1>2, 10 ^ 0 = 1, 10 ^ 1 = 10
<1>3. CASE k = 1
  BY <1>3, 10 ^ 1 = 10, 10 ^ 2 = 100
<1>4. CASE k = 2
  BY <1>4, 10 ^ 2 = 100, 10 ^ 3 = 1000
<1>5. CASE k = 3
  BY <1>5, 10 ^ 3 = 1000, 10 ^ 4 = 10000
<1>6. CASE k = 4
  BY <1>6, 10 ^ 4 = 10000, 10 ^ 5 = 100000
<1>7. CASE k = 5
  BY <1>7, 10 ^ 5 = 100000, 10 ^ 6 = 1000000
<1>8. CASE k = 6
  BY <1>8, 10 ^ 6 = 1000000, 10 ^ 7 = 10000000
<1>9. CASE k = 7
  BY <1>9, 10 ^ 7 = 10000000, 10 ^ 8 = 100000000
<1>10. CASE k = 8
  BY <1>10, 10 ^ 8 = 100000000, 10 ^ 9 = 1000000000
<1> QED
  BY <1>1, <1>2, <1>3, <1>4, <1>5, <1>6, <1>7, <1>8, <1>9, <1>10

LEMMA DigitsOfNumber ==
  ASSUME NEW num \in Nat, num < 10 ^ 9
  PROVE  /\ DigitsOf(num) \in 1 .. 9
         /\ num < 10 ^ DigitsOf(num)
         /\ DigitsOf(num) > 1 => 10 ^ (DigitsOf(num) - 1) =< num
<1> DEFINE enough == {k \in 1 .. 9 : num < 10 ^ k}
<1>1. enough \in SUBSET Nat /\ 9 \in enough /\ enough \subseteq 1 .. 9
  OBVIOUS
<1>2. PICK k \in enough : \A j \in enough : k =< j
  <2> HIDE DEF enough
  <2> QED
    BY <1>1, LeastNat
<1>3. DigitsOf(num) = k
  <2>1. enough \subseteq Int /\ \A y \in enough : k =< y
    BY <1>1, <1>2
  <2>2. DigitsOf(num) = Min(enough)
    BY DEF DigitsOf
  <2> HIDE DEF enough
  <2> QED
    BY <1>2, <2>1, <2>2, MinIs
<1>4. k > 1 => 10 ^ (k - 1) =< num
  <2> SUFFICES ASSUME k > 1 PROVE 10 ^ (k - 1) =< num
    OBVIOUS
  <2>1. k - 1 \in 0 .. 8 /\ k - 1 \in 1 .. 9
    BY <1>1, <1>2
  <2>2. k - 1 \notin enough
    BY <1>1, <1>2
  <2>3. 10 ^ (k - 1) \in Nat
    BY <2>1, PowerPositive
  <2> QED
    BY <2>1, <2>2, <2>3
<1> QED
  BY <1>1, <1>2, <1>3, <1>4

LEMMA parse_intDigits ==
  ASSUME NEW num \in Nat, num < 10 ^ 9
  PROVE  /\ strlen(parse_int(num)) = DigitsOf(num)
         /\ \A i \in 1 .. DigitsOf(num) :
              parse_int(num)[i] = 48 + ((num \div 10 ^ (DigitsOf(num) - i)) % 10)
<1> DEFINE n == DigitsOf(num)
           f == [i \in 1 .. n |-> 48 + ((num \div 10 ^ (n - i)) % 10)]
<1>1. n \in 1 .. 9
  BY DigitsOfNumber
<1>2. parse_int(num) = CString(f)
  BY DEF parse_int, DigitsOf
<1> HIDE DEF n
<1>3. f \in Text /\ Len(f) = n
  <2>1. \A i \in 1 .. n : f[i] \in 1 .. 127
    <3> TAKE i \in 1 .. n
    <3>1. PICK p \in Nat \ {0} : p = 10 ^ (n - i)
      <4>1. n - i \in 0 .. 8
        BY <1>1
      <4> QED
        BY <4>1, PowerPositive
    <3>2. num \div p \in Nat
      OBVIOUS
    <3>3. (num \div p) % 10 \in 0 .. 9
      BY <3>2
    <3> QED
      BY <3>1, <3>3
  <2>2. f = [i \in 1 .. n |-> f[i]]
    OBVIOUS
  <2> HIDE DEF f
  <2>3. f \in [1 .. n -> 1 .. 127]
    BY <2>1, <2>2
  <2> QED
    BY <1>1, <2>3 DEF Text
<1>4. \A i \in 1 .. n : f[i] = 48 + ((num \div 10 ^ (n - i)) % 10)
  OBVIOUS
<1> HIDE DEF f
<1>5. strlen(CString(f)) = n /\ \A i \in 1 .. n : CString(f)[i] = f[i]
  BY <1>3, strlenOfText, CStringBytes
<1> QED
  BY <1>2, <1>4, <1>5 DEF n

\* The recursive function of ValueOf is the one its equation describes.
LEMMA ValueOfDigits ==
  ASSUME NEW num \in Nat, NEW n \in 1 .. 9, num < 10 ^ n, NEW d,
         \A i \in 1 .. n : d[i] = 48 + ((num \div 10 ^ (n - i)) % 10)
  PROVE  ValueOf(d, n) = num
<1> DEFINE head(i) == num \div 10 ^ (n - i)
           Is(f)   == f = [i \in 0 .. n |->
                             IF i = 0 THEN 0 ELSE 10 * f[i - 1] + (d[i] - 48)]
           value   == CHOOSE f : Is(f)
           upto    == [i \in 0 .. n |-> head(i)]
<1>1. head(0) = 0
  <2>1. n - 1 \in 0 .. 8 /\ (n - 1) + 1 = n /\ n - 0 = n
    OBVIOUS
  <2> QED
    BY <2>1, PowerOfTen
<1>2. head(n) = num
  <2>1. n - n = 0 /\ 10 ^ 0 = 1
    OBVIOUS
  <2> QED
    BY <2>1
<1>3. \A i \in 1 .. n : head(i) = 10 * head(i - 1) + (d[i] - 48)
  <2> TAKE i \in 1 .. n
  <2>1. n - i \in 0 .. 8 /\ n - (i - 1) = (n - i) + 1
    OBVIOUS
  <2>2. head(i) = 10 * head(i - 1) + (head(i) % 10)
    BY <2>1, PowerOfTen
  <2>3. PICK p \in Nat \ {0} : p = 10 ^ (n - i)
    BY <2>1, PowerPositive
  <2>4. num \div p \in Nat
    OBVIOUS
  <2>5. head(i) % 10 \in 0 .. 9 /\ d[i] - 48 = head(i) % 10
    BY <2>3, <2>4
  <2> QED
    BY <2>2, <2>5
<1> HIDE DEF head
<1>4. Is(upto)
  BY <1>1, <1>3
<1>5. Is(value)
  <2> HIDE DEF Is, upto
  <2> QED
    BY <1>4
<1>6. value[0] = head(0)
  <2> HIDE DEF value
  <2> QED
    BY <1>1, <1>5
<1>7. \A i \in 1 .. n : value[i - 1] = head(i - 1) => value[i] = head(i)
  <2> HIDE DEF value
  <2> TAKE i \in 1 .. n
  <2>1. value[i] = 10 * value[i - 1] + (d[i] - 48)
    BY <1>5
  <2> QED
    BY <1>3, <2>1
<1>8. value[n] = head(n)
  <2> HIDE DEF value, Is
  <2> DEFINE R(i) == i \in 0 .. n => value[i] = head(i)
  <2>1. R(0)
    BY <1>6
  <2>2. \A i \in 1 .. 9 : R(i - 1) => R(i)
    BY <1>7
  <2> HIDE DEF R
  <2>3. R(1) /\ R(2) /\ R(3)
    BY <2>1, <2>2, 1 - 1 = 0, 2 - 1 = 1, 3 - 1 = 2
  <2>4. R(4) /\ R(5) /\ R(6)
    BY <2>2, <2>3, 4 - 1 = 3, 5 - 1 = 4, 6 - 1 = 5
  <2>5. R(7) /\ R(8) /\ R(9)
    BY <2>2, <2>4, 7 - 1 = 6, 8 - 1 = 7, 9 - 1 = 8
  <2>6. R(n)
    <3>1. n = 1 \/ n = 2 \/ n = 3 \/ n = 4 \/ n = 5 \/ n = 6 \/ n = 7 \/ n = 8 \/ n = 9
      OBVIOUS
    <3> QED
      BY <2>3, <2>4, <2>5, <3>1
  <2> QED
    BY <2>6 DEF R
<1>9. ValueOf(d, n) = value[n]
  BY DEF ValueOf
<1> QED
  BY <1>2, <1>8, <1>9

\* What ls has printed is made of the size of the entry that is there.
ShownIs ==
  /\ stage = "empty" => shown = << >>
  /\ shown # << >> => /\ filesize \in Nat /\ filesize < 10 ^ 9
                      /\ shown = parse_int(filesize)

LEMMA ShownKept ==
  ASSUME NamesInv, ShownIs, [NamesNext]_nameVars
  PROVE  ShownIs'
<1>1. CASE Ls
  <2>1. filesize \in Sizes
    BY <1>1 DEF NamesInv, FileBytes, Ls
  <2>2. filesize \in Nat /\ filesize < 10 ^ 9
    BY <2>1, NamesAssumption
  <2> QED
    BY <1>1, <2>2 DEF Ls, ShownIs
<1>2. CASE \/ \E w \in Words(1 .. MaxWord) : Mkdir(w)
           \/ \E from \in Words({1}), w \in Words(1 .. NameSize + 1),
                 e \in Words(0 .. ExtSize), size \in Sizes : CpTo(from, w, e, size)
  BY <1>2 DEF Mkdir, CpTo, ShownIs
<1>3. CASE \/ \E x \in Words(1 .. MaxWord) : Cd(x) \/ CpFrom(x)
           \/ \E x \in Words(1 .. NameSize), e \in Words(1 .. ExtSize),
                 m \in 1 .. NameSize, n \in 1 .. ExtSize : Mv(x, e, m, n)
  BY <1>3 DEF Cd, CpFrom, Look, Mv, ShownIs
<1>4. CASE Again \/ UNCHANGED nameVars
  BY <1>4 DEF Again, nameVars, ShownIs
<1> QED
  BY <1>1, <1>2, <1>3, <1>4 DEF NamesNext

\* For every size that the disk can have: the digits that ls prints, the
\* highest first and no zero before the others, are the size of the file.
THEOREM SizeIsShown == NamesSpec => []SizeShown
<1>1. NamesInit => ShownIs
  BY DEF NamesInit, ShownIs
<1>2. NamesInv /\ ShownIs => SizeShown
  <2> SUFFICES ASSUME ShownIs, shown # << >>
               PROVE  /\ filesize = ValueOf(shown, strlen(shown))
                      /\ strlen(shown) > 1 => shown[1] # 48
    BY DEF SizeShown
  <2> DEFINE n == DigitsOf(filesize)
  <2>1. filesize \in Nat /\ filesize < 10 ^ 9 /\ shown = parse_int(filesize)
    BY DEF ShownIs
  <2>2. n \in 1 .. 9 /\ filesize < 10 ^ n /\ (n > 1 => 10 ^ (n - 1) =< filesize)
    BY <2>1, DigitsOfNumber
  <2>3. /\ strlen(shown) = n
        /\ \A i \in 1 .. n : shown[i] = 48 + ((filesize \div 10 ^ (n - i)) % 10)
    BY <2>1, parse_intDigits
  <2> HIDE DEF n
  <2>4. ValueOf(shown, n) = filesize
    <3>1. filesize \in Nat /\ n \in 1 .. 9 /\ filesize < 10 ^ n
      BY <2>1, <2>2
    <3>2. \A i \in 1 .. n : shown[i] = 48 + ((filesize \div 10 ^ (n - i)) % 10)
      BY <2>3
    <3> QED
      BY ONLY <3>1, <3>2, ValueOfDigits
  <2>5. n > 1 => shown[1] # 48
    <3> SUFFICES ASSUME n > 1 PROVE shown[1] # 48
      OBVIOUS
    <3>1. n - 1 \in 0 .. 8 /\ (n - 1) + 1 = n /\ 1 \in 1 .. n
      BY <2>2
    <3>2. (filesize \div 10 ^ (n - 1)) % 10 # 0
      BY <2>1, <2>2, <3>1, PowerOfTen
    <3>3. PICK p \in Nat \ {0} : p = 10 ^ (n - 1)
      BY <3>1, PowerPositive
    <3>4. filesize \div p \in Nat
      BY <2>1
    <3> QED
      BY <2>3, <3>1, <3>2, <3>3, <3>4
  <2> QED
    BY <2>3, <2>4, <2>5
<1> QED
  BY <1>1, <1>2, ShownKept, InvariantHolds, PTL DEF NamesSpec
=============================================================================
