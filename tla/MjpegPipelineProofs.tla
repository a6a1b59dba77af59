------------------------ MODULE MjpegPipelineProofs ------------------------
(***************************************************************************)
(* Proofs about MjpegPipeline for every number of images, every size of    *)
(* the driver's buffers and every limit: what the capture thread, g_frame  *)
(* and the broadcast thread hold are pieces of the camera's stream, one    *)
(* behind the other, so each part that is broadcast is one image.          *)
(***************************************************************************)
EXTENDS MjpegPipeline, FiniteSetTheorems, SequenceTheorems, WellFoundedInduction, TLAPS

-----------------------------------------------------------------------------
(* The camera's stream.                                                    *)

Octets == [b : {"ff", "d8", "d9", "xx"}, of : Nat]

\* Image f stands in s from position i on.
Holds(s, i, f) ==
    /\ i + Len(Jpeg(f)) - 1 <= Len(s)
    /\ \A k \in 1 .. Len(Jpeg(f)) : s[i + k - 1] = Jpeg(f)[k]

\* Whole images up to the n-th, each at most once and in order.
Whole(s, n) ==
    /\ s \in Seq(Octets)
    /\ \A i \in 1 .. Len(s) : s[i].of \in 0 .. n
    /\ \A i \in 1 .. Len(s) : IsMarker(s, i, "d8") => s[i].of # 0 /\ Holds(s, i, s[i].of)
    /\ \A i, j \in 1 .. Len(s) :
          i < j /\ IsMarker(s, i, "d8") /\ IsMarker(s, j, "d8") => s[i].of < s[j].of

-----------------------------------------------------------------------------
(* The least of a set of numbers.                                          *)

LEMMA MinIsIn ==
    ASSUME NEW S \in SUBSET Nat, S # {}
    PROVE  /\ Min(S) \in S
           /\ \A y \in S : Min(S) <= y
  <1> DEFINE Below == {0..x : x \in S}
             R == StrictSubsetOrdering(Nat)
  <1>1. \A T \in Below : T \in FiniteSubsetsOf(Nat)
    <2> SUFFICES ASSUME NEW x \in S PROVE 0..x \in FiniteSubsetsOf(Nat)
      OBVIOUS
    <2>1. IsFiniteSet(0..x)
      BY x \in Int, 0 \in Int, FS_Interval
    <2>2. 0..x \in SUBSET Nat
      OBVIOUS
    <2> QED
      BY <2>1, <2>2, Zenon DEF FiniteSubsetsOf
  <1>2. PICK T \in Below : \A U \in Below : ~(<<U, T>> \in R)
    <2>1. IsWellFoundedOn(R, FiniteSubsetsOf(Nat))
      BY FS_StrictSubsetOrderingWellFounded
    <2>2. Below \subseteq FiniteSubsetsOf(Nat) /\ Below # {}
      BY <1>1
    <2> HIDE DEF Below, R
    <2> QED
      BY <2>1, <2>2, WFMin
  <1>3. PICK x \in S : T = 0..x
    BY <1>2
  <1>4. \A y \in S : x <= y
    <2> SUFFICES ASSUME NEW y \in S, y < x PROVE FALSE
      OBVIOUS
    <2>1. 0..y \subseteq 0..x /\ 0..y # 0..x /\ 0..y \in SUBSET Nat /\ 0..x \in SUBSET Nat
      BY x \in 0..x, x \notin 0..y
    <2>2. <<0..y, 0..x>> \in R
      BY <2>1 DEF StrictSubsetOrdering
    <2> QED
      BY <1>2, <1>3, <2>2
  <1> QED
    BY <1>4 DEF Min

\* What holds of 0, and of n + 1 when it holds of n, leaves no least exception.
LEMMA NoException ==
    ASSUME NEW S \in SUBSET Nat, 0 \notin S, \A n \in Nat : n \notin S => n + 1 \notin S
    PROVE  S = {}
  <1> SUFFICES ASSUME S # {} PROVE FALSE
    OBVIOUS
  <1>1. Min(S) \in S /\ \A y \in S : Min(S) <= y
    BY MinIsIn
  <1>2. Min(S) \in Nat /\ Min(S) # 0
    BY <1>1
  <1>3. Min(S) - 1 \in Nat /\ Min(S) - 1 \notin S /\ Min(S) - 1 + 1 = Min(S)
    BY <1>1, <1>2
  <1> QED
    BY <1>1, <1>3

\* One image: SOI at its first byte, EOI at its last but one, no other marker.
LEMMA JpegIs ==
    ASSUME NEW f \in Nat
    PROVE  /\ Jpeg(f) \in Seq(Octets) /\ Len(Jpeg(f)) \in {4, 5}
           /\ \A k \in 1 .. Len(Jpeg(f)) : Jpeg(f)[k] \in Octets /\ Jpeg(f)[k].of = f
           /\ Jpeg(f)[1].b = "ff" /\ Jpeg(f)[2].b = "d8"
           /\ Jpeg(f)[Len(Jpeg(f)) - 1].b = "ff" /\ Jpeg(f)[Len(Jpeg(f))].b = "d9"
           /\ \A k \in 2 .. Len(Jpeg(f)) - 2 : Jpeg(f)[k].b # "ff"
  <1>1. CASE f \in Small
    <2>1. Bytes(f) = <<"ff", "d8", "ff", "d9">>
      BY <1>1 DEF Bytes
    <2>2. Jpeg(f) = [i \in 1 .. 4 |-> Byte(<<"ff", "d8", "ff", "d9">>[i], f)]
      BY <2>1 DEF Jpeg
    <2>3. Jpeg(f) = <<Byte("ff", f), Byte("d8", f), Byte("ff", f), Byte("d9", f)>>
      BY <2>2
    <2> QED
      BY <2>3 DEF Byte, Octets
  <1>2. CASE f \notin Small
    <2>1. Bytes(f) = <<"ff", "d8", "xx", "ff", "d9">>
      BY <1>2 DEF Bytes
    <2>2. Jpeg(f) = [i \in 1 .. 5 |-> Byte(<<"ff", "d8", "xx", "ff", "d9">>[i], f)]
      BY <2>1 DEF Jpeg
    <2>3. Jpeg(f) = <<Byte("ff", f), Byte("d8", f), Byte("xx", f), Byte("ff", f), Byte("d9", f)>>
      BY <2>2
    <2> QED
      BY <2>3 DEF Byte, Octets
  <1> QED
    BY <1>1, <1>2

\* The images one after the other, as far as each of them.
LEMMA Flattened ==
    ASSUME NEW G, NEW m \in Nat, m > 0, Len(G) = m
    PROVE  \E s : /\ s = [i \in 1 .. m |-> IF i = 1 THEN G[i] ELSE s[i - 1] \o G[i]]
                 /\ FlattenSeq(G) = s[m]
  <1> DEFINE Is(s, n) == s = [i \in 1 .. n |-> IF i = 1 THEN G[i] ELSE s[i - 1] \o G[i]]
             S == {n \in Nat : ~\E s : Is(s, n)}
  <1>1. 0 \notin S
    <2>1. Is(<<>>, 0)
      OBVIOUS
    <2> QED
      BY <2>1
  <1>2. ASSUME NEW n \in Nat, n \notin S PROVE n + 1 \notin S
    <2>1. PICK s : Is(s, n)
      BY <1>2
    <2>a. \A i \in 1 .. n : s[i] = IF i = 1 THEN G[i] ELSE s[i - 1] \o G[i]
      <3>1. \A t : t = [i \in 1 .. n |-> IF i = 1 THEN G[i] ELSE s[i - 1] \o G[i]]
                => \A i \in 1 .. n : t[i] = IF i = 1 THEN G[i] ELSE s[i - 1] \o G[i]
        OBVIOUS
      <3> QED
        BY <2>1, <3>1, Zenon
    <2> DEFINE g == [i \in 1 .. n + 1 |-> IF i <= n THEN s[i]
                                        ELSE IF i = 1 THEN G[i] ELSE s[i - 1] \o G[i]]
    <2>2. \A i \in 1 .. n + 1 : g[i] = IF i = 1 THEN G[i] ELSE g[i - 1] \o G[i]
      <3> SUFFICES ASSUME NEW i \in 1 .. n + 1 PROVE g[i] = IF i = 1 THEN G[i] ELSE g[i - 1] \o G[i]
        OBVIOUS
      <3>1. i > 1 => g[i - 1] = s[i - 1]
        OBVIOUS
      <3>2. CASE i <= n
        <4>1. s[i] = IF i = 1 THEN G[i] ELSE s[i - 1] \o G[i]
          BY <2>a, <3>2
        <4> QED
          BY <3>1, <3>2, <4>1
      <3>3. CASE ~(i <= n)
        BY <3>1, <3>3
      <3> QED
        BY <3>2, <3>3
    <2>3. Is(g, n + 1)
      BY <2>2
    <2> QED
      BY <2>3
  <1>3. S = {}
    <2> HIDE DEF S
    <2>1. S \in SUBSET Nat
      BY DEF S
    <2> QED
      BY <1>1, <1>2, <2>1, NoException
  <1>4. \E s : Is(s, m)
    <2>1. m \notin S
      BY <1>3
    <2> HIDE DEF Is
    <2> QED
      BY <2>1
  <1>5. FlattenSeq(G) = (CHOOSE s : Is(s, m))[m]
    BY DEF FlattenSeq
  <1> QED
    BY <1>4, <1>5

\* One more image behind whole ones.
\* The two parts of a concatenation.
LEMMA ConcatSplits ==
    ASSUME NEW S, NEW s \in Seq(S), NEW t \in Seq(S)
    PROVE  /\ \A i \in 1 .. Len(s) : (s \o t)[i] = s[i]
           /\ \A k \in 1 .. Len(t) : (s \o t)[Len(s) + k] = t[k]
           /\ \A i \in 1 .. Len(s \o t) : i > Len(s) => i - Len(s) \in 1 .. Len(t) /\ (s \o t)[i] = t[i - Len(s)]
  <1> DEFINE w == s \o t
             m == Len(s)
             n == Len(t)
  <1>1. m \in Nat /\ n \in Nat
    BY LenProperties
  <1>2. Len(w) = m + n /\ \A i \in 1 .. m + n : w[i] = IF i <= m THEN s[i] ELSE t[i - m]
    BY ConcatProperties
  <1> HIDE DEF w, m, n
  <1>3. \A i \in 1 .. m : i \in 1 .. m + n /\ i <= m
    BY <1>1
  <1>4. \A k \in 1 .. n : m + k \in 1 .. m + n /\ ~(m + k <= m) /\ (m + k) - m = k
    BY <1>1
  <1>5. \A i \in 1 .. m + n : i > m => i - m \in 1 .. n /\ ~(i <= m)
    BY <1>1
  <1>6. \A i \in 1 .. m : w[i] = s[i]
    BY <1>2, <1>3
  <1>7. \A k \in 1 .. n : w[m + k] = t[k]
    BY <1>2, <1>4
  <1>8. \A i \in 1 .. Len(w) : i > m => i - m \in 1 .. n /\ w[i] = t[i - m]
    BY <1>2, <1>5
  <1> QED
    BY <1>6, <1>7, <1>8 DEF w, m, n

LEMMA OneMore ==
    ASSUME NEW n \in Nat, NEW s, Whole(s, n), s # <<>> => s[Len(s)].b # "ff"
    PROVE  Whole(s \o Jpeg(n + 1), n + 1) /\ (s \o Jpeg(n + 1))[Len(s \o Jpeg(n + 1))].b # "ff"
           /\ s \o Jpeg(n + 1) # <<>>
  <1> DEFINE t == Jpeg(n + 1)
             w == s \o t
  <1>1. /\ t \in Seq(Octets) /\ Len(t) \in {4, 5}
        /\ \A k \in 1 .. Len(t) : t[k] \in Octets /\ t[k].of = n + 1
        /\ t[1].b = "ff" /\ t[2].b = "d8" /\ t[Len(t) - 1].b = "ff" /\ t[Len(t)].b = "d9"
        /\ \A k \in 2 .. Len(t) - 2 : t[k].b # "ff"
    <2>1. n + 1 \in Nat
      OBVIOUS
    <2> QED
      BY <2>1, JpegIs
  <1>2. s \in Seq(Octets) /\ Len(s) \in Nat
    BY LenProperties DEF Whole
  <1> HIDE DEF t
  <1>3. /\ w \in Seq(Octets) /\ Len(w) = Len(s) + Len(t)
        /\ \A i \in 1 .. Len(s) + Len(t) : w[i] = IF i <= Len(s) THEN s[i] ELSE t[i - Len(s)]
    BY <1>1, <1>2, ConcatProperties
  <1>4. \A i \in 1 .. Len(s) : w[i] = s[i]
    BY <1>1, <1>2, ConcatSplits
  <1>5. \A k \in 1 .. Len(t) : w[Len(s) + k] = t[k]
    BY <1>1, <1>2, ConcatSplits
  <1>s. \A i \in 1 .. Len(w) : i > Len(s) => i - Len(s) \in 1 .. Len(t) /\ w[i] = t[i - Len(s)]
    BY <1>1, <1>2, ConcatSplits
  <1> HIDE DEF w
  <1>6. ASSUME NEW i \in 1 .. Len(w), i > Len(s), w[i].b = "ff", i < Len(w), w[i + 1].b = "d8"
        PROVE  i = Len(s) + 1
    <2> DEFINE k == i - Len(s)
    <2>1. k \in 1 .. Len(t) /\ k + 1 \in 1 .. Len(t) /\ i = Len(s) + k /\ i + 1 = Len(s) + (k + 1)
      BY <1>1, <1>2, <1>3, <1>6
    <2> HIDE DEF k
    <2>2. t[k].b = "ff" /\ t[k + 1].b = "d8"
      BY <1>5, <1>6, <2>1
    <2>3. k # Len(t) - 1 /\ k \notin 2 .. Len(t) - 2
      BY <1>1, <2>1, <2>2
    <2> QED
      BY <1>1, <1>2, <2>1, <2>3
  <1>7. ASSUME NEW i \in 1 .. Len(w), IsMarker(w, i, "d8"), i <= Len(s)
        PROVE  IsMarker(s, i, "d8")
    <2>1. w[i] = s[i] /\ s[i].b = "ff" /\ w[i + 1].b = "d8"
      BY <1>4, <1>7 DEF IsMarker
    <2>2. i # Len(s)
      BY <2>1, <1>2
    <2>3. i < Len(s) /\ i + 1 \in 1 .. Len(s)
      BY <1>2, <1>7, <2>2
    <2> QED
      BY <1>4, <2>1, <2>3 DEF IsMarker
  <1>8. ASSUME NEW i \in 1 .. Len(w) PROVE w[i].of \in 0 .. n + 1
    <2>1. CASE i <= Len(s)
      BY <1>2, <1>4, <2>1 DEF Whole
    <2>2. CASE i > Len(s)
      <3>1. i - Len(s) \in 1 .. Len(t) /\ w[i] = t[i - Len(s)]
        BY <1>s, <2>2
      <3>2. w[i].of = n + 1
        BY <1>1, <3>1
      <3> QED
        BY <3>2
    <2> QED
      BY <1>2, <2>1, <2>2
  <1>9. ASSUME NEW i \in 1 .. Len(w), IsMarker(w, i, "d8")
        PROVE  w[i].of # 0 /\ Holds(w, i, w[i].of)
    <2>1. CASE i <= Len(s)
      <3> DEFINE f == s[i].of
      <3>1. IsMarker(s, i, "d8") /\ i \in 1 .. Len(s) /\ w[i] = s[i]
        BY <1>2, <1>4, <1>7, <1>9, <2>1
      <3>2. f # 0 /\ Holds(s, i, f) /\ f \in Nat
        BY <3>1 DEF Whole
      <3> HIDE DEF f
      <3>3. Jpeg(f) \in Seq(Octets) /\ Len(Jpeg(f)) \in Nat
        <4>1. f \in Nat
          BY <3>2
        <4>2. Jpeg(f) \in Seq(Octets)
          BY <4>1, JpegIs
        <4> QED
          BY <4>2, LenProperties
      <3>4. i + Len(Jpeg(f)) - 1 <= Len(w)
        BY <1>1, <1>2, <1>3, <3>2, <3>3 DEF Holds
      <3>5. \A k \in 1 .. Len(Jpeg(f)) : w[i + k - 1] = Jpeg(f)[k]
        <4> SUFFICES ASSUME NEW k \in 1 .. Len(Jpeg(f)) PROVE w[i + k - 1] = Jpeg(f)[k]
          OBVIOUS
        <4>1. i + k - 1 \in 1 .. Len(s)
          BY <1>2, <3>2, <3>3 DEF Holds
        <4> QED
          BY <1>4, <3>2, <4>1 DEF Holds
      <3> QED
        BY <3>1, <3>2, <3>4, <3>5 DEF Holds, f
    <2>2. CASE i > Len(s)
      <3>1. i = Len(s) + 1
        BY <1>6, <1>9, <2>2 DEF IsMarker
      <3>2. w[i].of = n + 1
        BY <1>1, <1>5, <3>1
      <3>3. \A k \in 1 .. Len(t) : i + k - 1 = Len(s) + k
        BY <1>1, <1>2, <3>1
      <3>4. i + Len(t) - 1 <= Len(w) /\ \A k \in 1 .. Len(t) : w[i + k - 1] = t[k]
        BY <1>1, <1>2, <1>3, <1>5, <3>1, <3>3
      <3> QED
        BY <3>2, <3>4 DEF Holds, t
    <2> QED
      BY <1>2, <2>1, <2>2
  <1>10. ASSUME NEW i \in 1 .. Len(w), NEW j \in 1 .. Len(w), i < j,
                IsMarker(w, i, "d8"), IsMarker(w, j, "d8")
         PROVE  w[i].of < w[j].of
    <2>1. CASE j <= Len(s)
      <3>1. i \in 1 .. Len(s) /\ j \in 1 .. Len(s) /\ i <= Len(s)
        BY <1>2, <1>10, <2>1
      <3> QED
        BY <1>4, <1>7, <1>10, <3>1, <2>1 DEF Whole
    <2>2. CASE j > Len(s)
      <3>1. j = Len(s) + 1
        BY <1>6, <1>10, <2>2 DEF IsMarker
      <3>2. i \in 1 .. Len(s) /\ w[j].of = n + 1
        <4>1. i \in 1 .. Len(s) /\ 1 \in 1 .. Len(t) /\ w[j] = t[1]
          BY <1>1, <1>2, <1>5, <1>10, <3>1
        <4> QED
          BY <1>1, <4>1
      <3>3. w[i].of \in 0 .. n
        BY <1>4, <3>2 DEF Whole
      <3> QED
        BY <3>2, <3>3
    <2> QED
      BY <1>2, <2>1, <2>2
  <1>11. w[Len(w)].b # "ff"
    <2>1. Len(t) \in 1 .. Len(t) /\ Len(w) = Len(s) + Len(t)
      BY <1>1, <1>3
    <2> QED
      BY <1>1, <1>5, <2>1
  <1>12. w # <<>>
    BY <1>1, <1>2, <1>3
  <1> QED
    BY <1>3, <1>8, <1>9, <1>10, <1>11, <1>12 DEF Whole, w, t

\* The camera sends whole images, but for the end of one it starts with.
LEMMA CameraIsWhole == Whole(Camera, Frames)
  <1> DEFINE J == [f \in 1 .. Frames |-> Jpeg(f)]
             first == Tail(Tail(Jpeg(0)))
             rest == FlattenSeq(J)
  <1>1. Frames \in Nat /\ Len(J) = Frames
    BY PipelineAssumption
  <1>2. first = <<Byte("xx", 0), Byte("ff", 0), Byte("d9", 0)>>
    <2>1. 0 \notin Small
      BY PipelineAssumption
    <2>2. Bytes(0) = <<"ff", "d8", "xx", "ff", "d9">>
      BY <2>1 DEF Bytes
    <2>3. Jpeg(0) = <<Byte("ff", 0), Byte("d8", 0), Byte("xx", 0), Byte("ff", 0), Byte("d9", 0)>>
      BY <2>2 DEF Jpeg
    <2>4. \A a, b, c, d, e : Tail(<<a, b, c, d, e>>) = <<b, c, d, e>>
      OBVIOUS
    <2>5. \A a, b, c, d : Tail(<<a, b, c, d>>) = <<b, c, d>>
      OBVIOUS
    <2>6. Tail(Jpeg(0)) = <<Byte("d8", 0), Byte("xx", 0), Byte("ff", 0), Byte("d9", 0)>>
      <3>1. Tail(<<Byte("ff", 0), Byte("d8", 0), Byte("xx", 0), Byte("ff", 0), Byte("d9", 0)>>)
                = <<Byte("d8", 0), Byte("xx", 0), Byte("ff", 0), Byte("d9", 0)>>
        BY <2>4
      <3> QED
        BY <2>3, <3>1
    <2>7. Tail(Tail(Jpeg(0))) = <<Byte("xx", 0), Byte("ff", 0), Byte("d9", 0)>>
      <3>1. Tail(<<Byte("d8", 0), Byte("xx", 0), Byte("ff", 0), Byte("d9", 0)>>)
                = <<Byte("xx", 0), Byte("ff", 0), Byte("d9", 0)>>
        BY <2>5
      <3> QED
        BY <2>6, <3>1
    <2> QED
      BY <2>7
  <1>3. Whole(first, 0) /\ first[Len(first)].b # "ff" /\ first \in Seq(Octets)
    <2> HIDE DEF first
    <2>1. first \in Seq(Octets) /\ Len(first) = 3
      BY <1>2 DEF Octets, Byte
    <2>2. \A i \in 1 .. 3 : first[i].of = 0 /\ first[i].b # "d8"
      BY <1>2 DEF Byte
    <2>3. \A i \in 1 .. 3 : ~IsMarker(first, i, "d8")
      <3> SUFFICES ASSUME NEW i \in 1 .. 3, i < Len(first), first[i + 1].b = "d8" PROVE FALSE
        BY DEF IsMarker
      <3>1. i + 1 \in 1 .. 3
        BY <2>1
      <3> QED
        BY <2>2, <3>1
    <2>4. first[3].b # "ff"
      BY <1>2 DEF Byte
    <2> QED
      BY <2>1, <2>2, <2>3, <2>4 DEF Whole
  <1>4. Camera = first \o rest
    BY DEF Camera
  <1> HIDE DEF first, rest
  <1>5. CASE Frames = 0
    <2>1. rest = <<>>
      BY <1>1, <1>5 DEF rest, FlattenSeq
    <2> QED
      BY <1>3, <1>4, <1>5, <2>1, ConcatEmptySeq
  <1>6. CASE Frames > 0
    <2>1. PICK s : /\ s = [i \in 1 .. Frames |-> IF i = 1 THEN J[i] ELSE s[i - 1] \o J[i]]
                   /\ rest = s[Frames]
      <3> HIDE DEF J
      <3> QED
        BY <1>1, <1>6, Flattened DEF rest
    <2>2. \A i \in 1 .. Frames : s[i] = IF i = 1 THEN Jpeg(i) ELSE s[i - 1] \o Jpeg(i)
      <3>1. \A t : t = [i \in 1 .. Frames |-> IF i = 1 THEN J[i] ELSE s[i - 1] \o J[i]]
                => \A i \in 1 .. Frames : t[i] = IF i = 1 THEN Jpeg(i) ELSE s[i - 1] \o Jpeg(i)
        OBVIOUS
      <3> QED
        BY <2>1, <3>1, Zenon
    <2> DEFINE Good(n) == /\ s[n] \in Seq(Octets) /\ Whole(first \o s[n], n)
                          /\ (first \o s[n])[Len(first \o s[n])].b # "ff"
               S == {n \in Nat : n \in 1 .. Frames /\ ~Good(n)}
    <2>3. 0 \notin S
      OBVIOUS
    <2>4. ASSUME NEW n \in Nat, n \notin S PROVE n + 1 \notin S
      <3> SUFFICES ASSUME n + 1 \in 1 .. Frames PROVE Good(n + 1)
        BY <2>4
      <3>0. Jpeg(n + 1) \in Seq(Octets)
        BY JpegIs
      <3>1. CASE n = 0
        <4>1. s[n + 1] = Jpeg(n + 1)
          BY <2>2, <3>1
        <4>2. Whole(first \o Jpeg(n + 1), n + 1)
              /\ (first \o Jpeg(n + 1))[Len(first \o Jpeg(n + 1))].b # "ff"
          BY <1>3, <3>1, OneMore
        <4> QED
          BY <3>0, <4>1, <4>2
      <3>2. CASE n > 0
        <4> DEFINE u == first \o s[n]
        <4>0. n \in 1 .. Frames /\ n + 1 # 1 /\ n + 1 - 1 = n
          BY <1>1, <3>2
        <4>1. n \in 1 .. Frames /\ s[n + 1] = s[n] \o Jpeg(n + 1)
          <5> DEFINE i == n + 1
          <5>1. i \in 1 .. Frames /\ i - 1 = n /\ i # 1
            BY <4>0
          <5> HIDE DEF i
          <5>2. s[i] = s[n] \o Jpeg(i)
            BY <2>2, <5>1
          <5> QED
            BY <4>0, <5>2 DEF i
        <4>2. s[n] \in Seq(Octets) /\ Whole(u, n) /\ u[Len(u)].b # "ff"
          BY <2>4, <4>1
        <4>3. first \o s[n + 1] = u \o Jpeg(n + 1) /\ s[n + 1] \in Seq(Octets)
          <5>1. s[n] \in Seq(Octets)
            BY <4>2
          <5>2. first \in Seq(Octets)
            BY <1>3
          <5>3. (first \o s[n]) \o Jpeg(n + 1) = first \o (s[n] \o Jpeg(n + 1))
            <6>1. \A a, b, c \in Seq(Octets) : (a \o b) \o c = a \o (b \o c)
              BY ConcatAssociative
            <6> QED
              BY <5>1, <5>2, <3>0, <6>1, Zenon
          <5>4. s[n] \o Jpeg(n + 1) \in Seq(Octets)
            BY <5>1, <3>0, ConcatProperties
          <5> QED
            BY <4>1, <5>3, <5>4
        <4> HIDE DEF u
        <4>4. Whole(u \o Jpeg(n + 1), n + 1) /\ (u \o Jpeg(n + 1))[Len(u \o Jpeg(n + 1))].b # "ff"
          BY <4>2, OneMore
        <4> QED
          BY <4>3, <4>4
      <3> HIDE DEF Good
      <3> QED
        BY <3>1, <3>2
    <2>5. S = {}
      <3> HIDE DEF S
      <3>1. S \in SUBSET Nat
        BY DEF S
      <3> QED
        BY <2>3, <2>4, <3>1, NoException
    <2>6. Good(Frames)
      <3> HIDE DEF Good
      <3>1. Frames \notin S
        BY <2>5
      <3>2. Frames \in Nat /\ Frames \in 1 .. Frames
        BY <1>1, <1>6
      <3> QED
        BY <3>1, <3>2
    <2> QED
      BY <1>4, <2>1, <2>6
  <1> QED
    BY <1>1, <1>5, <1>6

-----------------------------------------------------------------------------
(* The pieces of it.                                                       *)

\* s is what the camera gave behind its first p bytes.
Piece(s, p) ==
    /\ s \in Seq(Octets) /\ p + Len(s) <= Len(Camera)
    /\ \A i \in 1 .. Len(s) : s[i] = Camera[p + i]

\* A piece that begins with an SOI and ends with an EOI.
Framed(s, p) == Piece(s, p) /\ IsMarker(s, 1, "d8") /\ IsMarker(s, Len(s) - 1, "d9")

\* What the capture thread has not yet published or dropped begins here.
Ahead == delivered - Len(buf) + (cursor - 1) - Len(mjpeg_frame)

\* The parts are images that begin in the first p bytes.
PartsUpTo(p) ==
    /\ parts \in Seq(Seq(Octets))
    /\ \A i \in 1 .. Len(parts) :
          \E a \in 1 .. p : IsMarker(Camera, a, "d8") /\ parts[i] = Jpeg(Camera[a].of)
                            /\ Camera[a].of \in 1 .. Frames
    /\ \A i, j \in 1 .. Len(parts) : i < j => parts[i][1].of < parts[j][1].of

CaptureInv ==
    /\ mjpeg_frame \in Seq(Octets)
    /\ cap \in {"open", "format"} => pixel_format = "none"
    /\ cap = "buffers" => pixel_format # "none"
    /\ Len(buf) <= delivered /\ Piece(buf, delivered - Len(buf))
    /\ cap # "scan" => buf = <<>> /\ cursor = 1
    /\ cap = "scan" => pixel_format # "none" /\ buf # <<>>
    /\ pixel_format # "mjpeg" => mjpeg_frame = <<>>
    /\ mjpeg_frame # <<>> =>
         cursor = 1 /\ IsMarker(mjpeg_frame, 1, "d8") /\ Ahead \in Nat /\ Piece(mjpeg_frame, Ahead)

\* What the broadcast thread cuts ends before the frame in g_frame, and that
\* before what the capture thread has ahead.
StreamInv ==
    /\ assembling = <<>> /\ data \in Seq(Octets) /\ chunk \in Seq(Octets)
    /\ reader # "scan" => chunk = <<>>
    /\ pixel_format # "mjpeg" => reader # "scan" /\ parts = <<>>
    /\ pixel_format = "none" => sequence = 0
    /\ pixel_format = "mjpeg" =>
        \E c \in Nat :
            /\ reader = "scan" => Framed(chunk, c)
            /\ PartsUpTo(c + position - 1) /\ c + Len(chunk) <= Ahead
            /\ sequence # last_sequence =>
                  \E p \in Nat : c + Len(chunk) <= p /\ Framed(data, p) /\ p + Len(data) <= Ahead

PipelineInv == TypeOK /\ CaptureInv /\ StreamInv

-----------------------------------------------------------------------------
(* The scans.                                                              *)

LEMMA MarkersAre ==
    ASSUME NEW s \in Seq(Octets), NEW from \in Nat, NEW m
    PROVE  /\ Markers(s, from, m) \in SUBSET Nat
           /\ \A i : i \in Markers(s, from, m) <=> (i \in from .. Len(s) /\ IsMarker(s, i, m))
           /\ \A i \in Markers(s, from, m) : i >= from /\ i < Len(s)
  <1>1. Len(s) \in Nat
    BY LenProperties
  <1> QED
    BY <1>1 DEF Markers, IsMarker

\* Where the image under assembly goes on.
LEMMA StartIs ==
    ASSUME NEW s \in Seq(Octets), NEW from \in 1 .. Len(s) + 1, NEW begun
    PROVE  /\ begun # <<>> => StartOf(begun, s, from) = from
           /\ begun = <<>> /\ StartOf(begun, s, from) # 0 =>
                 /\ StartOf(begun, s, from) \in from .. Len(s) - 1
                 /\ IsMarker(s, StartOf(begun, s, from), "d8")
  <1> DEFINE M == Markers(s, from, "d8")
  <1>1. Len(s) \in Nat /\ from \in Nat
    BY LenProperties
  <1>2. /\ M \in SUBSET Nat /\ \A i : i \in M <=> (i \in from .. Len(s) /\ IsMarker(s, i, "d8"))
        /\ \A i \in M : i >= from /\ i < Len(s)
    BY <1>1, MarkersAre
  <1> HIDE DEF M
  <1>3. CASE begun # <<>>
    BY <1>3 DEF StartOf
  <1>4. CASE begun = <<>> /\ M = {}
    BY <1>4 DEF StartOf, M
  <1>5. CASE begun = <<>> /\ M # {}
    <2>1. StartOf(begun, s, from) = Min(M)
      BY <1>5 DEF StartOf, M
    <2>2. Min(M) \in M
      BY <1>2, <1>5, MinIsIn
    <2>3. Min(M) \in from .. Len(s) - 1 /\ IsMarker(s, Min(M), "d8")
      BY <1>1, <1>2, <2>2
    <2> QED
      BY <1>5, <2>1, <2>3
  <1> QED
    BY <1>3, <1>4, <1>5

\* The byte behind the first EOI.
LEMMA EndIs ==
    ASSUME NEW s \in Seq(Octets), NEW from \in 1 .. Len(s) + 1
    PROVE  /\ Markers(s, from, "d9") = {} => EndOf(s, from) = Len(s) + 1
           /\ Markers(s, from, "d9") # {} =>
                 /\ EndOf(s, from) - 2 \in from .. Len(s) - 1 /\ EndOf(s, from) \in Nat
                 /\ IsMarker(s, EndOf(s, from) - 2, "d9")
                 /\ \A k \in from .. Len(s) : IsMarker(s, k, "d9") => EndOf(s, from) - 2 <= k
  <1> DEFINE M == Markers(s, from, "d9")
  <1>1. Len(s) \in Nat /\ from \in Nat
    BY LenProperties
  <1>2. /\ M \in SUBSET Nat /\ \A i : i \in M <=> (i \in from .. Len(s) /\ IsMarker(s, i, "d9"))
        /\ \A i \in M : i >= from /\ i < Len(s)
    BY <1>1, MarkersAre
  <1> HIDE DEF M
  <1>3. CASE M = {}
    BY <1>3 DEF EndOf, M
  <1>4. CASE M # {}
    <2> DEFINE e == Min(M)
    <2>1. EndOf(s, from) = e + 2
      BY <1>4 DEF EndOf, M
    <2>2. e \in M /\ \A y \in M : e <= y
      BY <1>2, <1>4, MinIsIn
    <2> HIDE DEF e
    <2>3. e \in Nat /\ EndOf(s, from) - 2 = e /\ EndOf(s, from) \in Nat
      BY <1>2, <2>1, <2>2
    <2>4. e \in from .. Len(s) - 1 /\ IsMarker(s, e, "d9")
      BY <1>1, <1>2, <2>2, <2>3
    <2>5. \A k \in from .. Len(s) : IsMarker(s, k, "d9") => e <= k
      BY <1>2, <2>2
    <2> QED
      BY <1>4, <2>3, <2>4, <2>5 DEF M
  <1> QED
    BY <1>3, <1>4 DEF M

-----------------------------------------------------------------------------
(* Pieces of the stream.                                                   *)

LEMMA PieceCut ==
    ASSUME NEW p \in Nat, NEW s, Piece(s, p), NEW i \in 1 .. Len(s) + 1, NEW j \in i - 1 .. Len(s)
    PROVE  /\ Piece(SubSeq(s, i, j), p + i - 1) /\ Len(SubSeq(s, i, j)) = j - i + 1
           /\ \A k \in 1 .. j - i + 1 : SubSeq(s, i, j)[k] = s[i + k - 1]
           /\ SubSeq(s, i, j) \in Seq(Octets)
  <1> DEFINE t == SubSeq(s, i, j)
  <1>1. s \in Seq(Octets) /\ Len(s) \in Nat /\ \A k \in 1 .. Len(s) : s[k] \in Octets
    BY LenProperties, ElementOfSeq DEF Piece
  <1>2. i \in Int /\ j \in Int /\ \A k \in i .. j : s[k] \in Octets
    BY <1>1
  <1>3. /\ t \in Seq(Octets) /\ Len(t) = IF i <= j THEN j - i + 1 ELSE 0
        /\ \A k \in 1 .. j - i + 1 : t[k] = s[i + k - 1]
    BY <1>2, SubSeqProperties
  <1> HIDE DEF t
  <1>4. Len(t) = j - i + 1
    BY <1>1, <1>3
  <1>5. Len(Camera) \in Nat
    BY CameraIsWhole, LenProperties DEF Whole
  <1>6. p + i - 1 + Len(t) <= Len(Camera)
    BY <1>1, <1>4, <1>5 DEF Piece
  <1>7. ASSUME NEW k \in 1 .. Len(t) PROVE t[k] = Camera[p + i - 1 + k]
    <2>1. i + k - 1 \in 1 .. Len(s) /\ p + (i + k - 1) = p + i - 1 + k /\ k \in 1 .. j - i + 1
      BY <1>1, <1>4
    <2>2. s[i + k - 1] = Camera[p + (i + k - 1)]
      BY <2>1 DEF Piece
    <2> QED
      BY <1>3, <2>1, <2>2
  <1> QED
    BY <1>3, <1>4, <1>6, <1>7 DEF Piece, t

LEMMA PieceJoin ==
    ASSUME NEW p \in Nat, NEW s, Piece(s, p), NEW t, Piece(t, p + Len(s))
    PROVE  /\ Piece(s \o t, p) /\ Len(s \o t) = Len(s) + Len(t)
           /\ \A i \in 1 .. Len(s) : (s \o t)[i] = s[i]
           /\ \A k \in 1 .. Len(t) : (s \o t)[Len(s) + k] = t[k]
  <1> DEFINE w == s \o t
  <1>1. s \in Seq(Octets) /\ t \in Seq(Octets) /\ Len(s) \in Nat /\ Len(t) \in Nat
    BY LenProperties DEF Piece
  <1>2. /\ w \in Seq(Octets) /\ Len(w) = Len(s) + Len(t)
        /\ \A i \in 1 .. Len(s) + Len(t) : w[i] = IF i <= Len(s) THEN s[i] ELSE t[i - Len(s)]
    BY <1>1, ConcatProperties
  <1> HIDE DEF w
  <1>3. ASSUME NEW i \in 1 .. Len(s) PROVE w[i] = s[i]
    <2>1. i \in 1 .. Len(s) + Len(t) /\ i <= Len(s)
      BY <1>1
    <2> QED
      BY <1>2, <2>1
  <1>4. ASSUME NEW k \in 1 .. Len(t) PROVE w[Len(s) + k] = t[k]
    <2>1. Len(s) + k \in 1 .. Len(s) + Len(t) /\ ~(Len(s) + k <= Len(s)) /\ Len(s) + k - Len(s) = k
      BY <1>1
    <2> QED
      BY <1>2, <2>1
  <1>5. Len(Camera) \in Nat
    BY CameraIsWhole, LenProperties DEF Whole
  <1>6. p + Len(w) <= Len(Camera)
    BY <1>1, <1>2, <1>5 DEF Piece
  <1>7. ASSUME NEW i \in 1 .. Len(w) PROVE w[i] = Camera[p + i]
    <2>1. CASE i <= Len(s)
      BY <1>1, <1>3, <2>1 DEF Piece
    <2>2. CASE i > Len(s)
      <3> DEFINE k == i - Len(s)
      <3>1. k \in 1 .. Len(t) /\ p + Len(s) + k = p + i
        BY <1>1, <1>2, <2>2
      <3>2. w[i] = t[k]
        BY <1>1, <1>2, <2>2
      <3>3. t[k] = Camera[p + Len(s) + k]
        BY <3>1 DEF Piece
      <3> QED
        BY <3>1, <3>2, <3>3
    <2> QED
      BY <1>1, <2>1, <2>2
  <1> QED
    BY <1>2, <1>3, <1>4, <1>6, <1>7 DEF Piece, w

\* In a framed piece an SOI begins a whole image, and the first EOI behind it
\* is that image's.
LEMMA ImageIsCut ==
    ASSUME NEW c \in Nat, NEW s, Framed(s, c), NEW i \in 1 .. Len(s) - 1, IsMarker(s, i, "d8")
    PROVE  /\ Markers(s, i, "d9") # {} /\ EndOf(s, i) \in i + 1 .. Len(s) + 1
           /\ IsMarker(Camera, c + i, "d8") /\ Camera[c + i].of \in 1 .. Frames
           /\ SubSeq(s, i, EndOf(s, i) - 1) = Jpeg(Camera[c + i].of)
  <1> DEFINE f == Camera[c + i].of
             e == EndOf(s, i)
             n == Len(Jpeg(f))
  <1>1. s \in Seq(Octets) /\ Len(s) \in Nat /\ Len(Camera) \in Nat /\ c + Len(s) <= Len(Camera)
        /\ \A k \in 1 .. Len(s) : s[k] = Camera[c + k]
    BY CameraIsWhole, LenProperties DEF Framed, Piece, Whole
  <1>2. IsMarker(Camera, c + i, "d8") /\ c + i \in 1 .. Len(Camera)
    <2>1. i + 1 \in 1 .. Len(s) /\ c + (i + 1) = c + i + 1 /\ c + i < Len(Camera)
      BY <1>1
    <2>2. s[i] = Camera[c + i] /\ s[i + 1] = Camera[c + (i + 1)]
      <3>1. \A k \in 1 .. Len(s) : s[k] = Camera[c + k]
        BY <1>1
      <3>2. i \in 1 .. Len(s) /\ i + 1 \in 1 .. Len(s)
        BY <1>1, <2>1
      <3> QED
        BY <3>1, <3>2, Zenon
    <2>3. s[i].b = "ff" /\ s[i + 1].b = "d8"
      BY DEF IsMarker
    <2>4. Camera[c + i].b = "ff" /\ Camera[c + i + 1].b = "d8"
      BY <2>1, <2>2, <2>3
    <2>5. c + i \in 1 .. Len(Camera)
      BY <1>1, <2>1
    <2> QED
      BY <2>1, <2>4, <2>5 DEF IsMarker
  <1>3. f \in 1 .. Frames /\ Holds(Camera, c + i, f) /\ f \in Nat
    <2>1. f # 0 /\ f \in 0 .. Frames /\ Holds(Camera, c + i, f)
      BY <1>2, CameraIsWhole DEF Whole
    <2> QED
      BY <2>1, PipelineAssumption
  <1>4. /\ Jpeg(f) \in Seq(Octets) /\ n \in {4, 5}
        /\ Jpeg(f)[n - 1].b = "ff" /\ Jpeg(f)[n].b = "d9"
        /\ Jpeg(f)[1].b = "ff" /\ Jpeg(f)[2].b = "d8" /\ \A k \in 2 .. n - 2 : Jpeg(f)[k].b # "ff"
    <2>1. f \in Nat
      BY <1>3
    <2> HIDE DEF f
    <2> QED
      BY <2>1, JpegIs
  <1>5. ASSUME NEW k \in 1 .. n, i + k - 1 <= Len(s) PROVE s[i + k - 1] = Jpeg(f)[k]
    <2>1. i + k - 1 \in 1 .. Len(s) /\ c + (i + k - 1) = c + i + k - 1
      BY <1>1, <1>4, <1>5
    <2>2. Camera[c + i + k - 1] = Jpeg(f)[k]
      BY <1>3 DEF Holds
    <2> QED
      BY <1>1, <2>1, <2>2
  <1>6. Markers(s, i, "d9") # {}
    <2>1. Len(s) - 1 \in i .. Len(s) /\ IsMarker(s, Len(s) - 1, "d9")
      BY <1>1 DEF Framed
    <2>2. i \in Nat /\ s \in Seq(Octets)
      BY <1>1
    <2>3. Len(s) - 1 \in Markers(s, i, "d9")
      BY <2>1, <2>2, MarkersAre
    <2> QED
      BY <2>3
  <1>7. /\ e - 2 \in i .. Len(s) - 1 /\ e \in Nat /\ IsMarker(s, e - 2, "d9")
        /\ \A k \in i .. Len(s) : IsMarker(s, k, "d9") => e - 2 <= k
    <2>1. i \in 1 .. Len(s) + 1 /\ s \in Seq(Octets)
      BY <1>1
    <2> QED
      BY <1>6, <2>1, EndIs
  <1> HIDE DEF e, f, n
  <1>8. e - 2 >= i + n - 2
    <2> SUFFICES ASSUME e - 2 < i + n - 2 PROVE FALSE
      BY <1>4, <1>7
    <2> DEFINE k == e - 2 - i + 1
    <2>1. k \in 1 .. n - 2 /\ k + 1 \in 1 .. n /\ i + k - 1 = e - 2 /\ i + (k + 1) - 1 = e - 1
      BY <1>1, <1>4, <1>7
    <2> HIDE DEF k
    <2>2. s[e - 2].b = "ff" /\ s[e - 1].b = "d9" /\ e - 1 <= Len(s) /\ e - 2 <= Len(s)
      BY <1>1, <1>7 DEF IsMarker
    <2>3. s[e - 2] = Jpeg(f)[k] /\ s[e - 1] = Jpeg(f)[k + 1]
      <3>1. k \in 1 .. n /\ k + 1 \in 1 .. n
        BY <1>4, <2>1
      <3>2. s[i + k - 1] = Jpeg(f)[k]
        BY <1>5, <2>1, <2>2, <3>1
      <3>3. s[i + (k + 1) - 1] = Jpeg(f)[k + 1]
        BY <1>5, <2>1, <2>2, <3>1
      <3> QED
        BY <2>1, <3>2, <3>3
    <2>4. k = 1
      BY <1>4, <2>1, <2>2, <2>3
    <2> QED
      BY <1>4, <2>2, <2>3, <2>4
  <1>9. e - 2 = i + n - 2
    <2>1. i + n - 2 \in 1 .. Len(s) - 1 /\ i + n - 2 \in i .. Len(s)
          /\ i + (n - 1) - 1 = i + n - 2 /\ i + n - 1 = i + n - 2 + 1
      BY <1>1, <1>4, <1>7, <1>8
    <2>2. s[i + n - 2] = Jpeg(f)[n - 1] /\ s[i + n - 1] = Jpeg(f)[n]
      <3>1. n - 1 \in 1 .. n /\ n \in 1 .. n /\ i + (n - 1) - 1 <= Len(s) /\ i + n - 1 <= Len(s)
        BY <1>4, <2>1
      <3>2. s[i + (n - 1) - 1] = Jpeg(f)[n - 1]
        BY <1>5, <3>1
      <3>3. s[i + n - 1] = Jpeg(f)[n]
        BY <1>5, <3>1
      <3> QED
        BY <2>1, <3>2, <3>3
    <2>3. IsMarker(s, i + n - 2, "d9")
      <3>1. s[i + n - 2].b = "ff" /\ s[i + n - 2 + 1].b = "d9" /\ i + n - 2 < Len(s)
        <4>1. Jpeg(f)[n - 1].b = "ff" /\ Jpeg(f)[n].b = "d9"
          BY <1>4
        <4>2. i + n - 2 < Len(s)
          BY <1>1, <2>1
        <4>3. i + n - 1 = i + n - 2 + 1
          BY <2>1
        <4> QED
          BY <2>2, <4>1, <4>2, <4>3
      <3> QED
        BY <3>1 DEF IsMarker
    <2> QED
      BY <1>4, <1>7, <1>8, <2>1, <2>3
  <1>10. SubSeq(s, i, e - 1) = Jpeg(f)
    <2> DEFINE t == SubSeq(s, i, e - 1)
    <2>0. i \in 1 .. Len(s) + 1 /\ e - 1 \in i - 1 .. Len(s) /\ e - 1 - i + 1 = n /\ Piece(s, c)
      BY <1>1, <1>4, <1>7, <1>9 DEF Framed
    <2>1. t \in Seq(Octets) /\ Len(t) = n /\ \A k \in 1 .. n : t[k] = s[i + k - 1]
      BY <2>0, PieceCut
    <2> HIDE DEF t
    <2>2. ASSUME NEW k \in 1 .. n PROVE t[k] = Jpeg(f)[k]
      <3>1. i + k - 1 <= Len(s)
        BY <1>1, <1>4, <1>7, <1>9
      <3> QED
        BY <1>5, <2>1, <3>1
    <2> QED
      BY <1>4, <2>1, <2>2, SeqEqual DEF t, n
  <1> QED
    BY <1>2, <1>3, <1>6, <1>7, <1>10 DEF e, f

-----------------------------------------------------------------------------
(* The steps.                                                              *)

LEMMA Typed ==
    ASSUME PipelineInv
    PROVE  /\ buf \in Seq(Octets) /\ Len(buf) \in Nat /\ cursor \in Nat /\ cursor >= 1 /\ delivered \in Nat
           /\ mjpeg_frame \in Seq(Octets) /\ Len(mjpeg_frame) \in Nat /\ Ahead \in Int
           /\ data \in Seq(Octets) /\ Len(data) \in Nat /\ chunk \in Seq(Octets) /\ Len(chunk) \in Nat
           /\ position \in Nat /\ position >= 1 /\ sequence \in Nat /\ last_sequence \in Nat
           /\ Len(Camera) \in Nat /\ Camera \in Seq(Octets)
           /\ MaxFrame \in Nat /\ MaxAssembling \in Nat
  <1>1. buf \in Seq(Octets) /\ mjpeg_frame \in Seq(Octets)
    BY DEF PipelineInv, CaptureInv, Piece
  <1>2. data \in Seq(Octets) /\ chunk \in Seq(Octets)
    BY DEF PipelineInv, StreamInv
  <1>3. Camera \in Seq(Octets)
    BY CameraIsWhole DEF Whole
  <1>4. /\ Len(buf) \in Nat /\ Len(mjpeg_frame) \in Nat /\ Len(data) \in Nat
        /\ Len(chunk) \in Nat /\ Len(Camera) \in Nat
    BY <1>1, <1>2, <1>3, LenProperties
  <1>5. /\ cursor \in Nat /\ cursor >= 1 /\ delivered \in Nat /\ position \in Nat /\ position >= 1
        /\ sequence \in Nat /\ last_sequence \in Nat
    BY <1>4 DEF PipelineInv, TypeOK
  <1>6. Ahead \in Int
    BY <1>4, <1>5 DEF Ahead
  <1> QED
    BY <1>1, <1>2, <1>3, <1>4, <1>5, <1>6, PipelineAssumption

\* A step of the capture thread that publishes nothing only moves it ahead.
LEMMA StreamKeeps ==
    ASSUME PipelineInv, UNCHANGED <<pixel_format, frame, stream>>, Ahead' \in Int, Ahead <= Ahead'
    PROVE  StreamInv'
  <1>1. /\ pixel_format' = pixel_format /\ data' = data /\ sequence' = sequence /\ reader' = reader
        /\ last_sequence' = last_sequence /\ chunk' = chunk /\ position' = position
        /\ assembling' = assembling /\ parts' = parts
    BY DEF frame, stream
  <1>2. Ahead \in Int /\ Len(data) \in Nat /\ Len(chunk) \in Nat
    BY Typed
  <1>3. ASSUME NEW q \in Int, q <= Ahead PROVE q <= Ahead'
    BY <1>2, <1>3
  <1>4. ASSUME pixel_format = "mjpeg"
        PROVE  \E c \in Nat :
                   /\ reader' = "scan" => Framed(chunk', c)
                   /\ PartsUpTo(c + position - 1)' /\ c + Len(chunk') <= Ahead'
                   /\ sequence' # last_sequence' =>
                         \E p \in Nat : c + Len(chunk') <= p /\ Framed(data', p) /\ p + Len(data') <= Ahead'
    <2>1. PICK c \in Nat :
              /\ reader = "scan" => Framed(chunk, c)
              /\ PartsUpTo(c + position - 1) /\ c + Len(chunk) <= Ahead
              /\ sequence # last_sequence =>
                    \E p \in Nat : c + Len(chunk) <= p /\ Framed(data, p) /\ p + Len(data) <= Ahead
      BY <1>4 DEF PipelineInv, StreamInv
    <2>2. PartsUpTo(c + position - 1)'
      BY <1>1, <2>1 DEF PartsUpTo
    <2>3. c + Len(chunk') <= Ahead'
      BY <1>1, <1>2, <2>1
    <2>4. sequence' # last_sequence' =>
              \E p \in Nat : c + Len(chunk') <= p /\ Framed(data', p) /\ p + Len(data') <= Ahead'
      <3> SUFFICES ASSUME sequence # last_sequence
                   PROVE  \E p \in Nat : c + Len(chunk) <= p /\ Framed(data, p) /\ p + Len(data) <= Ahead'
        BY <1>1, Zenon
      <3>1. PICK p \in Nat : c + Len(chunk) <= p /\ Framed(data, p) /\ p + Len(data) <= Ahead
        BY <2>1
      <3>2. p + Len(data) <= Ahead'
        BY <1>2, <3>1
      <3> QED
        BY <3>1, <3>2
    <2>5. reader' = "scan" => Framed(chunk', c)
      BY <1>1, <2>1, Zenon
    <2> QED
      BY <2>2, <2>3, <2>4, <2>5
  <1>5. /\ assembling' = <<>> /\ data' \in Seq(Octets) /\ chunk' \in Seq(Octets)
        /\ reader' # "scan" => chunk' = <<>>
        /\ pixel_format' # "mjpeg" => reader' # "scan" /\ parts' = <<>>
        /\ pixel_format' = "none" => sequence' = 0
    BY <1>1 DEF PipelineInv, StreamInv
  <1> QED
    BY <1>1, <1>4, <1>5 DEF StreamInv

LEMMA PartsUpToMore ==
    ASSUME NEW p \in Int, NEW q \in Int, p <= q, PartsUpTo(p)
    PROVE  PartsUpTo(q)
  <1>1. \A a \in 1 .. p : a \in 1 .. q
    OBVIOUS
  <1> QED
    BY <1>1, Zenon DEF PartsUpTo

LEMMA InitKeeps == Init => PipelineInv
  <1> SUFFICES ASSUME Init PROVE PipelineInv
    OBVIOUS
  <1>1. Camera \in Seq(Octets) /\ Len(Camera) \in Nat /\ MaxFrame \in Nat /\ MaxAssembling \in Nat
    BY CameraIsWhole, LenProperties, PipelineAssumption DEF Whole
  <1>2. TypeOK
    <2>1. Len(<<>>) = 0 /\ 1 \in 1 .. Len(<<>>) + 1 /\ 0 \in 0 .. Len(Camera) /\ 0 \in 0 .. 0
      BY <1>1
    <2> QED
      <3>1. last \in BOOLEAN
        BY DEF Init
      <3> QED
        BY <1>1, <2>1, <3>1 DEF Init, TypeOK
  <1>3. CaptureInv
    <2>1. Piece(<<>>, 0)
      BY <1>1 DEF Piece
    <2> QED
      BY <2>1 DEF Init, CaptureInv
  <1>4. StreamInv
    BY DEF Init, StreamInv
  <1> QED
    BY <1>2, <1>3, <1>4 DEF PipelineInv

LEMMA SetUpKeeps ==
    ASSUME PipelineInv, OpenCamera \/ ChooseFormat \/ StartCapture
    PROVE  PipelineInv'
  <1>1. /\ cap \in {"open", "format", "buffers"} /\ cap' \in {"format", "buffers", "dqbuf", "ended"}
        /\ UNCHANGED <<delivered, buf, last, cursor, mjpeg_frame, frame, stream>>
    BY DEF OpenCamera, ChooseFormat, StartCapture, SetUp
  <1>2. /\ delivered' = delivered /\ buf' = buf /\ last' = last /\ cursor' = cursor
        /\ mjpeg_frame' = mjpeg_frame /\ data' = data /\ sequence' = sequence /\ reader' = reader
        /\ last_sequence' = last_sequence /\ chunk' = chunk /\ position' = position
        /\ assembling' = assembling /\ parts' = parts
    BY <1>1 DEF frame, stream
  <1>3. /\ Ahead' = Ahead /\ Ahead \in Int /\ buf = <<>> /\ cursor = 1
    BY <1>1, <1>2, Typed DEF PipelineInv, CaptureInv, Ahead
  <1>4. /\ pixel_format' \in {"none", "mjpeg", "raw"}
        /\ cap' \in {"open", "format"} => pixel_format' = "none"
        /\ cap' \in {"buffers", "dqbuf"} => pixel_format' # "none"
        /\ pixel_format' # "mjpeg" => mjpeg_frame = <<>>
    <2>1. CASE OpenCamera
      BY <2>1 DEF OpenCamera, SetUp, PipelineInv, CaptureInv, TypeOK
    <2>2. CASE ChooseFormat
      BY <2>2 DEF ChooseFormat, SetUp, PipelineInv, CaptureInv
    <2>3. CASE StartCapture
      <3>1. cap = "buffers" /\ cap' \in {"dqbuf", "ended"} /\ pixel_format' = pixel_format /\ pixel_format # "none"
        BY <2>3 DEF StartCapture, SetUp, PipelineInv, CaptureInv
      <3> QED
        BY <3>1 DEF PipelineInv, TypeOK, CaptureInv
    <2> QED
      BY <2>1, <2>2, <2>3
  <1>5. TypeOK'
    BY <1>1, <1>2, <1>4 DEF PipelineInv, TypeOK
  <1>6. CaptureInv'
    BY <1>1, <1>2, <1>3, <1>4 DEF PipelineInv, CaptureInv
  <1>7. StreamInv'
    <2>1. CASE pixel_format' = pixel_format
      BY <1>1, <1>3, <2>1, StreamKeeps
    <2>2. CASE pixel_format' # pixel_format
      <3>1. pixel_format = "none"
        <4>1. ChooseFormat
          BY <2>2 DEF OpenCamera, StartCapture
        <4> QED
          BY <4>1 DEF ChooseFormat, SetUp, PipelineInv, CaptureInv
      <3>2. sequence = 0 /\ last_sequence = 0 /\ reader # "scan" /\ parts = <<>> /\ chunk = <<>>
        BY <3>1 DEF PipelineInv, StreamInv, TypeOK
      <3>3. /\ reader' # "scan" /\ parts' = <<>> /\ sequence' = last_sequence'
            /\ assembling' = <<>> /\ data' \in Seq(Octets) /\ chunk' = <<>> /\ chunk' \in Seq(Octets)
            /\ sequence' = 0
        BY <1>2, <3>2 DEF PipelineInv, StreamInv
      <3>4. 0 + Len(chunk') <= Ahead'
        <4>1. Ahead = delivered /\ delivered \in Nat
          BY <1>3, <3>1, Typed DEF Ahead, PipelineInv, CaptureInv
        <4> QED
          BY <1>3, <3>3, <4>1
      <3>5. PartsUpTo(0 + position - 1)'
        BY <3>3 DEF PartsUpTo
      <3>6. \E c \in Nat :
                /\ reader' = "scan" => Framed(chunk', c)
                /\ PartsUpTo(c + position - 1)' /\ c + Len(chunk') <= Ahead'
                /\ sequence' # last_sequence' =>
                      \E p \in Nat : c + Len(chunk') <= p /\ Framed(data', p) /\ p + Len(data') <= Ahead'
        <4> WITNESS 0 \in Nat
        <4> QED
          BY <3>3, <3>4, <3>5
      <3> QED
        BY <3>3, <3>6 DEF StreamInv
    <2> QED
      BY <2>1, <2>2
  <1> QED
    BY <1>5, <1>6, <1>7 DEF PipelineInv

LEMMA DequeueKeeps ==
    ASSUME PipelineInv, NEW n \in BufferBytes, NEW flag \in BOOLEAN, Dequeue(n, flag)
    PROVE  PipelineInv'
  <1>1. /\ cap = "dqbuf" /\ cap' = "scan" /\ buf' = SubSeq(Camera, delivered + 1, delivered + n)
        /\ delivered' = delivered + n /\ delivered + n <= Len(Camera) /\ last' = flag /\ cursor' = 1
        /\ pixel_format' = pixel_format /\ mjpeg_frame' = mjpeg_frame
        /\ UNCHANGED <<pixel_format, frame, stream>>
    BY DEF Dequeue
  <1>2. /\ data' = data /\ sequence' = sequence /\ reader' = reader
        /\ last_sequence' = last_sequence /\ chunk' = chunk /\ position' = position
        /\ assembling' = assembling /\ parts' = parts
    BY <1>1 DEF frame, stream
  <1>3. n \in Nat /\ n > 0 /\ delivered \in Nat /\ Len(Camera) \in Nat /\ Len(mjpeg_frame) \in Nat
    BY Typed, PipelineAssumption
  <1>4. buf = <<>> /\ cursor = 1 /\ Len(buf) = 0 /\ pixel_format # "none"
    BY <1>1 DEF PipelineInv, CaptureInv, TypeOK
  <1>5. Piece(buf', delivered) /\ Len(buf') = n
    <2>1. Piece(Camera, 0)
      BY <1>3, Typed DEF Piece
    <2> DEFINE i == delivered + 1
               j == delivered + n
    <2>3. /\ i \in 1 .. Len(Camera) + 1 /\ j \in i - 1 .. Len(Camera)
          /\ 0 + i - 1 = delivered /\ j - i + 1 = n
      BY <1>1, <1>3
    <2>4. buf' = SubSeq(Camera, i, j)
      BY <1>1
    <2> HIDE DEF i, j
    <2>5. Piece(SubSeq(Camera, i, j), 0 + i - 1) /\ Len(SubSeq(Camera, i, j)) = j - i + 1
      BY <2>1, <2>3, PieceCut
    <2> QED
      BY <2>3, <2>4, <2>5
  <1>6. Ahead' = Ahead /\ Ahead' \in Int /\ Ahead <= Ahead' /\ delivered' - Len(buf') = delivered
    <2>1. delivered' - Len(buf') = delivered
      BY <1>1, <1>3, <1>5
    <2>2. Ahead = delivered - Len(mjpeg_frame)
      BY <1>3, <1>4 DEF Ahead
    <2>3. Ahead' = delivered - Len(mjpeg_frame)
      BY <1>1, <1>3, <2>1 DEF Ahead
    <2> QED
      BY <1>3, <2>1, <2>2, <2>3
  <1>7. buf' # <<>>
    BY <1>3, <1>5
  <1>8. TypeOK'
    <2>1. cursor' \in 1 .. Len(buf') + 1 /\ delivered' \in 0 .. Len(Camera)
      BY <1>1, <1>3, <1>5
    <2> QED
      BY <1>1, <1>2, <1>4, <2>1 DEF PipelineInv, TypeOK
  <1>9. CaptureInv'
    <2>1. Len(buf') <= delivered'
      BY <1>1, <1>3, <1>5
    <2>2. mjpeg_frame' # <<>> =>
              cursor' = 1 /\ IsMarker(mjpeg_frame', 1, "d8") /\ Ahead' \in Nat /\ Piece(mjpeg_frame', Ahead')
      BY <1>1, <1>6 DEF PipelineInv, CaptureInv
    <2>3. mjpeg_frame' \in Seq(Octets) /\ (pixel_format' # "mjpeg" => mjpeg_frame' = <<>>)
      BY <1>1 DEF PipelineInv, CaptureInv
    <2> QED
      BY <1>1, <1>4, <1>5, <1>6, <1>7, <2>1, <2>2, <2>3 DEF CaptureInv
  <1>10. StreamInv'
    BY <1>1, <1>6, StreamKeeps
  <1> QED
    BY <1>8, <1>9, <1>10 DEF PipelineInv

\* The buffer goes back to the driver with an image kept that ends where it does.
LEMMA RequeueKeeps ==
    ASSUME PipelineInv, cap = "scan", NEW a \in Seq(Octets), Requeue(a), UNCHANGED <<camera, frame, stream>>,
           Len(a) <= MaxFrame,
           Ahead <= delivered - Len(a),
           a # <<>> => /\ pixel_format = "mjpeg" /\ IsMarker(a, 1, "d8")
                       /\ delivered - Len(a) \in Nat /\ Piece(a, delivered - Len(a))
    PROVE  PipelineInv'
  <1>1. /\ mjpeg_frame' = a /\ cap' = "dqbuf" /\ buf' = <<>> /\ last' = FALSE /\ cursor' = 1
        /\ pixel_format' = pixel_format /\ delivered' = delivered /\ UNCHANGED <<pixel_format, frame, stream>>
    BY DEF Requeue, camera
  <1>2. /\ data' = data /\ sequence' = sequence /\ reader' = reader
        /\ last_sequence' = last_sequence /\ chunk' = chunk /\ position' = position
        /\ assembling' = assembling /\ parts' = parts
    BY <1>1 DEF frame, stream
  <1>3. Len(a) \in Nat /\ delivered \in Nat /\ Len(Camera) \in Nat /\ Len(buf') = 0
    BY <1>1, Typed, LenProperties
  <1>4. Ahead' = delivered - Len(a) /\ Ahead' \in Int /\ Ahead <= Ahead' /\ delivered' - Len(buf') = delivered
    BY <1>1, <1>3 DEF Ahead
  <1>5. TypeOK'
    <2>1. cursor' \in 1 .. Len(buf') + 1 /\ delivered' \in 0 .. Len(Camera) /\ pixel_format' # "none"
      BY <1>1, <1>3 DEF PipelineInv, TypeOK
    <2> QED
      BY <1>1, <1>2, <2>1 DEF PipelineInv, TypeOK
  <1>6. CaptureInv'
    <2>1. Piece(buf', delivered) /\ Len(buf') <= delivered'
      <3>1. delivered <= Len(Camera)
        BY DEF PipelineInv, TypeOK
      <3> QED
        BY <1>1, <1>3, <3>1 DEF Piece
    <2> QED
      BY <1>1, <1>4, <2>1 DEF CaptureInv
  <1>7. StreamInv'
    BY <1>1, <1>4, StreamKeeps
  <1> QED
    BY <1>5, <1>6, <1>7 DEF PipelineInv

LEMMA SkipKeeps ==
    ASSUME PipelineInv, SkipBuffer
    PROVE  PipelineInv'
  <1>1. /\ cap = "scan"
        /\ cursor > Len(buf) \/ StartOf(mjpeg_frame, buf, cursor) = 0
        /\ Requeue(mjpeg_frame) /\ UNCHANGED <<camera, frame, stream>>
    BY DEF SkipBuffer
  <1>2. /\ buf \in Seq(Octets) /\ Len(buf) \in Nat /\ cursor \in 1 .. Len(buf) + 1 /\ cursor >= 1
        /\ Len(buf) # 0 /\ delivered \in Nat
    <2>1. buf \in Seq(Octets) /\ buf # <<>>
      BY <1>1, Typed DEF PipelineInv, CaptureInv
    <2>2. Len(buf) # 0
      BY <2>1, EmptySeq
    <2> QED
      BY <2>1, <2>2, Typed DEF PipelineInv, TypeOK
  <1>3. mjpeg_frame = <<>>
    <2> SUFFICES ASSUME mjpeg_frame # <<>> PROVE FALSE
      OBVIOUS
    <2>1. cursor = 1
      BY DEF PipelineInv, CaptureInv
    <2>2. StartOf(mjpeg_frame, buf, cursor) = cursor
      BY <1>2, StartIs
    <2> QED
      BY <1>1, <1>2, <2>1, <2>2
  <1>4. Ahead <= delivered - Len(mjpeg_frame)
    BY <1>2, <1>3 DEF Ahead
  <1>5. mjpeg_frame \in Seq(Octets) /\ Len(mjpeg_frame) <= MaxFrame
    BY Typed DEF PipelineInv, TypeOK
  <1> QED
    BY <1>1, <1>3, <1>4, <1>5, RequeueKeeps

\* Where the image under assembly lies when a piece of buf is put behind it.
LEMMA AssembledIs ==
    ASSUME PipelineInv, Scanning
    PROVE  LET p == delivered - Len(buf) + (ScanStart - 1) - Len(mjpeg_frame) IN
           /\ p \in Nat /\ Ahead <= p /\ Piece(Assembled, p) /\ Assembled \in Seq(Octets)
           /\ p + Len(Assembled) = delivered - Len(buf) + ScanEnd - 1
           /\ ScanEnd \in 1 .. Len(buf) + 1
           /\ ~HasEnd => ScanEnd = Len(buf) + 1
           /\ IsMarker(Assembled, 1, "d8")
           /\ HasEnd => IsMarker(Assembled, Len(Assembled) - 1, "d9")
  <1> DEFINE b == ScanStart
             e == ScanEnd
             t == SubSeq(buf, b, e - 1)
             h == Len(mjpeg_frame)
             p == delivered - Len(buf) + (b - 1) - h
             q == delivered - Len(buf)
  <1>1. /\ buf \in Seq(Octets) /\ Len(buf) \in Nat /\ cursor \in 1 .. Len(buf) /\ delivered \in Nat
        /\ h \in Nat /\ mjpeg_frame \in Seq(Octets) /\ Len(buf) <= delivered /\ q \in Nat /\ Piece(buf, q)
    BY Typed DEF PipelineInv, TypeOK, CaptureInv, Scanning
  <1>2. b # 0 /\ b = StartOf(mjpeg_frame, buf, cursor)
    BY DEF Scanning, ScanStart
  <1> HIDE DEF b
  <1>3. /\ b \in cursor .. Len(buf)
        /\ mjpeg_frame # <<>> => b = 1 /\ cursor = 1
        /\ mjpeg_frame = <<>> => b <= Len(buf) - 1 /\ IsMarker(buf, b, "d8")
    <2>1. cursor \in 1 .. Len(buf) + 1
      BY <1>1
    <2>2. CASE mjpeg_frame # <<>>
      <3>1. cursor = 1
        BY <2>2 DEF PipelineInv, CaptureInv
      <3>2. b = cursor
        BY <1>1, <1>2, <2>1, <2>2, StartIs
      <3> QED
        BY <1>1, <2>2, <3>1, <3>2
    <2>3. CASE mjpeg_frame = <<>>
      <3>1. b \in cursor .. Len(buf) - 1 /\ IsMarker(buf, b, "d8")
        BY <1>1, <1>2, <2>1, <2>3, StartIs
      <3> QED
        BY <1>1, <2>3, <3>1
    <2> QED
      BY <2>2, <2>3
  <1>4. b \in Nat /\ b >= 1
    BY <1>1, <1>3
  <1>5. /\ e - 1 \in b .. Len(buf) /\ e \in Nat
        /\ ~HasEnd => e = Len(buf) + 1
        /\ HasEnd => e - 2 \in b .. Len(buf) - 1 /\ IsMarker(buf, e - 2, "d9")
    <2>1. b \in 1 .. Len(buf) + 1
      BY <1>1, <1>3
    <2>2. e = EndOf(buf, b) /\ (HasEnd <=> Markers(buf, b, "d9") # {})
      BY DEF ScanEnd, HasEnd, b
    <2> HIDE DEF e
    <2>3. CASE HasEnd
      <3>1. e - 2 \in b .. Len(buf) - 1 /\ e \in Nat /\ IsMarker(buf, e - 2, "d9")
        BY <1>1, <2>1, <2>2, <2>3, EndIs
      <3> QED
        BY <1>1, <1>4, <2>3, <3>1
    <2>4. CASE ~HasEnd
      <3>1. e = Len(buf) + 1
        BY <1>1, <2>1, <2>2, <2>4, EndIs
      <3> QED
        BY <1>1, <1>3, <1>4, <2>4, <3>1
    <2> QED
      BY <2>3, <2>4
  <1> HIDE DEF e
  <1>6. Piece(t, q + b - 1) /\ Len(t) = e - b /\ \A k \in 1 .. e - b : t[k] = buf[b + k - 1]
    <2> DEFINE j == e - 1
    <2>1. b \in 1 .. Len(buf) + 1 /\ j \in b - 1 .. Len(buf) /\ j - b + 1 = e - b
      BY <1>1, <1>3, <1>4, <1>5
    <2> HIDE DEF j, q
    <2>2. /\ Piece(SubSeq(buf, b, j), q + b - 1) /\ Len(SubSeq(buf, b, j)) = j - b + 1
          /\ \A k \in 1 .. j - b + 1 : SubSeq(buf, b, j)[k] = buf[b + k - 1]
      <3>1. q \in Nat /\ Piece(buf, q) /\ b \in 1 .. Len(buf) + 1 /\ j \in b - 1 .. Len(buf)
        BY <1>1, <2>1
      <3> QED
        BY <3>1, PieceCut
    <2> QED
      BY <2>1, <2>2 DEF j
  <1>7. p \in Nat /\ Ahead <= p /\ p + h = q + b - 1 /\ Piece(mjpeg_frame, p)
    <2>1. CASE mjpeg_frame # <<>>
      <3>1. p = Ahead
        BY <1>1, <1>3, <2>1 DEF Ahead
      <3>2. Ahead \in Nat /\ Piece(mjpeg_frame, Ahead)
        BY <2>1 DEF PipelineInv, CaptureInv
      <3>3. p + h = q + b - 1
        BY <1>1, <1>4
      <3>4. Ahead <= Ahead
        BY <3>2
      <3> HIDE DEF p
      <3> QED
        BY <3>1, <3>2, <3>3, <3>4
    <2>2. CASE mjpeg_frame = <<>>
      <3>1. h = 0
        BY <2>2
      <3>2. p = q + b - 1 /\ p \in Nat /\ Ahead <= p
        BY <1>1, <1>3, <1>4, <3>1 DEF Ahead
      <3>3. Piece(mjpeg_frame, p)
        <4>1. q + b - 1 + Len(t) <= Len(Camera) /\ Len(t) \in Nat /\ Len(Camera) \in Nat
          BY <1>6, Typed, LenProperties DEF Piece
        <4>2. p + 0 <= Len(Camera)
          <5> HIDE DEF p, q, t
          <5> QED
            BY <3>2, <4>1
        <4> HIDE DEF p
        <4> QED
          BY <1>1, <2>2, <3>1, <4>2 DEF Piece
      <3> QED
        BY <3>1, <3>2, <3>3
    <2> QED
      BY <2>1, <2>2
  <1>8. Assembled = mjpeg_frame \o t
    BY DEF Assembled, b, e
  <1> HIDE DEF p, q, t
  <1>9. /\ Piece(Assembled, p) /\ Len(Assembled) = h + (e - b) /\ Assembled \in Seq(Octets)
        /\ \A i \in 1 .. h : Assembled[i] = mjpeg_frame[i]
        /\ \A k \in 1 .. e - b : Assembled[h + k] = buf[b + k - 1]
    <2>1. Piece(t, p + Len(mjpeg_frame))
      BY <1>6, <1>7
    <2>2. /\ Piece(mjpeg_frame \o t, p) /\ Len(mjpeg_frame \o t) = h + Len(t)
          /\ \A i \in 1 .. h : (mjpeg_frame \o t)[i] = mjpeg_frame[i]
          /\ \A k \in 1 .. Len(t) : (mjpeg_frame \o t)[h + k] = t[k]
      BY <1>7, <2>1, PieceJoin
    <2> QED
      BY <1>6, <1>8, <2>2 DEF Piece
  <1>10. IsMarker(Assembled, 1, "d8")
    <2>1. CASE mjpeg_frame # <<>>
      <3>1. IsMarker(mjpeg_frame, 1, "d8")
        BY <2>1 DEF PipelineInv, CaptureInv
      <3>2. 1 < h /\ mjpeg_frame[1].b = "ff" /\ mjpeg_frame[2].b = "d8"
        BY <3>1 DEF IsMarker
      <3>3. Assembled[1] = mjpeg_frame[1] /\ Assembled[2] = mjpeg_frame[2]
        BY <1>1, <1>9, <3>2
      <3>4. 1 < Len(Assembled)
        BY <1>1, <1>4, <1>5, <1>9, <3>2
      <3> QED
        BY <3>2, <3>3, <3>4 DEF IsMarker
    <2>2. CASE mjpeg_frame = <<>>
      <3>1. h = 0 /\ b <= Len(buf) - 1 /\ IsMarker(buf, b, "d8")
        BY <1>3, <2>2
      <3>2. buf[b].b = "ff" /\ buf[b + 1].b = "d8"
        BY <3>1 DEF IsMarker
      <3>3. e - b >= 2
        BY <1>1, <1>4, <1>5, <3>1
      <3>4. 1 \in 1 .. e - b /\ 2 \in 1 .. e - b /\ b + 1 - 1 = b /\ b + 2 - 1 = b + 1 /\ h + 1 = 1 /\ h + 2 = 2
            /\ 1 < Len(Assembled)
        BY <1>4, <1>5, <1>9, <3>1, <3>3
      <3>5. Assembled[h + 1] = buf[b + 1 - 1] /\ Assembled[h + 2] = buf[b + 2 - 1]
        BY <1>9, <3>4
      <3>6. Assembled[1] = buf[b] /\ Assembled[2] = buf[b + 1]
        BY <3>4, <3>5
      <3> QED
        BY <3>2, <3>4, <3>6 DEF IsMarker
    <2> QED
      BY <2>1, <2>2
  <1>11. ASSUME HasEnd PROVE IsMarker(Assembled, Len(Assembled) - 1, "d9")
    <2>1. e - 2 \in b .. Len(buf) - 1 /\ IsMarker(buf, e - 2, "d9")
      BY <1>5, <1>11
    <2>2. buf[e - 2].b = "ff" /\ buf[e - 2 + 1].b = "d9"
      BY <2>1 DEF IsMarker
    <2>3. /\ e - b - 1 \in 1 .. e - b /\ e - b \in 1 .. e - b
          /\ b + (e - b - 1) - 1 = e - 2 /\ b + (e - b) - 1 = e - 2 + 1
          /\ h + (e - b - 1) = Len(Assembled) - 1 /\ h + (e - b) = Len(Assembled) - 1 + 1
          /\ Len(Assembled) - 1 < Len(Assembled)
      BY <1>1, <1>4, <1>5, <1>9, <2>1
    <2>4. Assembled[h + (e - b - 1)] = buf[b + (e - b - 1) - 1]
      BY <1>9, <2>3
    <2>5. Assembled[h + (e - b)] = buf[b + (e - b) - 1]
      BY <1>9, <2>3
    <2>6. Assembled[Len(Assembled) - 1].b = "ff" /\ Assembled[Len(Assembled) - 1 + 1].b = "d9"
      BY <2>2, <2>3, <2>4, <2>5
    <2> QED
      BY <2>3, <2>6 DEF IsMarker
  <1>12. p + Len(Assembled) = delivered - Len(buf) + ScanEnd - 1
    <2>1. p + Len(Assembled) = q + e - 1
      <3>1. Len(Assembled) = h + (e - b) /\ p + h = q + b - 1
        BY <1>7, <1>9
      <3>2. p \in Nat /\ h \in Nat /\ q \in Nat /\ b \in Nat /\ e \in Nat
        BY <1>1, <1>4, <1>5, <1>7
      <3> QED
        BY <3>1, <3>2
    <2> QED
      BY <2>1 DEF e, q
  <1>13. e \in 1 .. Len(buf) + 1
    BY <1>1, <1>4, <1>5
  <1> QED
    BY <1>5, <1>7, <1>9, <1>10, <1>11, <1>12, <1>13 DEF p, e, b

LEMMA AheadInBuffer ==
    ASSUME PipelineInv
    PROVE  Ahead <= delivered
  <1>1. cursor \in 1 .. Len(buf) + 1
    BY DEF PipelineInv, TypeOK
  <1> QED
    BY <1>1, Typed DEF Ahead

LEMMA DropKeeps ==
    ASSUME PipelineInv, DropOversized
    PROVE  PipelineInv'
  <1>1. cap = "scan" /\ Requeue(<<>>) /\ UNCHANGED <<camera, frame, stream>>
    BY DEF DropOversized, Scanning
  <1>2. <<>> \in Seq(Octets) /\ Len(<<>>) = 0 /\ Len(<<>>) <= MaxFrame /\ Ahead <= delivered - Len(<<>>)
    BY Typed, AheadInBuffer
  <1> QED
    BY <1>1, <1>2, RequeueKeeps

LEMMA OpenKeeps ==
    ASSUME PipelineInv, ScanOpen
    PROVE  PipelineInv'
  <1>1. cap = "scan" /\ UNCHANGED <<camera, frame, stream>> /\ pixel_format = "mjpeg"
    BY DEF ScanOpen, Scanning
  <1>2. CASE last
    <2>1. Requeue(<<>>)
      BY <1>2 DEF ScanOpen
    <2>2. <<>> \in Seq(Octets) /\ Len(<<>>) = 0 /\ Len(<<>>) <= MaxFrame /\ Ahead <= delivered - Len(<<>>)
      BY Typed, AheadInBuffer
    <2> QED
      BY <1>1, <2>1, <2>2, RequeueKeeps
  <1>3. CASE ~last
    <2> DEFINE p == delivered - Len(buf) + (ScanStart - 1) - Len(mjpeg_frame)
    <2>1. Requeue(Assembled) /\ Len(Assembled) <= MaxFrame
      BY <1>3 DEF ScanOpen, Fits
    <2>2. Scanning /\ ~HasEnd
      BY DEF ScanOpen
    <2>3. /\ p \in Nat /\ Ahead <= p /\ Piece(Assembled, p) /\ Assembled \in Seq(Octets)
          /\ p + Len(Assembled) = delivered - Len(buf) + ScanEnd - 1
          /\ ScanEnd = Len(buf) + 1 /\ IsMarker(Assembled, 1, "d8")
      BY <2>2, AssembledIs
    <2> HIDE DEF p
    <2>4. delivered \in Nat /\ Len(buf) \in Nat /\ Len(Assembled) \in Nat
      BY <2>3, Typed, LenProperties
    <2>5. delivered - Len(Assembled) = p
      BY <2>3, <2>4
    <2> QED
      BY <1>1, <2>1, <2>3, <2>5, RequeueKeeps
  <1> QED
    BY <1>2, <1>3

\* The next image comes from behind the frame that is published with it.
LEMMA CompleteKeeps ==
    ASSUME PipelineInv, ScanComplete
    PROVE  PipelineInv'
  <1> DEFINE p == delivered - Len(buf) + (ScanStart - 1) - Len(mjpeg_frame)
             f == Assembled
  <1>1. /\ Scanning /\ HasEnd /\ Publish(f) /\ mjpeg_frame' = <<>> /\ cursor' = ScanEnd
        /\ cap = "scan" /\ pixel_format = "mjpeg" /\ buf # <<>>
        /\ pixel_format' = pixel_format /\ delivered' = delivered /\ cap' = cap /\ buf' = buf /\ last' = last
        /\ last_sequence' = last_sequence /\ chunk' = chunk /\ position' = position
        /\ assembling' = assembling /\ parts' = parts
    BY DEF ScanComplete, Scanning, camera, PipelineInv, CaptureInv
  <1>2. /\ p \in Nat /\ Ahead <= p /\ Piece(f, p) /\ f \in Seq(Octets)
        /\ p + Len(f) = delivered - Len(buf) + ScanEnd - 1 /\ ScanEnd \in 1 .. Len(buf) + 1
        /\ IsMarker(f, 1, "d8") /\ IsMarker(f, Len(f) - 1, "d9")
    BY <1>1, AssembledIs
  <1> HIDE DEF p, f
  <1>3. /\ delivered \in Nat /\ Len(buf) \in Nat /\ Len(f) \in Nat /\ Len(chunk) \in Nat /\ Ahead \in Int
        /\ sequence \in Nat /\ last_sequence \in 0 .. sequence
    BY <1>2, Typed, LenProperties DEF PipelineInv, TypeOK
  <1>4. Ahead' = p + Len(f) /\ Ahead' \in Int /\ Ahead <= Ahead'
    <2>1. ScanEnd \in Nat /\ Len(mjpeg_frame') = 0
      BY <1>1, <1>2, <1>3
    <2>2. Ahead' = delivered - Len(buf) + (ScanEnd - 1) - 0
      BY <1>1, <2>1 DEF Ahead
    <2> QED
      BY <1>2, <1>3, <2>1, <2>2
  <1>5. CaptureInv'
    <2>1. mjpeg_frame' \in Seq(Octets)
      BY <1>1
    <2> QED
      BY <1>1, <2>1 DEF PipelineInv, CaptureInv
  <1>6. CASE Publishes(f)
    <2>1. /\ data' = f /\ sequence' = sequence + 1 /\ Len(f) <= MaxFrame
          /\ reader' = IF reader = "waiting" THEN "check" ELSE reader
      BY <1>1, <1>3, <1>6 DEF Publish, Publishes
    <2>2. TypeOK'
      <3>1. /\ cursor' \in 1 .. Len(buf') + 1 /\ Len(mjpeg_frame') <= MaxFrame /\ Len(data') <= MaxFrame
            /\ sequence' \in Nat /\ last_sequence' \in 0 .. sequence' /\ reader' \in {"check", "waiting", "scan"}
        BY <1>1, <1>2, <1>3, <2>1, Typed DEF PipelineInv, TypeOK
      <3> QED
        BY <1>1, <3>1 DEF PipelineInv, TypeOK
    <2>3. PICK c \in Nat :
              /\ reader = "scan" => Framed(chunk, c)
              /\ PartsUpTo(c + position - 1) /\ c + Len(chunk) <= Ahead
      BY <1>1 DEF PipelineInv, StreamInv
    <2>4. PartsUpTo(c + position - 1)'
      BY <1>1, <2>3 DEF PartsUpTo
    <2>5. Framed(data', p)
      BY <1>2, <2>1 DEF Framed
    <2>6. reader' = "scan" => Framed(chunk', c)
      BY <1>1, <2>1, <2>3
    <2>7. c + Len(chunk') <= p /\ p + Len(data') <= Ahead' /\ c + Len(chunk') <= Ahead'
      BY <1>1, <1>2, <1>3, <1>4, <2>1, <2>3
    <2>8. /\ assembling' = <<>> /\ data' \in Seq(Octets) /\ chunk' \in Seq(Octets)
          /\ reader' # "scan" => chunk' = <<>>
          /\ pixel_format' = "mjpeg"
      BY <1>1, <1>2, <2>1 DEF PipelineInv, StreamInv
    <2>9. StreamInv'
      BY <1>2, <2>4, <2>5, <2>6, <2>7, <2>8 DEF StreamInv
    <2> QED
      BY <1>5, <2>2, <2>9 DEF PipelineInv
  <1>7. CASE ~Publishes(f)
    <2>1. /\ data' = data /\ sequence' = sequence /\ reader' = reader
          /\ UNCHANGED <<pixel_format, frame, stream>>
      BY <1>1, <1>7 DEF Publish, frame, stream
    <2>2. TypeOK'
      <3>1. cursor' \in 1 .. Len(buf') + 1 /\ Len(mjpeg_frame') <= MaxFrame
        BY <1>1, <1>2, <1>3, Typed
      <3> QED
        BY <1>1, <2>1, <3>1 DEF PipelineInv, TypeOK
    <2>3. StreamInv'
      BY <1>4, <2>1, StreamKeeps
    <2> QED
      BY <1>5, <2>2, <2>3 DEF PipelineInv
  <1> QED
    BY <1>6, <1>7

\* Raw pixels reach g_frame, but no client.
LEMMA RawKeeps ==
    ASSUME PipelineInv, PublishRaw
    PROVE  PipelineInv'
  <1>1. /\ cap = "scan" /\ pixel_format = "raw" /\ pixel_format' = pixel_format /\ delivered' = delivered
        /\ mjpeg_frame' = <<>> /\ cap' = "dqbuf" /\ buf' = <<>> /\ last' = FALSE /\ cursor' = 1
        /\ last_sequence' = last_sequence /\ chunk' = chunk /\ position' = position
        /\ assembling' = assembling /\ parts' = parts
    BY DEF PublishRaw, Requeue, camera
  <1>2. /\ delivered \in Nat /\ delivered <= Len(Camera) /\ Len(Camera) \in Nat /\ Len(<<>>) = 0
        /\ sequence \in Nat /\ last_sequence \in 0 .. sequence /\ MaxFrame \in Nat /\ buf \in Seq(Octets)
        /\ data \in Seq(Octets)
    BY Typed DEF PipelineInv, TypeOK
  <1>3. /\ data' \in {data, buf} /\ Len(data') <= MaxFrame
        /\ sequence' \in {sequence, sequence + 1} /\ reader' \in {reader, "check"}
    <2>1. CASE Len(buf) <= MaxFrame
      BY <2>1 DEF PublishRaw
    <2>2. CASE ~(Len(buf) <= MaxFrame)
      BY <2>2 DEF PublishRaw, frame, PipelineInv, TypeOK
    <2> QED
      BY <2>1, <2>2
  <1>4. /\ reader \in {"check", "waiting"} /\ chunk = <<>> /\ parts = <<>> /\ assembling = <<>>
    BY <1>1 DEF PipelineInv, StreamInv, TypeOK
  <1>5. TypeOK'
    <2>1. /\ cursor' \in 1 .. Len(buf') + 1 /\ delivered' \in 0 .. Len(Camera) /\ Len(mjpeg_frame') <= MaxFrame
          /\ sequence' \in Nat /\ last_sequence' \in 0 .. sequence' /\ reader' \in {"check", "waiting", "scan"}
      BY <1>1, <1>2, <1>3, <1>4
    <2> QED
      BY <1>1, <1>3, <2>1 DEF PipelineInv, TypeOK
  <1>6. CaptureInv'
    <2>1. Piece(<<>>, delivered - 0) /\ 0 <= delivered
      BY <1>2 DEF Piece
    <2> QED
      BY <1>1, <1>2, <2>1 DEF CaptureInv
  <1>7. StreamInv'
    <2>1. data' \in Seq(Octets) /\ reader' # "scan" /\ chunk' = <<>> /\ chunk' \in Seq(Octets)
      BY <1>1, <1>2, <1>3, <1>4
    <2> QED
      BY <1>1, <1>4, <2>1 DEF StreamInv
  <1> QED
    BY <1>5, <1>6, <1>7 DEF PipelineInv

LEMMA WaitKeeps ==
    ASSUME PipelineInv, Wait \/ WakeSpuriously
    PROVE  PipelineInv'
  <1>1. /\ reader \in {"check", "waiting"} /\ reader' \in {"check", "waiting"}
        /\ pixel_format' = pixel_format /\ delivered' = delivered /\ cap' = cap /\ buf' = buf /\ last' = last
        /\ cursor' = cursor /\ mjpeg_frame' = mjpeg_frame /\ data' = data /\ sequence' = sequence
        /\ last_sequence' = last_sequence /\ chunk' = chunk /\ position' = position
        /\ assembling' = assembling /\ parts' = parts
    BY DEF Wait, WakeSpuriously, camera, capture, frame
  <1>2. TypeOK'
    BY <1>1 DEF PipelineInv, TypeOK
  <1>3. Ahead' = Ahead
    BY <1>1 DEF Ahead
  <1>4. CaptureInv'
    BY <1>1, <1>3 DEF PipelineInv, CaptureInv
  <1>5. \A q : PartsUpTo(q)' <=> PartsUpTo(q)
    BY <1>1 DEF PartsUpTo
  <1>6. StreamInv'
    <2>1. ASSUME pixel_format = "mjpeg"
          PROVE  \E c \in Nat :
                     /\ reader' = "scan" => Framed(chunk', c)
                     /\ PartsUpTo(c + position - 1)' /\ c + Len(chunk') <= Ahead'
                     /\ sequence' # last_sequence' =>
                           \E p \in Nat : c + Len(chunk') <= p /\ Framed(data', p) /\ p + Len(data') <= Ahead'
      <3>1. PICK c \in Nat :
                /\ PartsUpTo(c + position - 1) /\ c + Len(chunk) <= Ahead
                /\ sequence # last_sequence =>
                      \E p \in Nat : c + Len(chunk) <= p /\ Framed(data, p) /\ p + Len(data) <= Ahead
        BY <2>1 DEF PipelineInv, StreamInv
      <3>2. PartsUpTo(c + position - 1)'
        BY <1>1, <3>1 DEF PartsUpTo
      <3>3. reader' # "scan"
        BY <1>1
      <3> QED
        BY <1>1, <1>3, <3>1, <3>2, <3>3
    <2>2. /\ assembling' = <<>> /\ data' \in Seq(Octets) /\ chunk' \in Seq(Octets) /\ chunk' = <<>>
          /\ pixel_format' # "mjpeg" => reader' # "scan" /\ parts' = <<>>
          /\ pixel_format' = "none" => sequence' = 0
      BY <1>1 DEF PipelineInv, StreamInv
    <2> QED
      BY <1>1, <2>1, <2>2 DEF StreamInv
  <1> QED
    BY <1>2, <1>4, <1>6 DEF PipelineInv

\* What the next three steps leave alone.
ReaderOnly == UNCHANGED <<camera, capture, frame>>

LEMMA CaptureAlone ==
    ASSUME PipelineInv, ReaderOnly
    PROVE  /\ CaptureInv' /\ Ahead' = Ahead
           /\ pixel_format' = pixel_format /\ delivered' = delivered /\ cap' = cap /\ buf' = buf /\ last' = last
           /\ cursor' = cursor /\ mjpeg_frame' = mjpeg_frame /\ data' = data /\ sequence' = sequence
  <1>1. /\ pixel_format' = pixel_format /\ delivered' = delivered /\ cap' = cap /\ buf' = buf /\ last' = last
        /\ cursor' = cursor /\ mjpeg_frame' = mjpeg_frame /\ data' = data /\ sequence' = sequence
    BY DEF ReaderOnly, camera, capture, frame
  <1>2. Ahead' = Ahead
    BY <1>1 DEF Ahead
  <1>3. CaptureInv'
    BY <1>1, <1>2 DEF PipelineInv, CaptureInv
  <1> QED
    BY <1>1, <1>2, <1>3

LEMMA CopyKeeps ==
    ASSUME PipelineInv, CopyFrame
    PROVE  PipelineInv'
  <1>1. /\ reader = "check" /\ sequence # last_sequence /\ last_sequence' = sequence
        /\ assembling' = assembling /\ parts' = parts /\ ReaderOnly
    BY DEF CopyFrame, ReaderOnly
  <1>2. /\ CaptureInv' /\ Ahead' = Ahead
        /\ pixel_format' = pixel_format /\ delivered' = delivered /\ cap' = cap /\ buf' = buf /\ last' = last
        /\ cursor' = cursor /\ mjpeg_frame' = mjpeg_frame /\ data' = data /\ sequence' = sequence
    BY <1>1, CaptureAlone
  <1>3. data \in Seq(Octets) /\ Len(data) \in Nat /\ Len(chunk) \in Nat /\ Ahead \in Int /\ sequence \in Nat
    BY Typed
  <1>4. CASE IsJpeg
    <2>1. chunk' = data /\ position' = 1 /\ reader' = "scan" /\ pixel_format = "mjpeg"
      BY <1>4 DEF CopyFrame, IsJpeg
    <2>2. chunk = <<>> /\ position = 1
      BY <1>1, Typed DEF PipelineInv, StreamInv, TypeOK
    <2>3. PICK c \in Nat :
              /\ PartsUpTo(c + position - 1)
              /\ \E p \in Nat : c + Len(chunk) <= p /\ Framed(data, p) /\ p + Len(data) <= Ahead
      BY <1>1, <2>1 DEF PipelineInv, StreamInv
    <2>4. PICK p \in Nat : c + Len(chunk) <= p /\ Framed(data, p) /\ p + Len(data) <= Ahead
      BY <2>3
    <2>5. PartsUpTo(p + 1 - 1)
      <3>1. c + position - 1 <= p + 1 - 1 /\ c + position - 1 \in Int /\ p + 1 - 1 \in Int
        BY <1>3, <2>2, <2>4
      <3> DEFINE from == c + position - 1
                 to == p + 1 - 1
      <3>2. PartsUpTo(from) /\ from <= to /\ from \in Int /\ to \in Int
        BY <2>3, <3>1
      <3> HIDE DEF from, to
      <3>3. PartsUpTo(to)
        BY <3>2, PartsUpToMore
      <3> QED
        BY <3>3 DEF to
    <2>6. PartsUpTo(p + position - 1)'
      BY <1>1, <2>1, <2>5 DEF PartsUpTo
    <2>7. StreamInv'
      <3>1. /\ assembling' = <<>> /\ data' \in Seq(Octets) /\ chunk' \in Seq(Octets)
            /\ sequence' = last_sequence' /\ reader' = "scan" /\ pixel_format' = "mjpeg"
        BY <1>1, <1>2, <1>3, <2>1 DEF PipelineInv, StreamInv
      <3>2. Framed(chunk', p) /\ p + Len(chunk') <= Ahead'
        BY <1>2, <2>1, <2>4
      <3> QED
        BY <2>6, <3>1, <3>2 DEF StreamInv
    <2>8. TypeOK'
      <3>1. position' \in 1 .. Len(chunk') + 1 /\ last_sequence' \in 0 .. sequence'
        BY <1>1, <1>2, <1>3, <2>1
      <3> QED
        BY <1>1, <1>2, <2>1, <3>1 DEF PipelineInv, TypeOK
    <2> QED
      BY <1>2, <2>7, <2>8 DEF PipelineInv
  <1>5. CASE ~IsJpeg
    <2>1. chunk' = chunk /\ position' = position /\ reader' = reader /\ pixel_format # "mjpeg"
      BY <1>5 DEF CopyFrame, IsJpeg
    <2>2. StreamInv'
      <3>1. pixel_format = "none" => sequence = 0
        BY DEF PipelineInv, StreamInv
      <3> QED
        BY <1>1, <1>2, <2>1, <3>1 DEF PipelineInv, StreamInv
    <2>3. TypeOK'
      <3>1. last_sequence' \in 0 .. sequence'
        BY <1>1, <1>2, <1>3
      <3> QED
        BY <1>1, <1>2, <2>1, <3>1 DEF PipelineInv, TypeOK
    <2> QED
      BY <1>2, <2>2, <2>3 DEF PipelineInv
  <1> QED
    BY <1>4, <1>5

LEMMA DoneKeeps ==
    ASSUME PipelineInv, ChunkDone
    PROVE  PipelineInv'
  <1>1. /\ reader = "scan" /\ reader' = "check" /\ chunk' = <<>> /\ position' = 1
        /\ last_sequence' = last_sequence /\ assembling' = assembling /\ parts' = parts /\ ReaderOnly
    BY DEF ChunkDone, ReaderOnly
  <1>2. /\ CaptureInv' /\ Ahead' = Ahead
        /\ pixel_format' = pixel_format /\ delivered' = delivered /\ cap' = cap /\ buf' = buf /\ last' = last
        /\ cursor' = cursor /\ mjpeg_frame' = mjpeg_frame /\ data' = data /\ sequence' = sequence
    BY <1>1, CaptureAlone
  <1>3. /\ Len(data) \in Nat /\ Len(chunk) \in Nat /\ Ahead \in Int /\ position \in 1 .. Len(chunk) + 1
        /\ pixel_format = "mjpeg" /\ Len(chunk') = 0
    BY <1>1, Typed DEF PipelineInv, TypeOK, StreamInv
  <1>4. TypeOK'
    <2>1. position' \in 1 .. Len(chunk') + 1
      BY <1>1, <1>3
    <2> QED
      BY <1>1, <1>2, <2>1 DEF PipelineInv, TypeOK
  <1>5. PICK c \in Nat :
            /\ PartsUpTo(c + position - 1) /\ c + Len(chunk) <= Ahead
            /\ sequence # last_sequence =>
                  \E p \in Nat : c + Len(chunk) <= p /\ Framed(data, p) /\ p + Len(data) <= Ahead
    BY <1>3 DEF PipelineInv, StreamInv
  <1>d. PICK d \in Nat : d = c + Len(chunk)
    BY <1>3
  <1>6. PartsUpTo(d)
    <2> DEFINE from == c + position - 1
    <2>1. PartsUpTo(from) /\ from <= d /\ from \in Int /\ d \in Int
      BY <1>3, <1>5, <1>d
    <2> HIDE DEF from
    <2> QED
      BY <2>1, PartsUpToMore
  <1>7. d \in Nat /\ d + 1 - 1 = d /\ d + 0 = d /\ d <= Ahead
    BY <1>3, <1>5, <1>d
  <1>8. sequence # last_sequence => \E p \in Nat : d <= p /\ Framed(data, p) /\ p + Len(data) <= Ahead
    BY <1>5, <1>d
  <1>9. PartsUpTo(d + position - 1)'
    <2>1. d + position' - 1 = d
      BY <1>1
    <2> QED
      BY <1>1, <1>6, <2>1 DEF PartsUpTo
  <1>10. StreamInv'
    <2>1. /\ assembling' = <<>> /\ data' \in Seq(Octets) /\ chunk' \in Seq(Octets)
          /\ reader' # "scan" /\ chunk' = <<>> /\ pixel_format' = "mjpeg"
      BY <1>1, <1>2, <1>3 DEF PipelineInv, StreamInv
    <2>2. d + Len(chunk') <= Ahead'
      BY <1>2, <1>3, <1>7
    <2>3. sequence' # last_sequence' =>
              \E p \in Nat : d + Len(chunk') <= p /\ Framed(data', p) /\ p + Len(data') <= Ahead'
      BY <1>1, <1>2, <1>3, <1>7, <1>8
    <2> QED
      BY <1>7, <1>9, <2>1, <2>2, <2>3 DEF StreamInv
  <1> QED
    BY <1>2, <1>4, <1>10 DEF PipelineInv

LEMMA CutKeeps ==
    ASSUME PipelineInv, CutPart
    PROVE  PipelineInv'
  <1>1. /\ Cutting /\ reader = "scan" /\ reader' = reader /\ position' = PartEnd /\ chunk' = chunk
        /\ last_sequence' = last_sequence /\ ReaderOnly /\ pixel_format = "mjpeg" /\ assembling = <<>>
    BY DEF CutPart, Cutting, ReaderOnly, PipelineInv, StreamInv
  <1>2. /\ CaptureInv' /\ Ahead' = Ahead
        /\ pixel_format' = pixel_format /\ delivered' = delivered /\ cap' = cap /\ buf' = buf /\ last' = last
        /\ cursor' = cursor /\ mjpeg_frame' = mjpeg_frame /\ data' = data /\ sequence' = sequence
    BY <1>1, CaptureAlone
  <1>3. /\ chunk \in Seq(Octets) /\ Len(chunk) \in Nat /\ position \in Nat /\ position >= 1
        /\ position \in 1 .. Len(chunk) + 1 /\ Len(Camera) \in Nat /\ MaxAssembling \in Nat
    BY Typed DEF PipelineInv, TypeOK
  <1>4. PICK c \in Nat :
            /\ Framed(chunk, c) /\ PartsUpTo(c + position - 1) /\ c + Len(chunk) <= Ahead
            /\ sequence # last_sequence =>
                  \E p \in Nat : c + Len(chunk) <= p /\ Framed(data, p) /\ p + Len(data) <= Ahead
    BY <1>1 DEF PipelineInv, StreamInv
  <1>5. PICK b : b = PartStart
    OBVIOUS
  <1>6. b \in position .. Len(chunk) - 1 /\ IsMarker(chunk, b, "d8")
    <2>1. PartStart # 0 /\ PartStart = StartOf(<<>>, chunk, position)
      BY <1>1 DEF Cutting, PartStart
    <2> QED
      BY <1>3, <1>5, <2>1, StartIs
  <1>7. PICK e : e = PartEnd
    OBVIOUS
  <1>8. PICK f : f = Camera[c + b].of
    OBVIOUS
  <1>9. /\ b \in 1 .. Len(chunk) - 1 /\ e = EndOf(chunk, b)
    BY <1>3, <1>5, <1>6, <1>7 DEF PartEnd
  <1>10. /\ Markers(chunk, b, "d9") # {} /\ e \in b + 1 .. Len(chunk) + 1
         /\ IsMarker(Camera, c + b, "d8") /\ f \in 1 .. Frames
         /\ SubSeq(chunk, b, e - 1) = Jpeg(f)
    BY <1>4, <1>6, <1>8, <1>9, ImageIsCut
  <1>11. Frames \in Nat /\ f \in Nat /\ e \in Nat /\ b \in Nat
    BY <1>3, <1>9, <1>10, PipelineAssumption
  <1>12. Jpeg(f) \in Seq(Octets) /\ Jpeg(f)[1].of = f
    <2>1. /\ Jpeg(f) \in Seq(Octets) /\ Len(Jpeg(f)) \in {4, 5}
          /\ \A k \in 1 .. Len(Jpeg(f)) : Jpeg(f)[k].of = f
      BY <1>11, JpegIs
    <2> QED
      BY <2>1
  <1>13. Part = Jpeg(f)
    <2>1. Part = <<>> \o Jpeg(f)
      BY <1>1, <1>5, <1>7, <1>10 DEF Part
    <2> QED
      BY <1>12, <2>1, ConcatEmptySeq
  <1>14. assembling' = <<>> /\ (parts' = parts \/ parts' = Append(parts, Jpeg(f)))
    BY <1>5, <1>10, <1>13 DEF CutPart
  <1>15. PartsUpTo(c + e - 1)'
    <2> DEFINE from == c + position - 1
               to == c + e - 1
    <2>1. from \in Int /\ to \in Int /\ from <= to /\ from < c + b /\ c + b <= to /\ c + b \in 1 .. to
      BY <1>3, <1>6, <1>10, <1>11
    <2>2. PartsUpTo(from)
      BY <1>4
    <2>3. PICK q : q = to
      OBVIOUS
    <2> HIDE DEF from, to
    <2>4. PartsUpTo(q)
      BY <2>1, <2>2, <2>3, PartsUpToMore
    <2>5. CASE parts' = parts
      BY <2>3, <2>4, <2>5 DEF PartsUpTo, to
    <2>6. CASE parts' = Append(parts, Jpeg(f))
      <3> DEFINE n == Len(parts)
      <3>1. parts \in Seq(Seq(Octets)) /\ n \in Nat
        BY <2>2, LenProperties DEF PartsUpTo
      <3>2. /\ parts' \in Seq(Seq(Octets)) /\ Len(parts') = n + 1
            /\ \A i \in 1 .. n : parts'[i] = parts[i]
            /\ parts'[n + 1] = Jpeg(f)
        BY <1>12, <2>6, <3>1, AppendProperties
      <3> HIDE DEF n
      <3>3. ASSUME NEW i \in 1 .. n
            PROVE  /\ parts[i][1].of < f
                   /\ \E a \in 1 .. q : IsMarker(Camera, a, "d8") /\ parts[i] = Jpeg(Camera[a].of)
                                       /\ Camera[a].of \in 1 .. Frames
        <4>1. PICK a \in 1 .. from : IsMarker(Camera, a, "d8") /\ parts[i] = Jpeg(Camera[a].of)
                                    /\ Camera[a].of \in 1 .. Frames
          BY <2>2 DEF PartsUpTo, n
        <4>2. a \in 1 .. q /\ a < c + b /\ a \in 1 .. Len(Camera) /\ c + b \in 1 .. Len(Camera)
          <5>1. c + b < Len(Camera)
            BY <1>10 DEF IsMarker
          <5> QED
            BY <1>3, <1>11, <2>1, <2>3, <4>1, <5>1
        <4>3. Camera[a].of < f
          BY <1>8, <1>10, <4>1, <4>2, CameraIsWhole DEF Whole
        <4>4. Camera[a].of \in Nat
          BY <1>11, <4>1
        <4>5. parts[i][1].of = Camera[a].of
          <5>1. Len(Jpeg(Camera[a].of)) \in {4, 5}
                /\ \A k \in 1 .. Len(Jpeg(Camera[a].of)) : Jpeg(Camera[a].of)[k].of = Camera[a].of
            BY <4>4, JpegIs
          <5>2. Jpeg(Camera[a].of)[1].of = Camera[a].of
            BY <5>1
          <5> QED
            BY <4>1, <5>2
        <4> QED
          BY <4>1, <4>2, <4>3, <4>5
      <3>4. ASSUME NEW i \in 1 .. n + 1
            PROVE  \E a \in 1 .. q : IsMarker(Camera, a, "d8") /\ parts'[i] = Jpeg(Camera[a].of)
                                   /\ Camera[a].of \in 1 .. Frames
        <4>1. CASE i \in 1 .. n
          BY <3>2, <3>3, <4>1
        <4>2. CASE i = n + 1
          <5>1. c + b \in 1 .. q
            BY <2>1, <2>3
          <5> QED
            BY <1>8, <1>10, <3>2, <4>2, <5>1
        <4> QED
          BY <3>1, <4>1, <4>2 DEF n
      <3>5. ASSUME NEW i \in 1 .. n + 1, NEW j \in 1 .. n + 1, i < j
            PROVE  parts'[i][1].of < parts'[j][1].of
        <4>1. CASE j = n + 1
          <5>1. i \in 1 .. n
            BY <3>1, <3>5, <4>1 DEF n
          <5> QED
            BY <1>12, <3>2, <3>3, <4>1, <5>1
        <4>2. CASE j # n + 1
          <5>1. i \in 1 .. n /\ j \in 1 .. n
            BY <3>1, <3>5, <4>2
          <5> QED
            BY <2>2, <3>2, <3>5, <5>1 DEF PartsUpTo, n
        <4> QED
          BY <4>1, <4>2
      <3> QED
        BY <2>3, <3>2, <3>4, <3>5 DEF PartsUpTo, to
    <2> QED
      BY <1>14, <2>5, <2>6
  <1>16. StreamInv'
    <2>1. PartsUpTo(c + position - 1)'
      BY <1>1, <1>7, <1>15 DEF PartsUpTo
    <2>2. /\ data' \in Seq(Octets) /\ chunk' \in Seq(Octets) /\ reader' = "scan" /\ pixel_format' = "mjpeg"
      BY <1>1, <1>2, <1>3, Typed
    <2>3. Framed(chunk', c) /\ c + Len(chunk') <= Ahead'
      BY <1>1, <1>2, <1>4
    <2>4. sequence' # last_sequence' =>
              \E p \in Nat : c + Len(chunk') <= p /\ Framed(data', p) /\ p + Len(data') <= Ahead'
      BY <1>1, <1>2, <1>4
    <2> QED
      BY <1>14, <2>1, <2>2, <2>3, <2>4 DEF StreamInv
  <1>17. TypeOK'
    <2>1. position' \in 1 .. Len(chunk') + 1 /\ Len(assembling') <= MaxAssembling
      BY <1>1, <1>3, <1>7, <1>10, <1>11, <1>14
    <2> QED
      BY <1>1, <1>2, <2>1 DEF PipelineInv, TypeOK
  <1> QED
    BY <1>2, <1>16, <1>17 DEF PipelineInv

LEMMA PipelineStep == PipelineInv /\ [Next]_vars => PipelineInv'
  <1> SUFFICES ASSUME PipelineInv, [Next]_vars PROVE PipelineInv'
    OBVIOUS
  <1>1. CASE OpenCamera \/ ChooseFormat \/ StartCapture
    BY <1>1, SetUpKeeps
  <1>2. ASSUME NEW n \in BufferBytes, NEW flag \in BOOLEAN, Dequeue(n, flag) PROVE PipelineInv'
    BY <1>2, DequeueKeeps
  <1>3. CASE CaptureStep
    BY <1>3, SkipKeeps, DropKeeps, OpenKeeps, CompleteKeeps, RawKeeps DEF CaptureStep
  <1>4. CASE ReaderStep \/ WakeSpuriously
    BY <1>4, WaitKeeps, CopyKeeps, DoneKeeps, CutKeeps DEF ReaderStep
  <1>5. CASE UNCHANGED vars
    <2>1. /\ camera' = camera /\ capture' = capture /\ data' = data /\ sequence' = sequence /\ reader' = reader
          /\ last_sequence' = last_sequence /\ chunk' = chunk /\ position' = position
          /\ assembling' = assembling /\ parts' = parts
      BY <1>5 DEF vars, frame, stream
    <2>2. /\ pixel_format' = pixel_format /\ delivered' = delivered /\ cap' = cap /\ buf' = buf /\ last' = last
          /\ cursor' = cursor /\ mjpeg_frame' = mjpeg_frame
      BY <2>1 DEF camera, capture
    <2>3. Ahead' = Ahead /\ Ahead \in Int
      BY <2>2, Typed DEF Ahead
    <2>4. TypeOK'
      BY <2>1, <2>2 DEF PipelineInv, TypeOK
    <2>5. CaptureInv'
      BY <2>2, <2>3 DEF PipelineInv, CaptureInv
    <2>6. StreamInv'
      BY <1>5, <2>2, <2>3, StreamKeeps DEF vars
    <2> QED
      BY <2>4, <2>5, <2>6 DEF PipelineInv
  <1> QED
    BY <1>1, <1>2, <1>3, <1>4, <1>5 DEF Next

\* Types, indices and limits hold for every camera and every set of limits.
THEOREM PipelineTypeCorrect == Spec => []TypeOK
  <1>1. PipelineInv => TypeOK
    BY DEF PipelineInv
  <1> QED
    BY <1>1, InitKeeps, PipelineStep, PTL DEF Spec

\* Each part that goes to the /mjpeg clients is one whole image of the camera,
\* in order and at most once, wherever the driver cuts its buffers and whatever
\* the sizes of images, buffers and limits.
THEOREM PartsAreImages == Spec => []PartsAreImagesInOrder
  <1>1. PipelineInv => PartsAreImagesInOrder
    <2> SUFFICES ASSUME PipelineInv PROVE PartsAreImagesInOrder
      OBVIOUS
    <2>1. CASE pixel_format = "mjpeg"
      <3>1. PICK p : PartsUpTo(p)
        BY <2>1 DEF PipelineInv, StreamInv
      <3>2. DOMAIN parts = 1 .. Len(parts)
        BY <3>1, LenProperties DEF PartsUpTo
      <3> QED
        BY <3>1, <3>2 DEF PartsUpTo, PartsAreImagesInOrder
    <2>2. CASE pixel_format # "mjpeg"
      BY <2>2 DEF PipelineInv, StreamInv, PartsAreImagesInOrder
    <2> QED
      BY <2>1, <2>2
  <1> QED
    BY <1>1, InitKeeps, PipelineStep, PTL DEF Spec

=============================================================================
