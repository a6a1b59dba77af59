------------------------- MODULE FlvBroadcastProofs -------------------------
(***************************************************************************)
(* Proofs about FlvFeed and FlvBroadcast.  First what the loop of the FLV  *)
(* source thread keeps true of the assembler, the parameter sets and the   *)
(* tags it broadcasts, for every number of pictures, configurations and    *)
(* openings: it takes only FeedSteps, whatever the clients do, so all this *)
(* holds of the whole system.  Then what every client of /live.flv gets,   *)
(* for every set of clients, every limit of the queue and every feed.      *)
(***************************************************************************)
EXTENDS FlvBroadcast, FiniteSetTheorems, SequenceTheorems, TLAPS

FeedStep == LoopNext \/ BroadcastDone

-----------------------------------------------------------------------------
(* The inductive invariant of the feed.                                    *)

Stages == {"free", "aud", "sps", "pps", "sei"}
Encoders == [delimits : BOOLEAN, stage : Stages, pic : 0 .. MaxPictures, cfg : 0 .. MaxConfigs,
             slices : 1 .. 2, left : 0 .. 1, since : 0 .. MinGop, idr : BOOLEAN]

EncTypes == enc \in Encoders /\ openings \in 1 .. MaxOpenings

\* The picture under assembly is the encoder's last one, with the slices the
\* encoder has given out of it.
Slice(au, n) == au # <<>> /\ IsVcl(au[Len(au)]) /\ au[Len(au)].of = n
CurrentInv ==
    /\ m_current \in Seq(Nals) /\ m_has_vcl = (m_current # <<>>)
    /\ \A i \in DOMAIN m_current : m_current[i].pic = enc.pic /\ m_current[i].cfg = enc.cfg
    /\ m_current # <<>> =>
           Slice(m_current, enc.slices) /\ Cardinality(Slices(m_current)) = enc.slices - enc.left
    /\ enc.left > 0 => m_current # <<>> /\ enc.stage = "free"
    /\ enc.stage \in {"sps", "pps"} \/ (enc.delimits /\ enc.stage # "free") => m_current = <<>>

\* What waits for the next picture belongs to it and has no slice.
PendingInv ==
    /\ m_pending_non_vcl \in Seq(Nals)
    /\ \A i \in DOMAIN m_pending_non_vcl :
           LET n == m_pending_non_vcl[i] IN n.pic = enc.pic + 1 /\ n.cfg = enc.cfg /\ ~IsVcl(n)
    /\ m_pending_non_vcl # <<>> => enc.stage = "sei"

\* The muxer has no parameter set since the source was opened, or the
\* encoder's last ones; only between an SPS and its PPS they differ.
SetsInv ==
    /\ sps \in 0 .. MaxConfigs /\ pps \in 0 .. MaxConfigs /\ config_dirty \in BOOLEAN
    /\ \/ sps = 0 /\ pps = 0 /\ ~config_dirty /\ enc.stage \notin {"sps", "pps"}
       \/ sps = enc.cfg /\ enc.cfg # 0 /\ (enc.stage = "sps" \/ pps = sps)
    /\ enc.stage = "sps" => config_dirty

\* Pictures of which the assembler holds nothing any more.
Past == IF m_current = <<>> THEN enc.pic ELSE enc.pic - 1

\* A picture that may be sent.
OnePicture(nals, whole) ==
    /\ nals \in Seq(Nals) /\ nals # <<>>
    /\ \A i, j \in DOMAIN nals : nals[i].pic = nals[j].pic
    /\ whole => Cardinality(Slices(nals)) = nals[Len(nals)].of

\* `tag' was made last: nothing was left out behind it, and since then the
\* muxer is ready unless the source has been opened again.
Newest(tag) ==
    \/ tag = NoTag /\ frame_index = 0
    \/ /\ OnePicture(tag.nals, tag.whole) /\ tag.whole \in BOOLEAN
       /\ tag.ts \in Nat /\ tag.opening \in 1 .. openings
       /\ frame_index = tag.ts + 1
       /\ PicOf(tag) \in Nat /\ PicOf(tag) <= Past
       /\ tag.opening = openings => PicOf(tag) = Past /\ Ready(sps, pps)

\* The tag `new' comes right behind the tag `old'.
Behind(old, new) ==
    \/ old = NoTag /\ new.ts = 0
    \/ /\ OnePicture(old.nals, old.whole) /\ old.whole \in BOOLEAN
       /\ old.ts \in Nat /\ new.ts = old.ts + 1
       /\ PicOf(old) \in Nat /\ PicOf(old) < PicOf(new)
       /\ old.opening = new.opening => PicOf(new) = PicOf(old) + 1

Video(tag) == Step("video", <<0, 0>>, tag)
Withdraw == Step("withdraw", <<0, 0>>, NoTag)
Store(config) == Step("store", config, NoTag)
Config(config) == Step("config", config, NoTag)
Complete == {c \in Configs : Ready(c[1], c[2])}

\* What is to be done: at most one tag, behind its announcement.
Plain(q) == q \in {<<>>, <<Withdraw>>} \cup {<<Store(c)>> : c \in Complete}
Plan(q, tag) ==
    \/ q \in {<<Video(tag)>>, <<Video(tag), Withdraw>>}
    \/ \E c \in Complete : q \in {<<Video(tag), Store(c)>>, <<Config(c), Video(tag)>>,
                                  <<Store(c), Config(c), Video(tag)>>}
TagsOf(q) == {q[i].tag : i \in DOMAIN q}

TagInv ==
    /\ frame_index \in Nat /\ frame_index <= Past
    /\ \/ Plain(todo) /\ Newest(sent)
       \/ \E tag \in TagsOf(todo) :
              Plan(todo, tag) /\ Newest(tag) /\ tag.nals # <<>> /\ Behind(sent, tag)

ManagerInv ==
    /\ m_flv_muxer \in Configs /\ m_flv_ready \in BOOLEAN
    /\ m_flv_ready => Ready(m_flv_muxer[1], m_flv_muxer[2])

FeedInv == EncTypes /\ CurrentInv /\ PendingInv /\ SetsInv /\ TagInv /\ ManagerInv

\* What the clients have been told when what is planned has been done as far
\* as the tag.
Says(q, before) ==
    IF q # <<>> /\ Head(q).do = "config" THEN Head(q).config
    ELSE IF Len(q) = 3 THEN q[2].config ELSE before
Announced == Says(todo, told)
ConfigOf(tag) == <<tag.nals[1].cfg, tag.nals[1].cfg>>

\* Without delimiters a configuration that is not announced yet is at most one
\* picture old, so the set that ends the picture cannot follow at once.
ConfigInv ==
    /\ ~enc.delimits /\ config_dirty =>
           \/ enc.since = 0 /\ m_current = <<>>
           \/ enc.since = 1 /\ m_current # <<>> /\ enc.stage \notin {"sps", "pps"}
    /\ ~config_dirty /\ Ready(sps, pps) => Announced = <<sps, pps>>
    /\ \A i \in DOMAIN todo :
           todo[i].do = "video" /\ todo[i].tag.whole => Announced = ConfigOf(todo[i].tag)
-----------------------------------------------------------------------------
(* Short sequences, and the slices of an access unit.                      *)

LEMMA EmptyOrNot ==
    ASSUME NEW S, NEW q \in Seq(S)
    PROVE  /\ Len(q) \in Nat /\ DOMAIN q = 1 .. Len(q) /\ <<>> \in Seq(S)
           /\ q # <<>> => Len(q) \in DOMAIN q /\ 1 \in DOMAIN q /\ q[1] \in S /\ q[Len(q)] \in S
  BY EmptySeq

LEMMA ShortTails ==
    ASSUME NEW a, NEW b, NEW c
    PROVE  /\ Head(<<a>>) = a /\ Head(<<a, b>>) = a /\ Head(<<a, b, c>>) = a
           /\ Tail(<<a>>) = <<>> /\ Tail(<<a, b>>) = <<b>> /\ Tail(<<a, b, c>>) = <<b, c>>
           /\ <<a>> # <<>> /\ <<a, b>> # <<>> /\ <<a, b, c>> # <<>>
  OBVIOUS

LEMMA ShortJoins ==
    ASSUME NEW a, NEW b, NEW c
    PROVE  /\ <<>> \o <<>> = <<>> /\ <<>> \o <<a>> = <<a>> /\ <<a>> \o <<>> = <<a>>
           /\ <<a>> \o <<b>> = <<a, b>> /\ <<a, b>> \o <<c>> = <<a, b, c>>
  <1> DEFINE S == {a, b, c}
  <1>1. <<>> \in Seq(S) /\ <<a>> \in Seq(S)
    OBVIOUS
  <1>2. <<>> \o <<>> = <<>> /\ <<>> \o <<a>> = <<a>> /\ <<a>> \o <<>> = <<a>>
    BY <1>1, ConcatEmptySeq
  <1>3. <<a>> \o <<b>> = <<a, b>>
    <2> DEFINE x == <<a>>
               y == <<b>>
               z == <<a, b>>
    <2>1. /\ x \in Seq(S) /\ y \in Seq(S) /\ z \in Seq(S) /\ Len(x) = 1 /\ Len(y) = 1 /\ Len(z) = 2
          /\ x[1] = a /\ y[1] = b /\ z[1] = a /\ z[2] = b
      OBVIOUS
    <2> HIDE DEF x, y, z
    <2>2. x \o y \in Seq(S) /\ Len(x \o y) = 2 /\ (x \o y)[1] = a /\ (x \o y)[2] = b
      BY <2>1, ConcatProperties
    <2>3. x \o y = z
      BY <2>1, <2>2, SeqEqual
    <2> QED
      BY <2>3 DEF x, y, z
  <1>4. <<a, b>> \o <<c>> = <<a, b, c>>
    <2> DEFINE x == <<a, b>>
               y == <<c>>
               z == <<a, b, c>>
    <2>1. /\ x \in Seq(S) /\ y \in Seq(S) /\ z \in Seq(S) /\ Len(x) = 2 /\ Len(y) = 1 /\ Len(z) = 3
          /\ x[1] = a /\ x[2] = b /\ y[1] = c /\ z[1] = a /\ z[2] = b /\ z[3] = c
      OBVIOUS
    <2> HIDE DEF x, y, z
    <2>2. /\ x \o y \in Seq(S) /\ Len(x \o y) = 3
          /\ (x \o y)[1] = a /\ (x \o y)[2] = b /\ (x \o y)[3] = c
      BY <2>1, ConcatProperties
    <2>3. x \o y = z
      BY <2>1, <2>2, SeqEqual
    <2> QED
      BY <2>3 DEF x, y, z
  <1> QED
    BY <1>2, <1>3, <1>4

LEMMA Appended ==
    ASSUME NEW S, NEW q \in Seq(S), NEW n \in S
    PROVE  /\ Append(q, n) \in Seq(S) /\ Append(q, n) # <<>> /\ Len(Append(q, n)) = Len(q) + 1
           /\ DOMAIN Append(q, n) = DOMAIN q \cup {Len(q) + 1} /\ Len(q) + 1 \notin DOMAIN q
           /\ \A i \in DOMAIN q : Append(q, n)[i] = q[i]
           /\ Append(q, n)[Len(q) + 1] = n
  BY AppendProperties

LEMMA SlicesOfAppend ==
    ASSUME NEW q \in Seq(Nals), NEW n \in Nals
    PROVE  /\ IsFiniteSet(Slices(q)) /\ Cardinality(Slices(q)) \in Nat
           /\ Cardinality(Slices(Append(q, n))) = Cardinality(Slices(q)) + (IF IsVcl(n) THEN 1 ELSE 0)
  <1>0. Len(q) \in Nat /\ DOMAIN q = 1 .. Len(q)
    BY EmptyOrNot
  <1>1. Slices(q) \subseteq 1 .. Len(q) /\ IsFiniteSet(1 .. Len(q))
    <2>1. Slices(q) \subseteq 1 .. Len(q)
      BY <1>0 DEF Slices
    <2>2. IsFiniteSet(1 .. Len(q))
      BY <1>0, FS_Interval
    <2> QED
      BY <2>1, <2>2
  <1>2. IsFiniteSet(Slices(q)) /\ Cardinality(Slices(q)) \in Nat
    BY <1>1, FS_Subset, FS_CardinalityType
  <1>3. CASE IsVcl(n)
    <2>1. Slices(Append(q, n)) = Slices(q) \cup {Len(q) + 1} /\ Len(q) + 1 \notin Slices(q)
      BY <1>3, Appended DEF Slices
    <2> QED
      BY <1>2, <1>3, <2>1, FS_AddElement
  <1>4. CASE ~IsVcl(n)
    <2>1. Slices(Append(q, n)) = Slices(q)
      BY <1>4, Appended DEF Slices
    <2> QED
      BY <1>2, <1>4, <2>1
  <1> QED
    BY <1>2, <1>3, <1>4

\* A picture that is in the assembler may be sent; whole if no slice is due.
LEMMA CurrentIsAPicture ==
    ASSUME EncTypes, CurrentInv, m_current # <<>>
    PROVE  /\ OnePicture(m_current, FALSE) /\ (enc.left = 0 => OnePicture(m_current, TRUE))
           /\ m_current[1].pic = enc.pic /\ m_current[1].cfg = enc.cfg
  BY EmptyOrNot DEF EncTypes, Encoders, CurrentInv, OnePicture, Slice

-----------------------------------------------------------------------------
(* The encoder, unit by unit.                                              *)

Same(e, f) == e.delimits = f.delimits /\ e.slices = f.slices /\ e.left = f.left /\ e.pic = f.pic

LEMMA EncodesAud ==
    ASSUME EncTypes, NEW n \in Nals, n.type = "aud", Encode(n)
    PROVE  /\ enc' \in Encoders /\ Same(enc', enc) /\ enc'.cfg = enc.cfg /\ enc'.since = enc.since
           /\ enc.delimits /\ enc.left = 0 /\ enc.stage = "free" /\ enc'.stage = "aud"
  BY DEF EncTypes, Encoders, Stages, Encode, Before, Same

LEMMA EncodesSps ==
    ASSUME EncTypes, NEW n \in Nals, n.type = "sps", Encode(n)
    PROVE  /\ enc' \in Encoders /\ Same(enc', enc) /\ enc'.cfg = n.cfg /\ n.cfg # 0 /\ enc'.since = 0
           /\ enc.left = 0 /\ enc.stage = (IF enc.delimits THEN "aud" ELSE "free") /\ enc'.stage = "sps"
           /\ enc.delimits \/ enc.since = MinGop
  <1>1. 0 \in 0 .. MinGop /\ n.cfg \in 0 .. MaxConfigs
    BY FeedAssumption DEF Nals
  <1> DEFINE e == [enc EXCEPT !.stage = "sps", !.cfg = n.cfg, !.since = 0, !.idr = TRUE]
  <1>2. /\ enc' = e /\ enc.left = 0 /\ enc.stage = (IF enc.delimits THEN "aud" ELSE "free")
        /\ n.cfg # 0 /\ (enc.delimits \/ enc.since = MinGop)
    BY DEF EncTypes, Encoders, Encode, Before, Begun
  <1>3. e \in Encoders
    BY <1>1 DEF EncTypes, Encoders, Stages
  <1>4. Same(e, enc) /\ e.cfg = n.cfg /\ e.since = 0 /\ e.stage = "sps"
    BY DEF EncTypes, Encoders, Same
  <1> QED
    BY <1>2, <1>3, <1>4

LEMMA EncodesPps ==
    ASSUME EncTypes, NEW n \in Nals, n.type = "pps", Encode(n)
    PROVE  /\ enc' \in Encoders /\ Same(enc', enc) /\ enc'.cfg = enc.cfg /\ enc'.since = enc.since
           /\ n.cfg = enc.cfg /\ enc.left = 0 /\ enc.stage = "sps" /\ enc'.stage = "pps"
  BY DEF EncTypes, Encoders, Stages, Encode, Before, Same

LEMMA EncodesSei ==
    ASSUME EncTypes, NEW n \in Nals, n.type = "sei", Encode(n)
    PROVE  /\ enc' \in Encoders /\ Same(enc', enc) /\ enc'.cfg = enc.cfg /\ enc'.since = enc.since
           /\ n.cfg = enc.cfg /\ n.pic = enc.pic + 1 /\ enc.left = 0 /\ enc'.stage = "sei"
           /\ enc.stage \in {IF enc.delimits THEN "aud" ELSE "free", "pps"}
  BY DEF EncTypes, Encoders, Stages, Encode, Before, Begun, Same

LEMMA EncodesFirst ==
    ASSUME EncTypes, NEW n \in Nals, n.type = "first", Encode(n)
    PROVE  /\ enc' \in Encoders /\ enc'.delimits = enc.delimits /\ enc'.cfg = enc.cfg
           /\ enc'.since = (IF enc.since < MinGop THEN enc.since + 1 ELSE enc.since)
           /\ enc'.pic = enc.pic + 1 /\ n.pic = enc.pic + 1 /\ n.cfg = enc.cfg
           /\ enc'.slices = n.of /\ enc'.left = n.of - 1 /\ enc.left = 0
           /\ enc.stage \in {IF enc.delimits THEN "aud" ELSE "free", "pps", "sei"} /\ enc'.stage = "free"
  <1>1. MinGop \in Nat /\ MaxPictures \in Nat /\ n.of \in 1 .. 2 /\ n.of - 1 \in 0 .. 1
    BY FeedAssumption DEF Nals
  <1>2. enc.pic < MaxPictures => enc.pic + 1 \in 0 .. MaxPictures
    BY <1>1 DEF EncTypes, Encoders
  <1>3. (IF enc.since < MinGop THEN enc.since + 1 ELSE enc.since) \in 0 .. MinGop
    BY <1>1 DEF EncTypes, Encoders
  <1> DEFINE since == IF enc.since < MinGop THEN enc.since + 1 ELSE enc.since
             left == n.of - 1
             pic == enc.pic + 1
             e == [enc EXCEPT !.stage = "free", !.pic = pic, !.slices = n.of, !.left = left,
                              !.idr = FALSE, !.since = since]
  <1>4. /\ enc.pic < MaxPictures /\ n.pic = enc.pic + 1 /\ n.cfg = enc.cfg /\ enc.left = 0
        /\ enc.stage \in {IF enc.delimits THEN "aud" ELSE "free", "pps", "sei"}
    BY DEF Encode, Before, Begun
  <1>5. enc' = e
    BY <1>4 DEF Encode, EncTypes, Encoders
  <1> HIDE DEF since, left, pic
  <1>6. e \in Encoders
    BY <1>1, <1>2, <1>3, <1>4 DEF EncTypes, Encoders, Stages, since, left, pic
  <1>7. /\ e.delimits = enc.delimits /\ e.cfg = enc.cfg /\ e.since = since /\ e.pic = pic
        /\ e.slices = n.of /\ e.left = left /\ e.stage = "free"
    BY DEF EncTypes, Encoders
  <1> QED
    BY <1>4, <1>5, <1>6, <1>7 DEF since, left, pic

LEMMA EncodesNext ==
    ASSUME EncTypes, NEW n \in Nals, n.type = "next", Encode(n)
    PROVE  /\ enc' \in Encoders /\ enc'.delimits = enc.delimits /\ enc'.cfg = enc.cfg
           /\ enc'.since = enc.since /\ enc'.pic = enc.pic /\ enc'.slices = enc.slices
           /\ n.pic = enc.pic /\ n.cfg = enc.cfg /\ n.of = enc.slices
           /\ enc.left = 1 /\ enc'.left = 0 /\ enc'.stage = enc.stage
  BY DEF EncTypes, Encoders, Stages, Encode, Nals

-----------------------------------------------------------------------------
(* The assembler and the muxer, action by action.                          *)

Assembly == EncTypes /\ CurrentInv /\ PendingInv /\ SetsInv

LEMMA EmptyAssembler ==
    ASSUME m_current' = <<>>, m_has_vcl' = FALSE, enc'.left = 0, m_pending_non_vcl' = <<>>
    PROVE  CurrentInv' /\ PendingInv'
  <1>1. <<>> \in Seq(Nals) /\ DOMAIN <<>> = {}
    OBVIOUS
  <1>2. PendingInv'
    BY <1>1 DEF PendingInv
  <1>3. m_has_vcl' = (m_current' # <<>>)
    OBVIOUS
  <1>4. CurrentInv'
    BY <1>1, <1>3 DEF CurrentInv
  <1> QED
    BY <1>2, <1>4

LEMMA ParameterSetKeeps ==
    ASSUME Assembly, NEW n \in Nals, ParameterSet(n)
    PROVE  /\ Assembly' /\ m_current' = <<>> /\ enc'.pic = enc.pic /\ enc.left = 0
           /\ Ready(sps', pps') => <<sps', pps'>> \in Complete
  <1>1. /\ n.type \in {"sps", "pps"} /\ Encode(n)
        /\ m_current' = <<>> /\ m_has_vcl' = FALSE /\ m_pending_non_vcl' = m_pending_non_vcl
        /\ sps' = (IF n.type = "sps" THEN n.cfg ELSE sps)
        /\ pps' = (IF n.type = "pps" THEN n.cfg ELSE pps) /\ config_dirty' = TRUE
    BY DEF ParameterSet, Assemble, Flush, StoreParameterSet
  <1>2. n.cfg \in 0 .. MaxConfigs /\ EncTypes
    BY DEF Nals, Assembly
  <1>3. CASE n.type = "sps"
    <2>1. /\ enc' \in Encoders /\ Same(enc', enc) /\ enc'.cfg = n.cfg /\ n.cfg # 0
          /\ enc.left = 0 /\ enc.stage \in {"aud", "free"} /\ enc'.stage = "sps"
      BY <1>1, <1>2, <1>3, EncodesSps
    <2>2. m_pending_non_vcl = <<>>
      BY <2>1 DEF Assembly, PendingInv
    <2>3. CurrentInv' /\ PendingInv' /\ enc'.pic = enc.pic
      BY <1>1, <2>1, <2>2, EmptyAssembler DEF Same
    <2>4. SetsInv'
      BY <1>1, <1>2, <1>3, <2>1 DEF SetsInv, Assembly
    <2>5. EncTypes'
      BY <1>2, <2>1 DEF EncTypes, ParameterSet
    <2> QED
      BY <1>1, <2>1, <2>3, <2>4, <2>5 DEF Assembly, Complete, Configs, SetsInv
  <1>4. CASE n.type = "pps"
    <2>1. /\ enc' \in Encoders /\ Same(enc', enc) /\ enc'.cfg = enc.cfg /\ n.cfg = enc.cfg
          /\ enc.left = 0 /\ enc.stage = "sps" /\ enc'.stage = "pps"
      BY <1>1, <1>2, <1>4, EncodesPps
    <2>2. m_pending_non_vcl = <<>>
      BY <2>1 DEF Assembly, PendingInv
    <2>3. CurrentInv' /\ PendingInv' /\ enc'.pic = enc.pic
      BY <1>1, <2>1, <2>2, EmptyAssembler DEF Same
    <2>4. SetsInv'
      BY <1>1, <1>2, <1>4, <2>1 DEF SetsInv, Assembly
    <2>5. EncTypes'
      BY <1>2, <2>1 DEF EncTypes, ParameterSet
    <2> QED
      BY <1>1, <2>1, <2>3, <2>4, <2>5 DEF Assembly, Complete, Configs, SetsInv
  <1> QED
    BY <1>1, <1>3, <1>4

\* What a unit does to the pictures: the one under assembly is completed, or
\* no picture is.
Completes(au) ==
    \/ au = <<>> /\ Past' = Past
    \/ au = m_current /\ m_current # <<>> /\ enc.left = 0 /\ Past' = enc.pic

LEMMA SetsStay ==
    ASSUME SetsInv, sps' = sps, pps' = pps, config_dirty' \in BOOLEAN, config_dirty' => config_dirty,
           enc'.cfg = enc.cfg, enc.stage # "sps", enc'.stage \notin {"sps", "pps"}
    PROVE  SetsInv'
  BY DEF SetsInv

LEMMA PictureNalMeans ==
    ASSUME NEW n \in Nals, PictureNal(n)
    PROVE  /\ Encode(n) /\ n.type \in Types \ {"sps", "pps"} /\ openings' = openings
           /\ m_current' = Push(n).current /\ m_pending_non_vcl' = Push(n).pending
           /\ m_has_vcl' = (m_current' # <<>>)
           /\ sps' = sps /\ pps' = pps
           /\ config_dirty' = (config_dirty /\ ~Sendable(Push(n).completed))
  <1>1. n.type \in Types
    BY DEF Nals
  <1> QED
    BY <1>1 DEF PictureNal, Assemble

LEMMA AudKeeps ==
    ASSUME Assembly, NEW n \in Nals, PictureNal(n), n.type = "aud"
    PROVE  Assembly' /\ Completes(Push(n).completed)
  <1>1. Push(n) = [current |-> <<>>, pending |-> m_pending_non_vcl, completed |-> m_current]
    BY DEF Push, Flush
  <1>2. /\ enc' \in Encoders /\ Same(enc', enc) /\ enc'.cfg = enc.cfg
        /\ enc.left = 0 /\ enc.stage = "free" /\ enc'.stage = "aud"
    BY PictureNalMeans, EncodesAud DEF Assembly
  <1>3. m_current' = <<>> /\ m_has_vcl' = FALSE /\ m_pending_non_vcl' = <<>>
    <2>1. m_current' = <<>> /\ m_pending_non_vcl' = m_pending_non_vcl
      BY <1>1, PictureNalMeans
    <2>2. m_pending_non_vcl = <<>>
      BY <1>2 DEF Assembly, PendingInv
    <2>3. m_has_vcl' = (m_current' # <<>>)
      BY PictureNalMeans
    <2> QED
      BY <2>1, <2>2, <2>3
  <1>4. CurrentInv' /\ PendingInv'
    BY <1>2, <1>3, EmptyAssembler DEF Same
  <1>5. config_dirty' \in BOOLEAN /\ (config_dirty' => config_dirty)
    BY PictureNalMeans
  <1>6. SetsInv'
    BY <1>2, <1>5, PictureNalMeans, SetsStay DEF Assembly
  <1>7. EncTypes'
    BY <1>2, PictureNalMeans DEF EncTypes, Assembly
  <1>8. Past' = enc.pic /\ (m_current = <<>> => Past = enc.pic)
    BY <1>2, <1>3 DEF Past, Same
  <1> QED
    BY <1>1, <1>2, <1>4, <1>6, <1>7, <1>8 DEF Assembly, Completes

LEMMA SeiKeeps ==
    ASSUME Assembly, NEW n \in Nals, PictureNal(n), n.type = "sei"
    PROVE  Assembly' /\ Completes(Push(n).completed)
  <1>1. Push(n) = [current |-> m_current, pending |-> Append(m_pending_non_vcl, n), completed |-> <<>>]
    BY DEF Push, Keeps, IsVcl
  <1>2. /\ enc' \in Encoders /\ Same(enc', enc) /\ enc'.cfg = enc.cfg /\ n.cfg = enc.cfg
        /\ n.pic = enc.pic + 1 /\ enc.left = 0 /\ enc'.stage = "sei"
        /\ enc.stage \in {IF enc.delimits THEN "aud" ELSE "free", "pps"}
    BY PictureNalMeans, EncodesSei DEF Assembly
  <1>3. m_current' = m_current /\ m_has_vcl' = m_has_vcl /\ m_pending_non_vcl' = Append(m_pending_non_vcl, n)
    BY <1>1, PictureNalMeans DEF Assembly, CurrentInv
  <1>4. m_pending_non_vcl = <<>>
    BY <1>2 DEF Assembly, PendingInv
  <1>5. PendingInv'
    <2>1. <<>> \in Seq(Nals) /\ DOMAIN <<>> = {}
      OBVIOUS
    <2>2. m_pending_non_vcl' \in Seq(Nals) /\ \A i \in DOMAIN m_pending_non_vcl' : m_pending_non_vcl'[i] = n
      BY <1>3, <1>4, <2>1, Appended
    <2> QED
      BY <1>2, <2>2 DEF PendingInv, IsVcl, Same
  <1>6. CurrentInv'
    BY <1>2, <1>3 DEF Assembly, CurrentInv, Same
  <1>7. config_dirty' \in BOOLEAN /\ (config_dirty' => config_dirty)
    BY PictureNalMeans
  <1>8. SetsInv'
    BY <1>2, <1>7, PictureNalMeans, SetsStay DEF Assembly
  <1>9. EncTypes'
    BY <1>2, PictureNalMeans DEF EncTypes, Assembly
  <1>10. Past' = Past
    BY <1>2, <1>3 DEF Past, Same
  <1> QED
    BY <1>1, <1>5, <1>6, <1>8, <1>9, <1>10 DEF Assembly, Completes

LEMMA FirstKeeps ==
    ASSUME Assembly, NEW n \in Nals, PictureNal(n), n.type = "first"
    PROVE  Assembly' /\ Completes(Push(n).completed)
  <1> DEFINE q == m_pending_non_vcl
  <1>1. Push(n) = [current |-> Append(q, n), pending |-> <<>>, completed |-> m_current]
    BY DEF Push, Keeps, IsVcl, Begin, Assembly, CurrentInv
  <1>2. /\ enc' \in Encoders /\ enc'.delimits = enc.delimits /\ enc'.cfg = enc.cfg
        /\ enc'.pic = enc.pic + 1 /\ n.pic = enc.pic + 1 /\ n.cfg = enc.cfg
        /\ enc'.slices = n.of /\ enc'.left = n.of - 1 /\ enc.left = 0 /\ enc'.stage = "free"
        /\ enc.stage \in {IF enc.delimits THEN "aud" ELSE "free", "pps", "sei"}
    BY PictureNalMeans, EncodesFirst DEF Assembly
  <1>3. m_current' = Append(q, n) /\ m_pending_non_vcl' = <<>> /\ m_has_vcl' = (m_current' # <<>>)
    BY <1>1, PictureNalMeans
  <1>4. PendingInv'
    <2>1. <<>> \in Seq(Nals) /\ DOMAIN <<>> = {}
      OBVIOUS
    <2> QED
      BY <1>3, <2>1 DEF PendingInv
  <1>5. /\ q \in Seq(Nals)
        /\ \A i \in DOMAIN q : q[i].pic = enc.pic + 1 /\ q[i].cfg = enc.cfg /\ ~IsVcl(q[i])
    BY DEF Assembly, PendingInv
  <1>6. CurrentInv'
    <2>1. /\ m_current' \in Seq(Nals) /\ m_current' # <<>> /\ Len(m_current') = Len(q) + 1
          /\ \A i \in DOMAIN m_current' : m_current'[i] = n \/ (i \in DOMAIN q /\ m_current'[i] = q[i])
          /\ m_current'[Len(m_current')] = n
      BY <1>3, <1>5, Appended
    <2>2. \A i \in DOMAIN m_current' : m_current'[i].pic = enc'.pic /\ m_current'[i].cfg = enc'.cfg
      BY <1>2, <1>5, <2>1
    <2>3. IsVcl(n) /\ n.of \in 1 .. 2
      BY DEF IsVcl, Nals
    <2>4. Slices(q) = {}
      BY <1>5 DEF Slices
    <2>5. Cardinality(Slices(m_current')) = 1
      BY <1>3, <1>5, <2>3, <2>4, SlicesOfAppend, FS_EmptySet
    <2>6. 1 = enc'.slices - enc'.left
      BY <1>2, <2>3
    <2> QED
      BY <1>2, <1>3, <2>1, <2>2, <2>3, <2>5, <2>6 DEF CurrentInv, Slice
  <1>7. config_dirty' \in BOOLEAN /\ (config_dirty' => config_dirty)
    BY PictureNalMeans
  <1>8. SetsInv'
    BY <1>2, <1>7, PictureNalMeans, SetsStay DEF Assembly
  <1>9. EncTypes'
    BY <1>2, PictureNalMeans DEF EncTypes, Assembly
  <1>10. Past' = enc.pic /\ (m_current = <<>> => Past = enc.pic)
    <2>1. Append(q, n) # <<>> /\ enc.pic \in Nat
      BY <1>5, Appended DEF Assembly, EncTypes, Encoders
    <2> QED
      BY <1>2, <1>3, <2>1 DEF Past
  <1> QED
    BY <1>1, <1>2, <1>4, <1>6, <1>8, <1>9, <1>10 DEF Assembly, Completes

LEMMA NextKeeps ==
    ASSUME Assembly, NEW n \in Nals, PictureNal(n), n.type = "next"
    PROVE  Assembly' /\ Completes(Push(n).completed)
  <1> DEFINE q == m_current
  <1>1. /\ enc' \in Encoders /\ enc'.delimits = enc.delimits /\ enc'.cfg = enc.cfg
        /\ enc'.pic = enc.pic /\ enc'.slices = enc.slices
        /\ n.pic = enc.pic /\ n.cfg = enc.cfg /\ n.of = enc.slices
        /\ enc.left = 1 /\ enc'.left = 0 /\ enc'.stage = enc.stage
    BY PictureNalMeans, EncodesNext DEF Assembly
  <1>2. q \in Seq(Nals) /\ q # <<>> /\ m_has_vcl /\ enc.stage = "free"
    <2>1. q \in Seq(Nals) /\ q # <<>> /\ enc.stage = "free"
      BY <1>1 DEF Assembly, CurrentInv
    <2>2. m_has_vcl = (q # <<>>)
      BY DEF Assembly, CurrentInv
    <2> QED
      BY <2>1, <2>2
  <1>3. Push(n) = [current |-> Append(q, n), pending |-> m_pending_non_vcl, completed |-> <<>>]
    BY <1>2 DEF Push, Keeps, IsVcl, Begin
  <1>4. /\ m_current' = Append(q, n) /\ m_pending_non_vcl' = m_pending_non_vcl
        /\ m_has_vcl' = (m_current' # <<>>)
    BY <1>3, PictureNalMeans
  <1>5. PendingInv'
    BY <1>1, <1>4 DEF Assembly, PendingInv
  <1>6. CurrentInv'
    <2>1. /\ m_current' \in Seq(Nals) /\ m_current' # <<>> /\ Len(m_current') = Len(q) + 1
          /\ \A i \in DOMAIN m_current' : m_current'[i] = n \/ (i \in DOMAIN q /\ m_current'[i] = q[i])
          /\ m_current'[Len(m_current')] = n
      BY <1>2, <1>4, Appended
    <2>2. \A i \in DOMAIN m_current' : m_current'[i].pic = enc'.pic /\ m_current'[i].cfg = enc'.cfg
      BY <1>1, <2>1 DEF Assembly, CurrentInv
    <2>3. IsVcl(n)
      BY DEF IsVcl
    <2>4. Cardinality(Slices(m_current')) = Cardinality(Slices(q)) + 1
      BY <1>2, <1>4, <2>3, SlicesOfAppend
    <2>5. Cardinality(Slices(q)) = enc.slices - enc.left /\ enc.slices \in Nat
      BY <1>2 DEF Assembly, CurrentInv, EncTypes, Encoders
    <2>6. Cardinality(Slices(m_current')) = enc'.slices - enc'.left
      BY <1>1, <2>4, <2>5
    <2> QED
      BY <1>1, <1>2, <1>4, <2>1, <2>2, <2>3, <2>6 DEF CurrentInv, Slice
  <1>7. config_dirty' \in BOOLEAN /\ (config_dirty' => config_dirty)
    BY PictureNalMeans
  <1>8. SetsInv'
    BY <1>1, <1>2, <1>7, PictureNalMeans, SetsStay DEF Assembly
  <1>9. EncTypes'
    BY <1>1, PictureNalMeans DEF EncTypes, Assembly
  <1>10. Past' = Past
    <2>1. Append(q, n) # <<>>
      BY <1>2, Appended
    <2> QED
      BY <1>1, <1>2, <1>4, <2>1 DEF Past
  <1> QED
    BY <1>3, <1>5, <1>6, <1>8, <1>9, <1>10 DEF Assembly, Completes

LEMMA PictureNalKeeps ==
    ASSUME Assembly, NEW n \in Nals, PictureNal(n)
    PROVE  Assembly' /\ Completes(Push(n).completed)
  BY PictureNalMeans, AudKeeps, SeiKeeps, FirstKeeps, NextKeeps DEF Types

LEMMA ReopenKeeps ==
    ASSUME Assembly, NEW cfg \in 0 .. enc.cfg, NEW fails \in BOOLEAN, Reopen(cfg, fails)
    PROVE  /\ Assembly' /\ m_current' = <<>> /\ enc'.pic = enc.pic /\ openings' = openings + 1
           /\ sps' = 0 /\ pps' = 0
  <1>1. /\ m_current' = <<>> /\ m_pending_non_vcl' = <<>> /\ m_has_vcl' = FALSE
        /\ sps' = 0 /\ pps' = 0 /\ config_dirty' = FALSE
        /\ openings < MaxOpenings /\ openings' = openings + 1
        /\ enc' = Opened(enc.delimits, enc.pic, cfg)
    BY DEF Reopen
  <1>2. enc.delimits \in BOOLEAN /\ enc.pic \in 0 .. MaxPictures /\ cfg \in 0 .. MaxConfigs
    <2>1. enc.delimits \in BOOLEAN /\ enc.pic \in 0 .. MaxPictures /\ enc.cfg \in 0 .. MaxConfigs
      BY DEF Assembly, EncTypes, Encoders
    <2>2. MaxConfigs \in Nat
      BY FeedAssumption
    <2> QED
      BY <2>1, <2>2
  <1>3. MinGop \in 0 .. MinGop /\ MaxOpenings \in Nat
    BY FeedAssumption
  <1>4. /\ enc' \in Encoders /\ enc'.left = 0 /\ enc'.stage = "free" /\ enc'.pic = enc.pic
    BY <1>1, <1>2, <1>3 DEF Opened, Encoders, Stages
  <1>5. EncTypes'
    BY <1>1, <1>3, <1>4 DEF EncTypes, Assembly
  <1>6. CurrentInv' /\ PendingInv'
    BY <1>1, <1>4, EmptyAssembler
  <1>7. SetsInv'
    <2>1. 0 \in 0 .. MaxConfigs
      BY FeedAssumption
    <2> QED
      BY <1>1, <1>4, <2>1 DEF SetsInv
  <1> QED
    BY <1>1, <1>4, <1>5, <1>6, <1>7 DEF Assembly

-----------------------------------------------------------------------------
(* What is planned, and the tags.                                          *)

LEMMA StepFields ==
    ASSUME NEW tag, NEW c
    PROVE  /\ Video(tag).do = "video" /\ Video(tag).tag = tag
           /\ Withdraw.do = "withdraw" /\ Withdraw.config = <<0, 0>>
           /\ Store(c).do = "store" /\ Store(c).config = c
           /\ Config(c).do = "config" /\ Config(c).config = c
  BY DEF Video, Withdraw, Store, Config, Step

LEMMA PlanHasTag ==
    ASSUME NEW q, NEW tag, Plan(q, tag)
    PROVE  tag \in TagsOf(q) /\ q # <<>>
  <1>1. \E i \in DOMAIN q : q[i] = Video(tag)
    BY DEF Plan
  <1>2. q # <<>>
    BY <1>1
  <1> QED
    BY <1>1, <1>2, StepFields DEF TagsOf

LEMMA PlanGoesOn ==
    ASSUME NEW q, NEW tag, Plan(q, tag)
    PROVE  \/ Head(q) = Video(tag) /\ Plain(Tail(q))
           \/ \E c \in Complete : Head(q) \in {Store(c), Config(c)} /\ Plan(Tail(q), tag)
  <1>0. CASE q = <<Video(tag)>>
    BY <1>0, ShortTails DEF Plain
  <1>1. CASE q = <<Video(tag), Withdraw>>
    BY <1>1, ShortTails DEF Plain
  <1>2. ASSUME NEW c \in Complete, q = <<Video(tag), Store(c)>>
        PROVE  Head(q) = Video(tag) /\ Plain(Tail(q))
    BY <1>2, ShortTails DEF Plain
  <1>3. ASSUME NEW c \in Complete, q = <<Config(c), Video(tag)>>
        PROVE  Head(q) = Config(c) /\ Plan(Tail(q), tag)
    BY <1>3, ShortTails DEF Plan
  <1>4. ASSUME NEW c \in Complete, q = <<Store(c), Config(c), Video(tag)>>
        PROVE  Head(q) = Store(c) /\ Plan(Tail(q), tag)
    BY <1>4, ShortTails DEF Plan
  <1> QED
    BY <1>0, <1>1, <1>2, <1>3, <1>4 DEF Plan

LEMMA PlainGoesOn ==
    ASSUME NEW q, Plain(q), q # <<>>
    PROVE  Tail(q) = <<>> /\ Plain(Tail(q)) /\ (Head(q) = Withdraw \/ \E c \in Complete : Head(q) = Store(c))
  <1>1. CASE q = <<Withdraw>>
    BY <1>1, ShortTails DEF Plain
  <1>2. ASSUME NEW c \in Complete, q = <<Store(c)>>
        PROVE  Head(q) = Store(c) /\ Tail(q) = <<>> /\ Plain(Tail(q))
    BY <1>2, ShortTails DEF Plain
  <1> QED
    BY <1>1, <1>2 DEF Plain

LEMMA PastIsNat ==
    ASSUME Assembly
    PROVE  /\ Past \in Nat /\ Past <= enc.pic /\ enc.pic \in Nat /\ openings \in Nat \ {0}
           /\ Past <= MaxPictures
           /\ m_current # <<>> => Past = enc.pic - 1
  <1>1. enc.pic \in 0 .. MaxPictures /\ openings \in Nat \ {0}
    BY FeedAssumption DEF Assembly, EncTypes, Encoders
  <1>2. m_current # <<>> => enc.pic \in Nat \ {0}
    <2>1. m_current # <<>> => m_current[1] \in Nals /\ m_current[1].pic = enc.pic
      BY EmptyOrNot DEF Assembly, CurrentInv
    <2> QED
      BY <2>1, FeedAssumption DEF Nals
  <1>3. MaxPictures \in Nat
    BY FeedAssumption
  <1> QED
    BY <1>1, <1>2, <1>3 DEF Past

\* A picture that is completed, or cut off, while the muxer is ready.
LEMMA TagMade ==
    ASSUME Assembly, Newest(sent), frame_index \in Nat, frame_index <= Past,
           m_current # <<>>, Ready(sps, pps), NEW whole \in BOOLEAN, OnePicture(m_current, whole),
           NEW tag, tag = VideoTag(m_current, whole), Plan(todo', tag),
           Past' = enc.pic, sent' = sent, frame_index' = frame_index + 1,
           openings' \in {openings, openings + 1}, openings' = openings => Ready(sps', pps')
    PROVE  TagInv'
  <1>1. /\ tag.nals = m_current /\ tag.opening = openings /\ tag.ts = frame_index /\ tag.whole = whole
    BY DEF VideoTag
  <1>2. /\ Past = enc.pic - 1 /\ Past \in Nat /\ enc.pic \in Nat /\ openings \in Nat \ {0}
    BY PastIsNat
  <1>3. PicOf(tag) = enc.pic
    BY <1>1, CurrentIsAPicture DEF PicOf, Assembly
  <1>4. Newest(tag)'
    <2>1. OnePicture(tag.nals, tag.whole) /\ tag.whole \in BOOLEAN
      BY <1>1
    <2>2. tag.ts \in Nat /\ frame_index' = tag.ts + 1 /\ tag.opening \in 1 .. openings'
      BY <1>1, <1>2
    <2>3. PicOf(tag) \in Nat /\ PicOf(tag) <= Past'
      BY <1>2, <1>3
    <2>4. tag.opening = openings' => PicOf(tag) = Past' /\ Ready(sps', pps')
      BY <1>1, <1>3
    <2> QED
      BY <2>1, <2>2, <2>3, <2>4 DEF Newest
  <1>5. Behind(sent', tag)
    <2>1. CASE sent = NoTag /\ frame_index = 0
      BY <1>1, <2>1 DEF Behind
    <2>2. CASE ~(sent = NoTag /\ frame_index = 0)
      <3>1. /\ OnePicture(sent.nals, sent.whole) /\ sent.whole \in BOOLEAN /\ sent.ts \in Nat
            /\ frame_index = sent.ts + 1 /\ PicOf(sent) \in Nat /\ PicOf(sent) <= Past
            /\ sent.opening = openings => PicOf(sent) = Past
        BY <2>2 DEF Newest
      <3>2. PicOf(sent) < PicOf(tag) /\ tag.ts = sent.ts + 1
        BY <1>1, <1>2, <1>3, <3>1
      <3>3. sent.opening = tag.opening => PicOf(tag) = PicOf(sent) + 1
        BY <1>1, <1>2, <1>3, <3>1
      <3> QED
        BY <3>1, <3>2, <3>3 DEF Behind
    <2> QED
      BY <2>1, <2>2
  <1>6. frame_index' \in Nat /\ frame_index' <= Past'
    BY <1>2
  <1>7. tag \in TagsOf(todo')
    BY PlanHasTag
  <1> QED
    BY <1>1, <1>4, <1>5, <1>6, <1>7 DEF TagInv

\* Nothing is completed, or the muxer is not ready.
LEMMA NoTagMade ==
    ASSUME Assembly, Newest(sent), frame_index \in Nat, frame_index <= Past, Plain(todo'),
           Past' \in {Past, enc.pic}, sent' = sent, frame_index' = frame_index,
           openings' \in {openings, openings + 1},
           openings' = openings /\ Ready(sps, pps) => Past' = Past /\ Ready(sps', pps')
    PROVE  TagInv'
  <1>1. Past \in Nat /\ enc.pic \in Nat /\ Past <= enc.pic /\ openings \in Nat \ {0}
    BY PastIsNat
  <1>2. Newest(sent)'
    <2>1. CASE sent = NoTag /\ frame_index = 0
      BY <2>1 DEF Newest
    <2>2. CASE ~(sent = NoTag /\ frame_index = 0)
      <3>1. /\ OnePicture(sent.nals, sent.whole) /\ sent.whole \in BOOLEAN /\ sent.ts \in Nat
            /\ sent.opening \in 1 .. openings
            /\ frame_index = sent.ts + 1 /\ PicOf(sent) \in Nat /\ PicOf(sent) <= Past
            /\ sent.opening = openings => PicOf(sent) = Past /\ Ready(sps, pps)
        BY <2>2 DEF Newest
      <3>2. sent.opening \in 1 .. openings' /\ PicOf(sent) <= Past'
        BY <1>1, <3>1
      <3>3. sent.opening = openings' => sent.opening = openings /\ openings' = openings
        BY <1>1, <3>1
      <3>4. sent.opening = openings' => PicOf(sent) = Past' /\ Ready(sps', pps')
        BY <3>1, <3>3
      <3> QED
        BY <3>1, <3>2, <3>4 DEF Newest
    <2> QED
      BY <2>1, <2>2
  <1>3. frame_index' \in Nat /\ frame_index' <= Past'
    BY <1>1
  <1> QED
    BY <1>2, <1>3 DEF TagInv

LEMMA PlainOrPlan ==
    ASSUME TagInv, todo = <<>>
    PROVE  Newest(sent) /\ frame_index \in Nat /\ frame_index <= Past
  <1>1. ASSUME NEW tag, Plan(todo, tag) PROVE FALSE
    BY <1>1, PlanHasTag
  <1> QED
    BY <1>1 DEF TagInv

LEMMA ParameterSetTags ==
    ASSUME Assembly, TagInv, NEW n \in Nals, ParameterSet(n)
    PROVE  TagInv'
  <1>1. /\ Assembly' /\ m_current' = <<>> /\ enc'.pic = enc.pic /\ enc.left = 0
        /\ Ready(sps', pps') => <<sps', pps'>> \in Complete
    BY ParameterSetKeeps
  <1>2. /\ todo = <<>> /\ todo' = Pictured(m_current, TRUE) \o Stored /\ CountPicture(m_current)
        /\ sent' = sent /\ openings' = openings
    BY DEF ParameterSet, out
  <1>3. Newest(sent) /\ frame_index \in Nat /\ frame_index <= Past /\ Past' = enc.pic
    BY <1>1, <1>2, PlainOrPlan DEF Past
  <1>4. Stored = <<>> \/ (<<sps', pps'>> \in Complete /\ Stored = <<Store(<<sps', pps'>>)>>)
    BY <1>1 DEF Stored, Store
  <1>5. Ready(sps, pps) => Ready(sps', pps')
    <2>1. /\ n.type \in {"sps", "pps"} /\ Encode(n)
          /\ sps' = (IF n.type = "sps" THEN n.cfg ELSE sps) /\ pps' = (IF n.type = "pps" THEN n.cfg ELSE pps)
      BY DEF ParameterSet, StoreParameterSet
    <2>2. CASE n.type = "sps"
      BY <2>1, <2>2, EncodesSps DEF Assembly, Ready
    <2>3. CASE n.type = "pps"
      <3>1. n.cfg = enc.cfg /\ enc.stage = "sps"
        BY <2>1, <2>3, EncodesPps DEF Assembly
      <3>2. enc.cfg # 0
        BY <3>1 DEF Assembly, SetsInv
      <3> QED
        BY <2>1, <2>3, <3>1, <3>2 DEF Ready
    <2> QED
      BY <2>1, <2>2, <2>3
  <1>6. CASE m_current # <<>> /\ Ready(sps, pps)
    <2>1. PICK tag : tag = VideoTag(m_current, TRUE)
      OBVIOUS
    <2>2. Pictured(m_current, TRUE) = <<Video(tag)>> /\ frame_index' = frame_index + 1
      BY <1>2, <1>6, <2>1 DEF Pictured, Sendable, CountPicture, Video
    <2>3. Plan(todo', tag)
      BY <1>2, <1>4, <2>2, ShortJoins DEF Plan
    <2>4. OnePicture(m_current, TRUE)
      BY <1>1, <1>6, CurrentIsAPicture DEF Assembly
    <2> QED
      BY <1>2, <1>3, <1>5, <1>6, <2>1, <2>2, <2>3, <2>4, TagMade
  <1>7. CASE ~(m_current # <<>> /\ Ready(sps, pps))
    <2>1. Pictured(m_current, TRUE) = <<>> /\ frame_index' = frame_index
      BY <1>2, <1>7 DEF Pictured, Sendable, CountPicture
    <2>2. Plain(todo')
      BY <1>2, <1>4, <2>1, ShortJoins DEF Plain
    <2>3. Ready(sps, pps) => Past' = Past
      BY <1>3, <1>7 DEF Past
    <2> QED
      BY <1>2, <1>3, <1>5, <2>1, <2>2, <2>3, NoTagMade
  <1> QED
    BY <1>6, <1>7

LEMMA PictureNalTags ==
    ASSUME Assembly, TagInv, NEW n \in Nals, PictureNal(n)
    PROVE  TagInv'
  <1> DEFINE au == Push(n).completed
  <1>1. Assembly' /\ Completes(au)
    BY PictureNalKeeps
  <1>2. /\ todo = <<>> /\ todo' = (IF Sendable(au) THEN Announce \o Pictured(au, TRUE) ELSE <<>>)
        /\ CountPicture(au) /\ sent' = sent /\ openings' = openings /\ sps' = sps /\ pps' = pps
    BY DEF PictureNal, out
  <1> HIDE DEF au
  <1>3. Newest(sent) /\ frame_index \in Nat /\ frame_index <= Past
    BY <1>2, PlainOrPlan
  <1>4. CASE au # <<>> /\ Ready(sps, pps)
    <2>1. au = m_current /\ enc.left = 0 /\ Past' = enc.pic
      BY <1>1, <1>4 DEF Completes
    <2>2. PICK tag : tag = VideoTag(m_current, TRUE)
      OBVIOUS
    <2>3. Pictured(au, TRUE) = <<Video(tag)>> /\ frame_index' = frame_index + 1 /\ Sendable(au)
      BY <1>2, <1>4, <2>1, <2>2 DEF Pictured, Sendable, CountPicture, Video
    <2>4. <<sps, pps>> \in Complete
      BY <1>4 DEF Complete, Configs, Assembly, SetsInv
    <2>5. Announce \in {<<>>, <<Store(<<sps, pps>>), Config(<<sps, pps>>)>>}
      BY DEF Announce, Store, Config
    <2>6. Plan(todo', tag)
      <3>1. PICK c \in Complete : c = <<sps, pps>>
        BY <2>4
      <3>2. todo' = <<>> \o <<Video(tag)>> \/ todo' = <<Store(c), Config(c)>> \o <<Video(tag)>>
        BY <1>2, <2>3, <2>5, <3>1
      <3>3. todo' = <<Video(tag)>> \/ todo' = <<Store(c), Config(c), Video(tag)>>
        BY <3>2, ShortJoins
      <3> QED
        BY <3>3 DEF Plan
    <2>7. OnePicture(m_current, TRUE)
      BY <1>4, <2>1, CurrentIsAPicture DEF Assembly
    <2> QED
      BY <1>2, <1>3, <1>4, <2>1, <2>2, <2>3, <2>6, <2>7, TagMade
  <1>5. CASE ~(au # <<>> /\ Ready(sps, pps))
    <2>1. todo' = <<>> /\ frame_index' = frame_index
      BY <1>2, <1>5 DEF Sendable, CountPicture
    <2>2. Past' \in {Past, enc.pic} /\ (Ready(sps, pps) => Past' = Past)
      BY <1>1, <1>5 DEF Completes
    <2> QED
      BY <1>2, <1>3, <2>1, <2>2, NoTagMade DEF Plain
  <1> QED
    BY <1>4, <1>5

LEMMA ReopenTags ==
    ASSUME Assembly, TagInv, NEW cfg \in 0 .. enc.cfg, NEW fails \in BOOLEAN, Reopen(cfg, fails)
    PROVE  TagInv'
  <1> DEFINE rest == IF fails THEN <<Step("withdraw", <<0, 0>>, NoTag)>> ELSE <<>>
  <1>1. Assembly' /\ m_current' = <<>> /\ enc'.pic = enc.pic /\ openings' = openings + 1
    BY ReopenKeeps
  <1>2. /\ todo = <<>> /\ todo' = Pictured(m_current, FALSE) \o rest /\ CountPicture(m_current)
        /\ sent' = sent
    BY DEF Reopen, out
  <1>3. Newest(sent) /\ frame_index \in Nat /\ frame_index <= Past /\ Past' = enc.pic
    BY <1>1, <1>2, PlainOrPlan DEF Past
  <1>4. rest \in {<<>>, <<Withdraw>>} /\ openings' # openings
    BY <1>1, PastIsNat DEF Withdraw
  <1> HIDE DEF rest
  <1>5. CASE m_current # <<>> /\ Ready(sps, pps)
    <2>1. PICK tag : tag = VideoTag(m_current, FALSE)
      OBVIOUS
    <2>2. Pictured(m_current, FALSE) = <<Video(tag)>> /\ frame_index' = frame_index + 1
      BY <1>2, <1>5, <2>1 DEF Pictured, Sendable, CountPicture, Video
    <2>3. Plan(todo', tag)
      BY <1>2, <1>4, <2>2, ShortJoins DEF Plan
    <2>4. OnePicture(m_current, FALSE)
      BY <1>5, CurrentIsAPicture DEF Assembly
    <2> QED
      BY <1>1, <1>2, <1>3, <1>4, <1>5, <2>1, <2>2, <2>3, <2>4, TagMade
  <1>6. CASE ~(m_current # <<>> /\ Ready(sps, pps))
    <2>1. Pictured(m_current, FALSE) = <<>> /\ frame_index' = frame_index
      BY <1>2, <1>6 DEF Pictured, Sendable, CountPicture
    <2>2. Plain(todo')
      BY <1>2, <1>4, <2>1, ShortJoins DEF Plain
    <2> QED
      BY <1>1, <1>2, <1>3, <1>4, <2>1, <2>2, NoTagMade
  <1> QED
    BY <1>5, <1>6

LEMMA StoredIsReady ==
    ASSUME NEW c \in Complete, m_flv_muxer' = c, m_flv_ready' = TRUE
    PROVE  ManagerInv'
  BY DEF ManagerInv, Complete

\* A step under the manager's lock takes the head of what is planned; the one
\* that ends a broadcast of a picture sends the tag that comes next.
LEMMA PlanSteps ==
    ASSUME Assembly, TagInv, ManagerInv, StoreConfig \/ WithdrawStream \/ BroadcastDone
    PROVE  /\ Assembly' /\ TagInv' /\ ManagerInv'
           /\ sent' # sent => Behind(sent, sent') /\ OnePicture(sent'.nals, sent'.whole)
           /\ sent' # sent => Head(todo) = Video(sent') /\ todo # <<>>
  <1>1. /\ UNCHANGED loop /\ todo # <<>> /\ todo' = Tail(todo)
        /\ \/ Head(todo).do = "store" /\ sent' = sent /\ m_flv_muxer' = Head(todo).config /\ m_flv_ready' = TRUE
           \/ Head(todo).do = "withdraw" /\ sent' = sent /\ m_flv_muxer' = m_flv_muxer /\ m_flv_ready' = FALSE
           \/ Head(todo).do = "config" /\ sent' = sent /\ UNCHANGED manager
           \/ Head(todo).do = "video" /\ sent' = Head(todo).tag /\ UNCHANGED manager
    BY DEF StoreConfig, WithdrawStream, BroadcastDone, Does, out
  <1>2. Assembly'
    BY <1>1 DEF loop, assembler, muxer, Assembly, EncTypes, CurrentInv, PendingInv, SetsInv
  <1>3. /\ frame_index' = frame_index /\ Past' = Past
        /\ \A tag : Newest(tag) => Newest(tag)'
    BY <1>1 DEF loop, assembler, muxer, Past, Newest
  <1>4. CASE Plain(todo) /\ Newest(sent)
    <2>1. Plain(todo') /\ (Head(todo) = Withdraw \/ \E c \in Complete : Head(todo) = Store(c))
      BY <1>1, <1>4, PlainGoesOn
    <2>2. sent' = sent /\ ManagerInv'
      <3>1. CASE Head(todo) = Withdraw
        BY <1>1, <3>1, StepFields DEF ManagerInv
      <3>2. ASSUME NEW c \in Complete, Head(todo) = Store(c) PROVE sent' = sent /\ ManagerInv'
        <4>1. Head(todo).do = "store" /\ Head(todo).config = c
          BY <3>2, StepFields
        <4>2. sent' = sent /\ m_flv_muxer' = c /\ m_flv_ready' = TRUE
          BY <1>1, <4>1
        <4> QED
          BY <4>2, StoredIsReady
      <3> QED
        BY <2>1, <3>1, <3>2
    <2>3. TagInv'
      BY <1>3, <1>4, <2>1, <2>2 DEF TagInv
    <2> QED
      BY <1>2, <2>2, <2>3
  <1>5. ASSUME NEW tag \in TagsOf(todo), Plan(todo, tag), Newest(tag), tag.nals # <<>>, Behind(sent, tag)
        PROVE  /\ TagInv' /\ ManagerInv'
               /\ sent' # sent => Behind(sent, sent') /\ OnePicture(sent'.nals, sent'.whole)
               /\ sent' # sent => Head(todo) = Video(sent')
    <2>1. CASE Head(todo) = Video(tag) /\ Plain(Tail(todo))
      <3>1. sent' = tag /\ UNCHANGED manager
        BY <1>1, <2>1, StepFields
      <3>2. TagInv'
        BY <1>1, <1>3, <1>5, <2>1, <3>1 DEF TagInv
      <3>3. OnePicture(tag.nals, tag.whole)
        BY <1>5 DEF Newest, NoTag
      <3>4. ManagerInv'
        BY <3>1 DEF ManagerInv, manager
      <3> QED
        BY <1>5, <2>1, <3>1, <3>2, <3>3, <3>4
    <2>2. ASSUME NEW c \in Complete, Head(todo) \in {Store(c), Config(c)}, Plan(Tail(todo), tag)
          PROVE  TagInv' /\ ManagerInv' /\ sent' = sent
      <3>1. sent' = sent
        BY <1>1, <2>2, StepFields
      <3>2. ManagerInv'
        <4>1. CASE Head(todo) = Store(c)
          <5>1. Head(todo).do = "store" /\ Head(todo).config = c
            BY <4>1, StepFields
          <5>2. m_flv_muxer' = c /\ m_flv_ready' = TRUE
            BY <1>1, <5>1
          <5> QED
            BY <5>2, StoredIsReady
        <4>2. CASE Head(todo) = Config(c)
          <5>1. Head(todo).do = "config"
            BY <4>2, StepFields
          <5>2. UNCHANGED manager
            BY <1>1, <5>1
          <5> QED
            BY <5>2 DEF ManagerInv, manager
        <4> QED
          BY <2>2, <4>1, <4>2
      <3>3. tag \in TagsOf(todo')
        BY <1>1, <2>2, PlanHasTag
      <3>4. TagInv'
        BY <1>1, <1>3, <1>5, <2>2, <3>1, <3>3 DEF TagInv
      <3> QED
        BY <3>1, <3>2, <3>4
    <2> QED
      BY <1>5, <2>1, <2>2, PlanGoesOn
  <1> QED
    BY <1>1, <1>2, <1>4, <1>5 DEF TagInv

-----------------------------------------------------------------------------
(* The invariant, and what follows from it.                                *)

LEMMA FeedInvInit == Init => FeedInv
  <1> SUFFICES ASSUME Init PROVE FeedInv
    OBVIOUS
  <1>1. 0 \in 0 .. MaxPictures /\ 0 \in 0 .. MaxConfigs /\ MinGop \in 0 .. MinGop /\ 1 \in 1 .. MaxOpenings
    BY FeedAssumption
  <1>2. PICK d \in BOOLEAN : enc = Opened(d, 0, 0)
    BY DEF Init
  <1>3. enc \in Encoders /\ enc.left = 0 /\ enc.stage = "free" /\ enc.pic = 0
    BY <1>1, <1>2 DEF Opened, Encoders, Stages
  <1>4. EncTypes
    BY <1>1, <1>3 DEF EncTypes, Init
  <1>5. <<>> \in Seq(Nals) /\ DOMAIN <<>> = {}
    OBVIOUS
  <1>6. CurrentInv
    <2>1. m_current = <<>> /\ m_has_vcl = FALSE
      BY DEF Init
    <2>2. m_has_vcl = (m_current # <<>>)
      BY <2>1
    <2> QED
      BY <1>3, <1>5, <2>1, <2>2 DEF CurrentInv
  <1>7. PendingInv
    BY <1>5 DEF PendingInv, Init
  <1>8. SetsInv
    BY <1>1, <1>3 DEF SetsInv, Init
  <1>9. TagInv
    BY <1>3 DEF TagInv, Init, Plain, Newest, Past
  <1>10. ManagerInv
    <2>1. m_flv_muxer \in Configs /\ m_flv_ready = FALSE
      BY <1>1 DEF Init, Configs
    <2> QED
      BY <2>1 DEF ManagerInv
  <1> QED
    BY <1>4, <1>6, <1>7, <1>8, <1>9, <1>10 DEF FeedInv

LEMMA FeedInvStep ==
    ASSUME FeedInv, FeedStep \/ UNCHANGED feedVars
    PROVE  FeedInv'
  <1>0. Assembly /\ TagInv /\ ManagerInv
    BY DEF FeedInv, Assembly
  <1>1. ASSUME NEW n \in Nals, ParameterSet(n) PROVE FeedInv'
    <2>1. UNCHANGED manager
      BY <1>1 DEF ParameterSet
    <2>2. Assembly' /\ TagInv'
      BY <1>0, <1>1, ParameterSetKeeps, ParameterSetTags
    <2> QED
      BY <1>0, <2>1, <2>2 DEF FeedInv, Assembly, ManagerInv, manager
  <1>2. ASSUME NEW n \in Nals, PictureNal(n) PROVE FeedInv'
    <2>1. UNCHANGED manager
      BY <1>2 DEF PictureNal
    <2>2. Assembly' /\ TagInv'
      BY <1>0, <1>2, PictureNalKeeps, PictureNalTags
    <2> QED
      BY <1>0, <2>1, <2>2 DEF FeedInv, Assembly, ManagerInv, manager
  <1>3. ASSUME NEW cfg \in 0 .. enc.cfg, NEW fails \in BOOLEAN, Reopen(cfg, fails) PROVE FeedInv'
    <2>1. UNCHANGED manager
      BY <1>3 DEF Reopen
    <2>2. Assembly' /\ TagInv'
      BY <1>0, <1>3, ReopenKeeps, ReopenTags
    <2> QED
      BY <1>0, <2>1, <2>2 DEF FeedInv, Assembly, ManagerInv, manager
  <1>4. CASE StoreConfig \/ WithdrawStream \/ BroadcastDone
    BY <1>0, <1>4, PlanSteps DEF FeedInv, Assembly
  <1>5. CASE UNCHANGED feedVars
    <2>1. UNCHANGED <<enc, openings, m_current, m_pending_non_vcl, m_has_vcl, sps, pps, config_dirty,
                      frame_index, todo, m_flv_muxer, m_flv_ready, sent>>
      BY <1>5 DEF feedVars, loop, assembler, muxer, manager, out
    <2>2. Assembly' /\ ManagerInv'
      BY <1>0, <2>1 DEF Assembly, EncTypes, CurrentInv, PendingInv, SetsInv, ManagerInv
    <2>3. Past' = Past /\ \A tag : Newest(tag) => Newest(tag)'
      BY <2>1 DEF Past, Newest
    <2>4. TagInv'
      BY <1>0, <2>1, <2>3 DEF TagInv
    <2> QED
      BY <2>2, <2>4 DEF FeedInv, Assembly
  <1> QED
    BY <1>1, <1>2, <1>3, <1>4, <1>5 DEF FeedStep, LoopNext

\* The tag that was sent last is NoTag or a picture.
LEMMA SentIsAPicture ==
    ASSUME FeedInv
    PROVE  sent = NoTag \/ OnePicture(sent.nals, sent.whole)
  BY DEF FeedInv, TagInv, Newest, Behind

\* A tag holds one picture, whole unless the source ended in it.
LEMMA InvMeansOnePicture == FeedInv => AccessUnitIsOnePicture
  <1> SUFFICES ASSUME FeedInv PROVE AccessUnitIsOnePicture
    OBVIOUS
  <1>1. CASE sent = NoTag
    <2>1. DOMAIN sent.nals = {}
      BY <1>1 DEF NoTag
    <2> QED
      BY <1>1, <2>1 DEF AccessUnitIsOnePicture
  <1>2. CASE OnePicture(sent.nals, sent.whole)
    BY <1>2 DEF OnePicture, AccessUnitIsOnePicture, Last
  <1> QED
    BY <1>1, <1>2, SentIsAPicture

\* Only the end of a broadcast sends a tag.
LEMMA SentByBroadcast ==
    ASSUME FeedInv, FeedStep \/ UNCHANGED feedVars, sent' # sent
    PROVE  BroadcastDone /\ Behind(sent, sent') /\ Head(todo) = Video(sent')
  <1>1. BroadcastDone
    BY DEF FeedStep, LoopNext, ParameterSet, PictureNal, Reopen, StoreConfig, WithdrawStream, out, feedVars
  <1> QED
    BY <1>1, PlanSteps DEF FeedInv, Assembly

LEMMA InvMeansNoneSkipped ==
    ASSUME FeedInv, FeedStep \/ UNCHANGED feedVars, sent' # sent, sent # NoTag
    PROVE  /\ sent.ts < sent'.ts /\ PicOf(sent) < PicOf(sent')
           /\ sent.opening = sent'.opening => PicOf(sent') = PicOf(sent) + 1
  <1>1. Behind(sent, sent')
    BY SentByBroadcast
  <1> QED
    BY <1>1 DEF Behind

-----------------------------------------------------------------------------
(* Configurations.  With delimiters a picture ends before the parameter    *)
(* sets of the next one; without them this needs a picture between the one *)
(* that follows a parameter set and the next set (MinGop > 1).             *)

HasPlan(q) == Plain(q) \/ \E tag : Plan(q, tag)

LEMMA SaysNothing == ASSUME NEW t PROVE Says(<<>>, t) = t
  BY DEF Says

LEMMA SaysOne ==
    ASSUME NEW a, NEW t
    PROVE  Says(<<a>>, t) = (IF a.do = "config" THEN a.config ELSE t)
  BY ShortTails DEF Says

LEMMA SaysTwo ==
    ASSUME NEW a, NEW b, NEW t
    PROVE  Says(<<a, b>>, t) = (IF a.do = "config" THEN a.config ELSE t)
  BY ShortTails DEF Says

LEMMA SaysThree ==
    ASSUME NEW a, NEW b, NEW c, NEW t
    PROVE  Says(<<a, b, c>>, t) = (IF a.do = "config" THEN a.config ELSE b.config)
  BY ShortTails DEF Says

\* Doing the head of a plan does not change what the clients will have been told.
Told(q, t) == IF Head(q).do = "config" THEN Head(q).config ELSE t

Goes(q, t) ==
    /\ Says(Tail(q), Told(q, t)) = Says(q, t)
    /\ Head(q).do = "video" => Says(q, t) = t
    /\ \A i \in DOMAIN Tail(q) : \E j \in DOMAIN q : Tail(q)[i] = q[j]
    /\ \E j \in DOMAIN q : Head(q) = q[j]

LEMMA OneGoesOn ==
    ASSUME NEW a, NEW t
    PROVE  Goes(<<a>>, t)
  <1> DEFINE q == <<a>>
  <1>1. Head(q) = a /\ Tail(q) = <<>> /\ DOMAIN <<>> = {} /\ 1 \in DOMAIN q /\ q[1] = a
    OBVIOUS
  <1>2. Says(q, t) = (IF a.do = "config" THEN a.config ELSE t) /\ Says(<<>>, Told(q, t)) = Told(q, t)
    BY SaysOne, SaysNothing
  <1> HIDE DEF q
  <1> QED
    BY <1>1, <1>2 DEF Goes, Told, q

LEMMA TwoGoOn ==
    ASSUME NEW a, NEW b, NEW t, b.do # "config"
    PROVE  Goes(<<a, b>>, t)
  <1> DEFINE q == <<a, b>>
             r == <<b>>
  <1>1. /\ Head(q) = a /\ Tail(q) = r /\ DOMAIN q = {1, 2} /\ q[1] = a /\ q[2] = b
        /\ DOMAIN r = {1} /\ r[1] = b
    OBVIOUS
  <1>a. Says(q, t) = (IF a.do = "config" THEN a.config ELSE t)
    BY SaysTwo
  <1>b. ASSUME NEW u PROVE Says(r, u) = (IF b.do = "config" THEN b.config ELSE u)
    BY SaysOne
  <1>2. /\ Says(q, t) = (IF a.do = "config" THEN a.config ELSE t)
        /\ \A u : Says(r, u) = (IF b.do = "config" THEN b.config ELSE u)
    BY <1>a, <1>b
  <1> HIDE DEF q, r
  <1>3. Says(r, Told(q, t)) = Says(q, t)
    BY <1>1, <1>2 DEF Told
  <1>4. Goes(q, t)
    BY <1>1, <1>2, <1>3 DEF Goes
  <1> QED
    BY <1>4 DEF q

LEMMA ThreeGoOn ==
    ASSUME NEW a, NEW b, NEW c, NEW t, a.do \notin {"config", "video"}, b.do = "config"
    PROVE  Goes(<<a, b, c>>, t)
  <1> DEFINE q == <<a, b, c>>
             r == <<b, c>>
  <1>1. /\ Head(q) = a /\ Tail(q) = r /\ DOMAIN q = {1, 2, 3} /\ q[1] = a /\ q[2] = b /\ q[3] = c
        /\ DOMAIN r = {1, 2} /\ r[1] = b /\ r[2] = c
    OBVIOUS
  <1>a. Says(q, t) = (IF a.do = "config" THEN a.config ELSE b.config)
    BY SaysThree
  <1>b. ASSUME NEW u PROVE Says(r, u) = (IF b.do = "config" THEN b.config ELSE u)
    BY SaysTwo
  <1>2. /\ Says(q, t) = (IF a.do = "config" THEN a.config ELSE b.config)
        /\ \A u : Says(r, u) = (IF b.do = "config" THEN b.config ELSE u)
    BY <1>a, <1>b
  <1> HIDE DEF q, r
  <1>3. Says(r, Told(q, t)) = Says(q, t)
    BY <1>1, <1>2 DEF Told
  <1>4. Goes(q, t)
    BY <1>1, <1>2, <1>3 DEF Goes
  <1> QED
    BY <1>4 DEF q

LEMMA PlansGoOn ==
    ASSUME NEW q, NEW t, HasPlan(q), q # <<>>
    PROVE  Goes(q, t)
  <1>1. Withdraw.do = "withdraw"
    BY StepFields
  <1>2. CASE Plain(q)
    BY <1>2, OneGoesOn DEF Plain
  <1>3. ASSUME NEW tag, Plan(q, tag) PROVE Goes(q, t)
    <2>1. Video(tag).do = "video"
      BY StepFields
    <2>2. CASE q = <<Video(tag)>>
      BY <2>2, OneGoesOn
    <2>3. CASE q = <<Video(tag), Withdraw>>
      BY <1>1, <2>3, TwoGoOn
    <2>4. ASSUME NEW c \in Complete, q = <<Video(tag), Store(c)>> PROVE Goes(q, t)
      BY <2>4, TwoGoOn, StepFields
    <2>5. ASSUME NEW c \in Complete, q = <<Config(c), Video(tag)>> PROVE Goes(q, t)
      BY <2>1, <2>5, TwoGoOn
    <2>6. ASSUME NEW c \in Complete, q = <<Store(c), Config(c), Video(tag)>> PROVE Goes(q, t)
      <3>1. Store(c).do = "store" /\ Config(c).do = "config"
        BY StepFields
      <3> QED
        BY <2>6, <3>1, ThreeGoOn
    <2> QED
      BY <1>3, <2>2, <2>3, <2>4, <2>5, <2>6 DEF Plan
  <1> QED
    BY <1>2, <1>3 DEF HasPlan

LEMMA HasPlanAlways ==
    ASSUME TagInv
    PROVE  HasPlan(todo)
  BY DEF TagInv, HasPlan

LEMMA ConfigInvInit == Init => ConfigInv
  <1> SUFFICES ASSUME Init PROVE ConfigInv
    OBVIOUS
  <1>1. config_dirty = FALSE /\ sps = 0 /\ todo = <<>> /\ DOMAIN <<>> = {}
    BY DEF Init
  <1> QED
    BY <1>1 DEF ConfigInv, Ready

\* A picture that is completed by a set is announced already.
\* A parameter set that ends a picture finds nothing to announce.
LEMMA FlushIsAnnounced ==
    ASSUME MinGop # 1, Assembly, ConfigInv, NEW n \in Nals, ParameterSet(n),
           m_current # <<>>, Ready(sps, pps)
    PROVE  ~config_dirty /\ sps = enc.cfg /\ pps = enc.cfg
  <1>1. n.type \in {"sps", "pps"} /\ Encode(n)
    BY DEF ParameterSet
  <1>2. enc.stage \notin {"sps", "pps"} /\ sps = enc.cfg /\ pps = enc.cfg
    BY DEF Assembly, CurrentInv, SetsInv, Ready
  <1>3. n.type = "sps"
    BY <1>1, <1>2, EncodesPps DEF Assembly
  <1>4. ~enc.delimits /\ enc.since = MinGop
    BY <1>1, <1>3, EncodesSps DEF Assembly, CurrentInv
  <1> QED
    BY <1>2, <1>4, FeedAssumption DEF ConfigInv

LEMMA ParameterSetConfig ==
    ASSUME MinGop # 1, Assembly, TagInv, ConfigInv, NEW n \in Nals, ParameterSet(n)
    PROVE  ConfigInv'
  <1>1. /\ n.type \in {"sps", "pps"} /\ Encode(n) /\ config_dirty' = TRUE
        /\ todo = <<>> /\ todo' = Pictured(m_current, TRUE) \o Stored /\ told' = told
    BY DEF ParameterSet, StoreParameterSet, out
  <1>2. m_current' = <<>> /\ (Ready(sps', pps') => <<sps', pps'>> \in Complete)
    BY ParameterSetKeeps
  <1>3. ~enc'.delimits => enc'.since = 0 /\ m_current' = <<>>
    <2>1. CASE n.type = "sps"
      BY <1>1, <1>2, <2>1, EncodesSps DEF Assembly
    <2>2. CASE n.type = "pps"
      <3>1. Same(enc', enc) /\ enc'.since = enc.since /\ enc.stage = "sps"
        BY <1>1, <2>2, EncodesPps DEF Assembly
      <3>2. config_dirty
        BY <3>1 DEF Assembly, SetsInv
      <3> QED
        BY <1>2, <3>1, <3>2 DEF ConfigInv, Same
    <2> QED
      BY <1>1, <2>1, <2>2
  <1>4. Stored = <<>> \/ \E c \in Complete : Stored = <<Store(c)>>
    BY <1>2 DEF Stored, Store
  <1>5. CASE m_current # <<>> /\ Ready(sps, pps)
    <2>1. PICK tag : tag = VideoTag(m_current, TRUE)
      OBVIOUS
    <2>2. Pictured(m_current, TRUE) = <<Video(tag)>>
      BY <1>5, <2>1 DEF Pictured, Sendable, Video
    <2>3. todo' = <<Video(tag)>> \/ \E c \in Complete : todo' = <<Video(tag), Store(c)>>
      BY <1>1, <1>4, <2>2, ShortJoins
    <2>4. told = ConfigOf(tag)
      <3>4. ~config_dirty /\ sps = enc.cfg /\ pps = enc.cfg
        BY <1>5, FlushIsAnnounced
      <3>5. Announced = told
        BY <1>1, SaysNothing DEF Announced
      <3>6. tag.nals[1].cfg = enc.cfg
        BY <1>5, <2>1, CurrentIsAPicture DEF VideoTag, Assembly
      <3> QED
        BY <1>5, <3>4, <3>5, <3>6 DEF ConfigInv, ConfigOf
    <2>a. Video(tag).do = "video" /\ Video(tag).tag = tag
      BY StepFields
    <2>5. Announced' = told
      <3>1. CASE todo' = <<Video(tag)>>
        BY <1>1, <2>a, <3>1, SaysOne DEF Announced
      <3>2. ASSUME NEW c, todo' = <<Video(tag), Store(c)>> PROVE Announced' = told
        <4>1. Says(<<Video(tag), Store(c)>>, told) = told
          BY <2>a, SaysTwo
        <4>2. Announced' = Says(<<Video(tag), Store(c)>>, told')
          BY <3>2 DEF Announced
        <4> QED
          BY <1>1, <4>1, <4>2
      <3> QED
        BY <2>3, <3>1, <3>2
    <2>6. \A i \in DOMAIN todo' : todo'[i] = Video(tag) \/ todo'[i].do = "store"
      <3>1. CASE todo' = <<Video(tag)>>
        BY <3>1
      <3>2. ASSUME NEW c, todo' = <<Video(tag), Store(c)>>
            PROVE  \A i \in DOMAIN todo' : todo'[i] = Video(tag) \/ todo'[i].do = "store"
        <4>1. \A i \in DOMAIN todo' : todo'[i] = Video(tag) \/ todo'[i] = Store(c)
          BY <3>2
        <4> QED
          BY <4>1, StepFields
      <3> QED
        BY <2>3, <3>1, <3>2
    <2>7. \A i \in DOMAIN todo' : todo'[i].do = "video" => todo'[i].tag = tag
      BY <2>a, <2>6
    <2> QED
      BY <1>1, <1>3, <2>4, <2>5, <2>7 DEF ConfigInv
  <1>6. CASE ~(m_current # <<>> /\ Ready(sps, pps))
    <2>1. Pictured(m_current, TRUE) = <<>>
      BY <1>6 DEF Pictured, Sendable
    <2>2. todo' = <<>> \/ \E c \in Complete : todo' = <<Store(c)>>
      BY <1>1, <1>4, <2>1, ShortJoins
    <2>3. \A i \in DOMAIN todo' : todo'[i].do = "store"
      BY <2>2, StepFields
    <2> QED
      BY <1>1, <1>3, <2>3 DEF ConfigInv
  <1> QED
    BY <1>5, <1>6

\* Any other unit: a picture that is completed is announced before it, or was.
LEMMA PictureNalConfig ==
    ASSUME MinGop # 1, Assembly, TagInv, ConfigInv, NEW n \in Nals, PictureNal(n)
    PROVE  ConfigInv'
  <1> DEFINE au == Push(n).completed
  <1>1. /\ todo = <<>> /\ told' = told /\ sps' = sps /\ pps' = pps
        /\ todo' = (IF Sendable(au) THEN Announce \o Pictured(au, TRUE) ELSE <<>>)
        /\ config_dirty' = (config_dirty /\ ~Sendable(au))
        /\ n.type \in {"aud", "sei", "first", "next"} /\ Encode(n)
        /\ m_current' = Push(n).current
    BY PictureNalMeans DEF PictureNal, out, Types
  <1>2. Assembly' /\ Completes(au)
    BY PictureNalKeeps
  <1>3. Announced = told
    BY <1>1, SaysNothing DEF Announced
  <1>4. ~enc'.delimits /\ config_dirty' =>
             \/ enc'.since = 0 /\ m_current' = <<>>
             \/ enc'.since = 1 /\ m_current' # <<>> /\ enc'.stage \notin {"sps", "pps"}
    <2> SUFFICES ASSUME ~enc'.delimits, config_dirty'
                 PROVE  \/ enc'.since = 0 /\ m_current' = <<>>
                        \/ enc'.since = 1 /\ m_current' # <<>> /\ enc'.stage \notin {"sps", "pps"}
      OBVIOUS
    <2>1. config_dirty /\ ~Sendable(au)
      BY <1>1
    <2>2. CASE n.type = "aud"
      BY <1>1, <2>2, EncodesAud DEF Assembly, Same
    <2>3. CASE n.type = "sei"
      <3>1. Same(enc', enc) /\ enc'.since = enc.since /\ enc'.stage = "sei"
        BY <1>1, <2>3, EncodesSei DEF Assembly
      <3>2. m_current' = m_current
        BY <1>1, <2>3 DEF Push, Keeps, IsVcl
      <3> QED
        BY <2>1, <3>1, <3>2 DEF ConfigInv, Same
    <2>4. CASE n.type = "first"
      <3>1. /\ enc'.delimits = enc.delimits /\ enc'.stage = "free"
            /\ enc'.since = (IF enc.since < MinGop THEN enc.since + 1 ELSE enc.since)
            /\ enc.stage \in {IF enc.delimits THEN "aud" ELSE "free", "pps", "sei"}
        BY <1>1, <2>4, EncodesFirst DEF Assembly
      <3>2. au = m_current /\ m_current' # <<>>
        <4>1. /\ Push(n).completed = m_current /\ Push(n).current = Append(m_pending_non_vcl, n)
          BY <2>4 DEF Push, Keeps, IsVcl, Begin, Assembly, CurrentInv
        <4>2. Append(m_pending_non_vcl, n) # <<>>
          BY Appended DEF Assembly, PendingInv
        <4> QED
          BY <1>1, <4>1, <4>2
      <3>3. Ready(sps, pps)
        BY <2>1, <3>1 DEF Assembly, SetsInv, Ready
      <3>4. m_current = <<>> /\ enc.since = 0
        BY <2>1, <3>1, <3>2, <3>3 DEF Sendable, ConfigInv
      <3> QED
        BY <3>1, <3>2, <3>4, FeedAssumption
    <2>5. CASE n.type = "next"
      <3>1. /\ enc'.delimits = enc.delimits /\ enc'.since = enc.since /\ enc'.stage = enc.stage
            /\ enc.left = 1
        BY <1>1, <2>5, EncodesNext DEF Assembly
      <3>2. m_current # <<>> /\ m_current \in Seq(Nals) /\ m_has_vcl = (m_current # <<>>)
        BY <3>1 DEF Assembly, CurrentInv
      <3>3. m_has_vcl
        BY <3>2
      <3>4. Push(n).current = Append(m_current, n)
        BY <2>5, <3>3 DEF Push, Keeps, IsVcl, Begin
      <3>5. m_current' # <<>>
        BY <1>1, <3>2, <3>4, Appended
      <3> QED
        BY <2>1, <3>1, <3>2, <3>5 DEF ConfigInv
    <2> QED
      BY <1>1, <2>2, <2>3, <2>4, <2>5
  <1>5. CASE Sendable(au)
    <2>1. au = m_current /\ m_current # <<>> /\ Ready(sps, pps) /\ config_dirty' = FALSE
      BY <1>1, <1>2, <1>5 DEF Sendable, Completes
    <2>2. enc.stage # "sps"
      BY <2>1 DEF Assembly, CurrentInv
    <2>3. enc.cfg # 0 /\ sps = enc.cfg /\ pps = enc.cfg
      BY <2>1, <2>2 DEF Assembly, SetsInv, Ready
    <2>4. PICK tag : tag = VideoTag(m_current, TRUE)
      OBVIOUS
    <2>5. ConfigOf(tag) = <<sps, pps>>
      BY <2>1, <2>3, <2>4, CurrentIsAPicture DEF VideoTag, Assembly, ConfigOf
    <2>6. Pictured(au, TRUE) = <<Video(tag)>>
      BY <1>5, <2>1, <2>4 DEF Pictured, Video
    <2>7. CASE config_dirty
      <3>1. PICK c : c = <<sps, pps>>
        OBVIOUS
      <3>2. Announce = <<Store(c), Config(c)>>
        BY <2>7, <3>1 DEF Announce, Store, Config
      <3>3. todo' = <<Store(c), Config(c), Video(tag)>>
        BY <1>1, <1>5, <2>6, <3>2, ShortJoins
      <3>4. Announced' = <<sps, pps>>
        <4>1. Store(c).do = "store" /\ Config(c).config = c
          BY StepFields
        <4> QED
          BY <3>1, <3>3, <4>1, SaysThree DEF Announced
      <3>5. \A i \in DOMAIN todo' : todo'[i] = Video(tag) \/ todo'[i] = Store(c) \/ todo'[i] = Config(c)
        BY <3>3
      <3>6. \A i \in DOMAIN todo' : todo'[i].do = "video" => todo'[i].tag = tag
        BY <3>5, StepFields
      <3> QED
        BY <1>1, <1>4, <2>1, <2>5, <3>4, <3>6 DEF ConfigInv
    <2>8. CASE ~config_dirty
      <3>1. todo' = <<Video(tag)>>
        BY <1>1, <1>5, <2>6, <2>8, ShortJoins DEF Announce
      <3>2. Announced' = told /\ told = <<sps, pps>>
        <4>0. Video(tag).do = "video"
          BY StepFields
        <4>1. Announced' = told
          BY <1>1, <3>1, <4>0, SaysOne DEF Announced
        <4> QED
          BY <1>3, <2>1, <2>8, <4>1 DEF ConfigInv
      <3>3. \A i \in DOMAIN todo' : todo'[i].tag = tag
        BY <3>1, StepFields
      <3> QED
        BY <1>1, <1>4, <2>1, <2>5, <3>2, <3>3 DEF ConfigInv
    <2> QED
      BY <2>7, <2>8
  <1>6. CASE ~Sendable(au)
    <2>0. DOMAIN <<>> = {}
      OBVIOUS
    <2>a. config_dirty' <=> config_dirty
      BY <1>1, <1>6
    <2>1. todo' = <<>> /\ DOMAIN <<>> = {} /\ (config_dirty' <=> config_dirty)
      BY <1>1, <1>6, <2>0, <2>a
    <2>2. Announced' = told
      BY <1>1, <2>1, SaysNothing DEF Announced
    <2>3. ~config_dirty' /\ Ready(sps', pps') => Announced' = <<sps', pps'>>
      BY <1>1, <1>3, <2>1, <2>2 DEF ConfigInv
    <2> QED
      BY <1>4, <2>1, <2>3 DEF ConfigInv
  <1> QED
    BY <1>5, <1>6

LEMMA ReopenConfig ==
    ASSUME Assembly, NEW cfg \in 0 .. enc.cfg, NEW fails \in BOOLEAN, Reopen(cfg, fails)
    PROVE  ConfigInv'
  <1>1. /\ config_dirty' = FALSE /\ sps' = 0
        /\ todo' = Pictured(m_current, FALSE)
                   \o (IF fails THEN <<Step("withdraw", <<0, 0>>, NoTag)>> ELSE <<>>)
    BY DEF Reopen
  <1>2. PICK tag : tag = VideoTag(m_current, FALSE)
    OBVIOUS
  <1>3. Pictured(m_current, FALSE) \in {<<>>, <<Video(tag)>>}
    BY <1>2 DEF Pictured, Video
  <1>4. todo' \in {<<>>, <<Withdraw>>, <<Video(tag)>>, <<Video(tag), Withdraw>>}
    BY <1>1, <1>3, ShortJoins DEF Withdraw
  <1>5. \A i \in DOMAIN todo' : todo'[i] = Video(tag) \/ todo'[i] = Withdraw
    BY <1>4
  <1>6. Video(tag).tag.whole = FALSE /\ Withdraw.do = "withdraw"
    BY <1>2, StepFields DEF VideoTag
  <1> QED
    BY <1>1, <1>5, <1>6 DEF ConfigInv, Ready

LEMMA PlanConfig ==
    ASSUME Assembly, TagInv, ConfigInv, StoreConfig \/ WithdrawStream \/ BroadcastDone
    PROVE  ConfigInv'
  <1>1. /\ UNCHANGED <<enc, m_current, sps, pps, config_dirty>> /\ todo # <<>> /\ todo' = Tail(todo)
        /\ \/ Head(todo).do = "config" /\ told' = Head(todo).config
           \/ Head(todo).do \in {"store", "withdraw", "video"} /\ told' = told
    BY DEF StoreConfig, WithdrawStream, BroadcastDone, Does, out, loop, assembler, muxer
  <1>2. told' = Told(todo, told)
    BY <1>1 DEF Told
  <1>3. Goes(todo, told)
    BY <1>1, HasPlanAlways, PlansGoOn
  <1>4. Announced' = Announced
    BY <1>1, <1>2, <1>3 DEF Goes, Announced
  <1>5. \A i \in DOMAIN todo' : \E j \in DOMAIN todo : todo'[i] = todo[j]
    BY <1>1, <1>3 DEF Goes
  <1> QED
    BY <1>1, <1>4, <1>5 DEF ConfigInv

LEMMA ConfigInvStep ==
    ASSUME MinGop # 1, FeedInv, ConfigInv, FeedStep \/ UNCHANGED feedVars
    PROVE  ConfigInv'
  <1>0. Assembly /\ TagInv
    BY DEF FeedInv, Assembly
  <1>1. ASSUME NEW n \in Nals, ParameterSet(n) \/ PictureNal(n) PROVE ConfigInv'
    BY <1>0, <1>1, ParameterSetConfig, PictureNalConfig
  <1>2. ASSUME NEW cfg \in 0 .. enc.cfg, NEW fails \in BOOLEAN, Reopen(cfg, fails) PROVE ConfigInv'
    BY <1>0, <1>2, ReopenConfig
  <1>3. CASE StoreConfig \/ WithdrawStream \/ BroadcastDone
    BY <1>0, <1>3, PlanConfig
  <1>4. CASE UNCHANGED feedVars
    BY <1>4 DEF feedVars, loop, assembler, muxer, out, ConfigInv, Announced
  <1> QED
    BY <1>1, <1>2, <1>3, <1>4 DEF FeedStep, LoopNext

\* A whole picture is sent when its configuration is the last one announced.
LEMMA PictureIsAnnounced ==
    ASSUME FeedInv, ConfigInv, todo # <<>>, Head(todo).do = "video", Head(todo).tag.whole
    PROVE  told = ConfigOf(Head(todo).tag)
  <1>1. Goes(todo, told)
    BY HasPlanAlways, PlansGoOn DEF FeedInv
  <1>2. PICK j \in DOMAIN todo : Head(todo) = todo[j]
    BY <1>1 DEF Goes
  <1>3. Announced = ConfigOf(Head(todo).tag)
    BY <1>2 DEF ConfigInv
  <1>4. Announced = told
    BY <1>1 DEF Goes, Announced
  <1> QED
    BY <1>3, <1>4

LEMMA InvMeansConfigFirst ==
    ASSUME FeedInv, ConfigInv, FeedStep \/ UNCHANGED feedVars, sent' # sent, sent'.whole
    PROVE  told = <<sent'.nals[1].cfg, sent'.nals[1].cfg>>
  <1>1. Head(todo) = Video(sent') /\ BroadcastDone
    BY SentByBroadcast
  <1>2. todo # <<>>
    BY <1>1 DEF BroadcastDone, Does
  <1>3. Head(todo).do = "video" /\ Head(todo).tag = sent'
    BY <1>1, StepFields
  <1> QED
    BY <1>2, <1>3, PictureIsAnnounced DEF ConfigOf

-----------------------------------------------------------------------------
(* The inductive invariant of the clients.                                 *)

Classes == {"http", "config", "key", "inter"}
Packets == {p \in [class : Classes, config : Configs, ts : 0 .. MaxPictures] : ~IsPicture(p) => p.ts = 0}
Givens == [config : Configs, ts : 0 .. MaxPictures]

ClientTypes ==
    /\ audience \subseteq Clients
    /\ worker \in [Clients -> {"none", "take", "enqueue", "add", "done"}]
    /\ m_sockfd \in [Clients -> {"open", "closing", "closed"}]
    /\ m_send_queue \in [Clients -> Seq(Packets)]
    /\ m_wait_flv_key_frame \in [Clients -> BOOLEAN]
    /\ held \in [Clients -> Configs]
    /\ given \in [Clients -> Givens]
    /\ torn \in [Clients -> BOOLEAN]

QueueInv ==
    \A c \in Clients :
        Len(m_send_queue[c]) <= FlvDepth /\ (m_sockfd[c] # "open" => m_send_queue[c] = <<>>)

\* A client that is admitted and still there is in the list, and nobody is in
\* the list, or in a snapshot of it, who is not admitted.
On(list, c) == \E i \in DOMAIN list : list[i] = c
Listed(c) == On(m_flv_clients, c)
InLine(c) == On(clients, c)
Broadcasting == todo # <<>> /\ Head(todo).do \in {"config", "video"}
ListInv ==
    /\ m_flv_clients \in Seq(Clients) /\ IsInjective(m_flv_clients)
    /\ clients \in Seq(Clients) /\ IsInjective(clients)
    /\ serving \in BOOLEAN /\ (serving => Broadcasting)
    /\ \A c \in Clients : /\ Listed(c) \/ InLine(c) => worker[c] = "done"
                          /\ worker[c] = "done" /\ m_sockfd[c] = "open" => Listed(c)

ClientInv == ClientTypes /\ QueueInv /\ ListInv

\* The tag that was last offered to c: the one under way, or the one before.
Offered(c) == IF serving /\ Head(todo).do = "video" /\ ~InLine(c) THEN Head(todo).tag ELSE sent

\* A client that does not wait for a key frame has, or will have, the last
\* picture that was offered.
UpToDate(c) ==
    m_sockfd[c] = "open" /\ worker[c] \in {"add", "done"} /\ ~m_wait_flv_key_frame[c] =>
        /\ worker[c] = "done" /\ Offered(c) # NoTag
        /\ LastPicture(c, m_send_queue[c]) = Offered(c).ts + 1
RunInv == \A c \in Clients : UpToDate(c)

\* No announcement comes before the next whole picture.
Plans(q, what) == \E i \in DOMAIN q : q[i].do = what
PlansWhole(q) == \E i \in DOMAIN q : q[i].do = "video" /\ q[i].tag.whole
Settled == ~Plans(todo, "config") /\ ((~config_dirty /\ Ready(sps, pps)) \/ PlansWhole(todo))

\* Who takes the sequence header then takes what was announced.
MuxerInv ==
    /\ Settled => m_flv_muxer = told
    /\ todo # <<>> /\ Head(todo).do = "config" => m_flv_muxer = Head(todo).config
    /\ Plans(todo, "store") /\ ~Plans(todo, "config") => config_dirty

Holds(c) ==
    /\ worker[c] \in {"enqueue", "add"} => Ready(held[c][1], held[c][2])
    /\ worker[c] = "add" /\ m_sockfd[c] = "open" => ConfigAhead(c) = held[c]
HeldInv == \A c \in Clients : Holds(c)

\* And a client that nothing passed by has it, or will have it.
Has(c) == IF worker[c] = "enqueue" THEN held[c] ELSE ConfigAhead(c)
Reached(c) ==
    m_sockfd[c] = "open" /\ worker[c] \in {"enqueue", "add", "done"} /\ ~torn[c] =>
        /\ Settled => Has(c) = told
        /\ serving /\ Head(todo).do = "config" /\ ~InLine(c) => Has(c) = Head(todo).config
ReachInv == \A c \in Clients : Reached(c)

-----------------------------------------------------------------------------
(* The last packet of a kind, and lists of clients.                        *)

\* The last packet of q that is in T, d if there is none: what LastPicture
\* and ConfigAhead look for.
Marked(q, T) == {i \in DOMAIN q : q[i] \in T}
Latest(q, T, d) == IF Marked(q, T) = {} THEN d ELSE q[Max(Marked(q, T))]

LEMMA MaxIs ==
    ASSUME NEW S \in SUBSET Nat, NEW x \in S, \A y \in S : x >= y
    PROVE  Max(S) = x
  <1>1. Max(S) \in S /\ \A y \in S : Max(S) >= y
    BY DEF Max
  <1>2. Max(S) \in Nat /\ x \in Nat /\ Max(S) >= x /\ x >= Max(S)
    BY <1>1
  <1> QED
    BY <1>2

Smaller == {ss \in Nat \X Nat : ss[1] < ss[2]}

LEMMA MaxExists ==
    ASSUME NEW n \in Nat, NEW S \in SUBSET (1 .. n), S # {}
    PROVE  Max(S) \in S /\ \A y \in S : Max(S) >= y
  <1> DEFINE D == {n - i : i \in S}
  <1>0. \A i \in S : i \in Nat /\ n - i \in Nat
    OBVIOUS
  <1>1. D \in SUBSET Nat /\ D # {}
    BY <1>0
  <1>a. Smaller = OpToRel(<, Nat)
    BY DEF Smaller, OpToRel
  <1>b. IsWellFoundedOn(Smaller, Nat)
    BY <1>a, NatLessThanWellFounded
  <1>2. PICK m \in D : \A d \in D : ~(<<d, m>> \in Smaller)
    <2> HIDE DEF D
    <2> QED
      BY <1>1, <1>b, WFMin
  <1>3. \A d \in D : m <= d
    <2> TAKE d \in D
    <2>1. m \in Nat /\ d \in Nat /\ ~(d < m)
      BY <1>1, <1>2 DEF Smaller
    <2> QED
      BY <2>1
  <1>4. PICK x \in S : m = n - x
    OBVIOUS
  <1>5. \A y \in S : x >= y
    <2> TAKE y \in S
    <2>1. m <= n - y
      BY <1>3
    <2> QED
      BY <1>4, <2>1
  <1> QED
    BY <1>4, <1>5 DEF Max

LEMMA LatestIs ==
    ASSUME NEW S, NEW T, NEW q \in Seq(S), NEW d
    PROVE  \/ Marked(q, T) = {} /\ Latest(q, T, d) = d
           \/ \E i \in DOMAIN q : /\ q[i] \in T /\ Latest(q, T, d) = q[i]
                                  /\ \A j \in DOMAIN q : q[j] \in T => i >= j
  <1>1. Len(q) \in Nat /\ DOMAIN q = 1 .. Len(q)
    BY EmptyOrNot
  <1>2. CASE Marked(q, T) # {}
    <2>1. Marked(q, T) \in SUBSET (1 .. Len(q))
      BY <1>1 DEF Marked
    <2>2. Max(Marked(q, T)) \in Marked(q, T) /\ \A j \in Marked(q, T) : Max(Marked(q, T)) >= j
      BY <1>1, <1>2, <2>1, MaxExists
    <2> QED
      BY <1>2, <2>2 DEF Marked, Latest
  <1> QED
    BY <1>2 DEF Latest

LEMMA LatestAt ==
    ASSUME NEW S, NEW T, NEW q \in Seq(S), NEW d, NEW i \in DOMAIN q, q[i] \in T,
           \A j \in DOMAIN q : q[j] \in T => i >= j
    PROVE  Latest(q, T, d) = q[i]
  <1>1. Marked(q, T) \in SUBSET Nat /\ i \in Marked(q, T)
    BY EmptyOrNot DEF Marked
  <1>2. Max(Marked(q, T)) = i
    BY <1>1, MaxIs DEF Marked
  <1> QED
    BY <1>1, <1>2 DEF Latest

LEMMA LatestAppend ==
    ASSUME NEW S, NEW T, NEW q \in Seq(S), NEW p \in S, NEW d
    PROVE  Latest(Append(q, p), T, d) = (IF p \in T THEN p ELSE Latest(q, T, d))
  <1> DEFINE r == Append(q, p)
  <1>1. /\ r \in Seq(S) /\ DOMAIN r = DOMAIN q \cup {Len(q) + 1} /\ Len(q) + 1 \notin DOMAIN q
        /\ (\A i \in DOMAIN q : r[i] = q[i]) /\ r[Len(q) + 1] = p
        /\ Len(q) \in Nat /\ DOMAIN q = 1 .. Len(q)
    BY Appended, EmptyOrNot
  <1> HIDE DEF r
  <1>2. CASE p \in T
    <2>1. Latest(r, T, d) = r[Len(q) + 1]
      BY <1>1, <1>2, LatestAt
    <2> QED
      BY <1>1, <1>2, <2>1 DEF r
  <1>3. CASE p \notin T
    <2>1. CASE Marked(q, T) = {}
      <3>1. Marked(r, T) = {}
        BY <1>1, <1>3, <2>1 DEF Marked
      <3> QED
        BY <1>3, <2>1, <3>1 DEF Latest, r
    <2>2. CASE Marked(q, T) # {}
      <3>1. PICK i \in DOMAIN q : /\ q[i] \in T /\ Latest(q, T, d) = q[i]
                                  /\ \A j \in DOMAIN q : q[j] \in T => i >= j
        BY <2>2, LatestIs
      <3>2. i \in DOMAIN r /\ r[i] = q[i] /\ \A j \in DOMAIN r : r[j] \in T => i >= j
        BY <1>1, <1>3, <3>1
      <3>3. Latest(r, T, d) = r[i]
        BY <1>1, <3>1, <3>2, LatestAt
      <3> QED
        BY <1>3, <3>1, <3>2, <3>3 DEF r
    <2> QED
      BY <2>1, <2>2
  <1> QED
    BY <1>2, <1>3

LEMMA LatestTail ==
    ASSUME NEW S, NEW T, NEW q \in Seq(S), q # <<>>, NEW d
    PROVE  Latest(q, T, d) = Latest(Tail(q), T, IF Head(q) \in T THEN Head(q) ELSE d)
  <1> DEFINE r == Tail(q)
             e == IF Head(q) \in T THEN Head(q) ELSE d
  <1>1. /\ r \in Seq(S) /\ Len(r) = Len(q) - 1 /\ Len(q) \in Nat \ {0} /\ Head(q) = q[1]
        /\ DOMAIN q = 1 .. Len(q) /\ DOMAIN r = 1 .. Len(q) - 1
        /\ \A i \in 1 .. Len(q) - 1 : r[i] = q[i + 1]
    BY HeadTailProperties, EmptyOrNot
  <1> HIDE DEF r
  <1>2. CASE Marked(r, T) # {}
    <2>1. PICK i \in DOMAIN r : /\ r[i] \in T /\ Latest(r, T, e) = r[i]
                                /\ \A j \in DOMAIN r : r[j] \in T => i >= j
      BY <1>1, <1>2, LatestIs
    <2>2. i + 1 \in DOMAIN q /\ q[i + 1] = r[i]
      BY <1>1, <2>1
    <2>3. ASSUME NEW j \in DOMAIN q, q[j] \in T PROVE i + 1 >= j
      <3>1. CASE j = 1
        BY <1>1, <2>1, <3>1
      <3>2. CASE j # 1
        <4>1. j - 1 \in DOMAIN r /\ r[j - 1] = q[j]
          BY <1>1, <3>2
        <4>2. i >= j - 1
          BY <2>1, <2>3, <4>1
        <4> QED
          BY <1>1, <2>1, <4>2
      <3> QED
        BY <3>1, <3>2
    <2>4. Latest(q, T, d) = q[i + 1]
      BY <2>1, <2>2, <2>3, LatestAt
    <2> QED
      BY <2>1, <2>2, <2>4 DEF r
  <1>3. CASE Marked(r, T) = {}
    <2>1. Latest(r, T, e) = e
      BY <1>3 DEF Latest
    <2>2. \A j \in DOMAIN q : q[j] \in T => j = 1
      <3> SUFFICES ASSUME NEW j \in DOMAIN q, q[j] \in T, j # 1 PROVE FALSE
        OBVIOUS
      <3>1. j - 1 \in DOMAIN r /\ r[j - 1] = q[j]
        BY <1>1
      <3> QED
        BY <1>3, <3>1 DEF Marked
    <2>3. CASE Head(q) \in T
      <3>1. Latest(q, T, d) = q[1]
        BY <1>1, <2>2, <2>3, LatestAt
      <3> QED
        BY <1>1, <2>1, <2>3, <3>1 DEF r
    <2>4. CASE Head(q) \notin T
      <3>1. Marked(q, T) = {}
        BY <1>1, <2>2, <2>4 DEF Marked
      <3> QED
        BY <2>1, <2>4, <3>1 DEF Latest, r
    <2> QED
      BY <2>3, <2>4
  <1> QED
    BY <1>2, <1>3

LEMMA TailOfList ==
    ASSUME NEW S, NEW s \in Seq(S), IsInjective(s), s # <<>>
    PROVE  /\ Head(s) \in S /\ On(s, Head(s))
           /\ Tail(s) \in Seq(S) /\ IsInjective(Tail(s))
           /\ \A x : On(Tail(s), x) <=> x # Head(s) /\ On(s, x)
  <1> DEFINE r == Tail(s)
  <1>1. /\ r \in Seq(S) /\ Len(r) = Len(s) - 1 /\ Len(s) \in Nat \ {0} /\ Head(s) = s[1] /\ Head(s) \in S
        /\ DOMAIN s = 1 .. Len(s) /\ DOMAIN r = 1 .. Len(s) - 1
        /\ \A i \in 1 .. Len(s) - 1 : r[i] = s[i + 1]
    BY HeadTailProperties, EmptyOrNot
  <1> HIDE DEF r
  <1>2. IsInjective(r)
    <2> SUFFICES ASSUME NEW a \in DOMAIN r, NEW b \in DOMAIN r, r[a] = r[b] PROVE a = b
      BY DEF IsInjective
    <2>1. a + 1 \in DOMAIN s /\ b + 1 \in DOMAIN s /\ s[a + 1] = s[b + 1]
      BY <1>1
    <2>2. a + 1 = b + 1
      BY <2>1 DEF IsInjective
    <2> QED
      BY <1>1, <2>2
  <1>3. ASSUME NEW x, On(r, x) PROVE x # Head(s) /\ On(s, x)
    <2>1. PICK i \in DOMAIN r : r[i] = x
      BY <1>3 DEF On
    <2>2. i + 1 \in DOMAIN s /\ s[i + 1] = x /\ i + 1 # 1 /\ 1 \in DOMAIN s
      BY <1>1, <2>1
    <2>3. s[i + 1] # s[1]
      BY <2>2 DEF IsInjective
    <2> QED
      BY <1>1, <2>2, <2>3 DEF On
  <1>4. ASSUME NEW x, x # Head(s), On(s, x) PROVE On(r, x)
    <2>1. PICK i \in DOMAIN s : s[i] = x
      BY <1>4 DEF On
    <2>2. i - 1 \in DOMAIN r /\ r[i - 1] = x
      BY <1>1, <1>4, <2>1
    <2> QED
      BY <2>2 DEF On
  <1>5. On(s, Head(s))
    <2>1. 1 \in DOMAIN s /\ s[1] = Head(s)
      BY <1>1
    <2> QED
      BY <2>1 DEF On
  <1>6. \A x : On(r, x) <=> x # Head(s) /\ On(s, x)
    BY <1>3, <1>4
  <1> QED
    BY <1>1, <1>2, <1>5, <1>6 DEF r

LEMMA AppendToList ==
    ASSUME NEW S, NEW s \in Seq(S), IsInjective(s), NEW e \in S, ~On(s, e)
    PROVE  /\ Append(s, e) \in Seq(S) /\ IsInjective(Append(s, e))
           /\ \A x : On(Append(s, e), x) <=> x = e \/ On(s, x)
  <1> DEFINE r == Append(s, e)
  <1>1. /\ r \in Seq(S) /\ DOMAIN r = DOMAIN s \cup {Len(s) + 1} /\ Len(s) + 1 \notin DOMAIN s
        /\ (\A i \in DOMAIN s : r[i] = s[i]) /\ r[Len(s) + 1] = e
    BY Appended
  <1> HIDE DEF r
  <1>2. IsInjective(r)
    BY <1>1 DEF IsInjective, On
  <1>3. \A x : On(r, x) <=> x = e \/ On(s, x)
    BY <1>1 DEF On
  <1> QED
    BY <1>1, <1>2, <1>3 DEF r

\* Arithmetic of the places behind a removed element.
LEMMA Places ==
    /\ \A x \in Nat : x \in Int /\ x + 1 \in Int
    /\ \A x \in Nat, y \in Int : (x + 1) + y - 1 = x + y
    /\ \A x, n \in Nat : \A y \in 1 .. n - x : y \in Int
  OBVIOUS

LEMMA RemoveFromList ==
    ASSUME NEW S, NEW s \in Seq(S), IsInjective(s), NEW e
    PROVE  /\ RemoveFirst(s, e) \in Seq(S) /\ IsInjective(RemoveFirst(s, e))
           /\ \A x : On(RemoveFirst(s, e), x) <=> x # e /\ On(s, x)
  <1>0. Len(s) \in Nat /\ DOMAIN s = 1 .. Len(s) /\ \A i \in DOMAIN s : s[i] \in S
    BY EmptyOrNot, ElementOfSeq
  <1>1. CASE ~On(s, e)
    BY <1>0, <1>1 DEF RemoveFirst, On
  <1>2. CASE On(s, e)
    <2>1. PICK k \in 1 .. Len(s) : s[k] = e
      BY <1>0, <1>2 DEF On
    <2>2. \A i \in 1 .. Len(s) : s[i] = e <=> i = k
      BY <1>0, <2>1 DEF IsInjective
    <2>3. SelectInSeq(s, LAMBDA v : v = e) = k
      <3>1. {i \in 1 .. Len(s) : s[i] = e} = {k}
        BY <2>2
      <3>2. Min({k}) = k
        BY <2>1 DEF Min
      <3> QED
        BY <3>1, <3>2 DEF SelectInSeq
    <2>0. k \in Nat /\ Len(s) \in Nat /\ k <= Len(s)
      BY <1>0, <2>1
    <2> DEFINE a == SubSeq(s, 1, k - 1)
               b == SubSeq(s, k + 1, Len(s))
               r == a \o b
    <2>4. RemoveFirst(s, e) = r
      BY <2>1, <2>3 DEF RemoveFirst, RemoveAt
    <2>5. /\ a \in Seq(S) /\ Len(a) = k - 1 /\ \A i \in 1 .. k - 1 : a[i] = s[i]
      BY <1>0, <2>1, SubSeqProperties
    <2>6. /\ b \in Seq(S) /\ Len(b) = Len(s) - k /\ \A i \in 1 .. Len(s) - k : b[i] = s[k + i]
      <3>1. \A i \in k + 1 .. Len(s) : s[i] \in S
        BY <1>0, <2>1
      <3>2. /\ b \in Seq(S) /\ Len(b) = (IF k + 1 <= Len(s) THEN Len(s) - (k + 1) + 1 ELSE 0)
            /\ \A i \in 1 .. Len(s) - (k + 1) + 1 : b[i] = s[(k + 1) + i - 1]
        <4>1. k + 1 \in Int /\ Len(s) \in Int
          BY <2>0, Places, Zenon
        <4> QED
          BY <3>1, <4>1, SubSeqProperties
      <3> HIDE DEF b
      <3>3. Len(s) - (k + 1) + 1 = Len(s) - k /\ Len(b) = Len(s) - k
        <4>1. k \in Nat /\ Len(s) - (k + 1) + 1 = Len(s) - k
          BY <2>0
        <4>2. CASE k + 1 <= Len(s)
          BY <3>2, <4>1, <4>2
        <4>3. CASE ~(k + 1 <= Len(s))
          <5>a. Len(s) \in Nat /\ k \in Nat /\ k <= Len(s)
            BY <1>0, <2>1
          <5> DEFINE n == Len(s)
          <5> HIDE DEF n
          <5>1. n = k
            <6>1. n \in Nat /\ k \in Nat /\ k <= n /\ ~(k + 1 <= n)
              BY <4>3, <5>a DEF n
            <6> QED
              BY <6>1
          <5> USE DEF n
          <5> QED
            BY <3>2, <4>1, <4>3, <5>1
        <4> QED
          BY <4>1, <4>2, <4>3
      <3>4. ASSUME NEW i \in 1 .. Len(s) - k PROVE b[i] = s[k + i]
        <4>1. (k + 1) + i - 1 = k + i
          <5>1. k \in Nat /\ i \in Int
            BY <2>0, Places, Zenon
          <5> QED
            BY <5>1, Places, Zenon
        <4>2. b[i] = s[(k + 1) + i - 1]
          BY <3>2, <3>3
        <4> QED
          BY <4>1, <4>2
      <3> QED
        BY <3>2, <3>3, <3>4
    <2> HIDE DEF a, b
    <2>7. /\ r \in Seq(S) /\ Len(r) = Len(s) - 1
          /\ \A i \in 1 .. Len(s) - 1 : r[i] = IF i < k THEN s[i] ELSE s[i + 1]
      <3>1. /\ r \in Seq(S) /\ Len(r) = Len(a) + Len(b)
            /\ \A i \in 1 .. Len(a) + Len(b) : r[i] = IF i <= Len(a) THEN a[i] ELSE b[i - Len(a)]
        BY <2>5, <2>6, ConcatProperties
      <3> HIDE DEF r
      <3>2. Len(r) = Len(s) - 1 /\ Len(a) + Len(b) = Len(s) - 1 /\ Len(a) = k - 1
        BY <1>0, <2>1, <2>5, <2>6, <3>1
      <3>a. \A i \in 1 .. Len(s) - 1 : r[i] = IF i <= k - 1 THEN a[i] ELSE b[i - (k - 1)]
        BY <3>1, <3>2
      <3>3. ASSUME NEW i \in 1 .. Len(s) - 1 PROVE r[i] = IF i < k THEN s[i] ELSE s[i + 1]
        <4>1. CASE i < k
          <5>1. i \in 1 .. k - 1 /\ i <= k - 1
            BY <2>1, <4>1
          <5> QED
            BY <2>5, <3>a, <4>1, <5>1
        <4>2. CASE ~(i < k)
          <5>1. i - (k - 1) \in 1 .. Len(s) - k /\ k + (i - (k - 1)) = i + 1
            BY <1>0, <2>1, <4>2
          <5>2. r[i] = b[i - (k - 1)]
            <6>1. ~(i <= k - 1)
              BY <2>1, <4>2
            <6> QED
              BY <3>a, <6>1
          <5> QED
            BY <2>6, <4>2, <5>1, <5>2
        <4> QED
          BY <4>1, <4>2
      <3> QED
        BY <3>1, <3>2, <3>3
    <2> HIDE DEF r
    <2>8. DOMAIN r = 1 .. Len(s) - 1
      BY <2>7, EmptyOrNot
    <2>9. IsInjective(r)
      <3> SUFFICES ASSUME NEW x \in DOMAIN r, NEW y \in DOMAIN r, r[x] = r[y] PROVE x = y
        BY DEF IsInjective
      <3> DEFINE f(i) == IF i < k THEN i ELSE i + 1
      <3>1. f(x) \in DOMAIN s /\ f(y) \in DOMAIN s /\ r[x] = s[f(x)] /\ r[y] = s[f(y)]
        BY <1>0, <2>1, <2>7, <2>8
      <3>2. f(x) = f(y)
        BY <3>1 DEF IsInjective
      <3> QED
        BY <1>0, <2>1, <2>8, <3>2
    <2>10. ASSUME NEW x, On(r, x) PROVE x # e /\ On(s, x)
      <3>1. PICK i \in DOMAIN r : r[i] = x
        BY <2>10 DEF On
      <3>2. PICK j \in 1 .. Len(s) : s[j] = x /\ j # k
        BY <1>0, <2>1, <2>7, <2>8, <3>1
      <3> QED
        BY <1>0, <2>2, <3>2 DEF On
    <2>11. ASSUME NEW x, x # e, On(s, x) PROVE On(r, x)
      <3>1. PICK j \in 1 .. Len(s) : s[j] = x
        BY <1>0, <2>11 DEF On
      <3>2. j # k
        BY <2>1, <2>11, <3>1
      <3>3. PICK i \in 1 .. Len(s) - 1 : (IF i < k THEN i ELSE i + 1) = j
        <4>1. CASE j < k
          BY <1>0, <2>1, <4>1
        <4>2. CASE j > k
          <5>1. j - 1 \in 1 .. Len(s) - 1 /\ ~(j - 1 < k) /\ (j - 1) + 1 = j
            BY <1>0, <2>1, <4>2
          <5> QED
            BY <5>1
        <4> QED
          BY <1>0, <2>1, <3>1, <3>2, <4>1, <4>2
      <3>4. r[i] = x
        BY <2>7, <3>1, <3>3
      <3> QED
        BY <2>8, <3>4 DEF On
    <2> QED
      BY <2>4, <2>7, <2>9, <2>10, <2>11
  <1> QED
    BY <1>1, <1>2

-----------------------------------------------------------------------------
(* The packet that is broadcast, and what a queue does with it.            *)

LEMMA ConfigsOf ==
    /\ <<0, 0>> \in Configs /\ Complete \subseteq Configs /\ <<0, 0>> \notin Complete
    /\ 0 \in 0 .. MaxPictures /\ MaxPictures \in Nat
    /\ \A c \in Configs : Ready(c[1], c[2]) => c \in Complete /\ c # <<0, 0>>
  BY FeedAssumption DEF Configs, Complete, Ready

LEMMA PacketFields ==
    ASSUME NEW k, NEW c, NEW t
    PROVE  Packet(k, c, t).class = k /\ Packet(k, c, t).config = c /\ Packet(k, c, t).ts = t
  BY DEF Packet

LEMMA PacketTyped ==
    ASSUME NEW k \in Classes, NEW c \in Configs, NEW t \in 0 .. MaxPictures,
           k \notin {"key", "inter"} => t = 0
    PROVE  Packet(k, c, t) \in Packets
  BY DEF Packet, Packets, IsPicture

\* What a broadcast sends, as the plan of the loop has it.
Announcement(c) ==
    /\ Head(todo).do = "config" /\ Head(todo).config = c /\ c \in Complete
    /\ PacketOf(Head(todo)) = Packet("config", c, 0)
Picture(tag) ==
    /\ Head(todo).do = "video" /\ Head(todo).tag = tag /\ Behind(sent, tag) /\ tag # NoTag
    /\ tag.ts \in Nat /\ tag.ts + 1 \in 0 .. MaxPictures
    /\ tag.nals[1].cfg \in 0 .. MaxConfigs
    /\ \E k \in {"key", "inter"} : PacketOf(Head(todo)) = Packet(k, ConfigOf(tag), tag.ts + 1)

LEMMA BroadcastPacket ==
    ASSUME FeedInv, Broadcasting
    PROVE  (\E c \in Complete : Announcement(c)) \/ (\E tag : Picture(tag))
  <1>1. todo # <<>> /\ Head(todo).do \in {"config", "video"}
    BY DEF Broadcasting
  <1>2. ~Plain(todo)
    <2>1. ASSUME Plain(todo) PROVE Head(todo) = Withdraw \/ \E c \in Complete : Head(todo) = Store(c)
      BY <1>1, <2>1, PlainGoesOn
    <2> QED
      BY <1>1, <2>1, StepFields
  <1>3. PICK tag : Plan(todo, tag) /\ Newest(tag) /\ tag.nals # <<>> /\ Behind(sent, tag)
    BY <1>2 DEF FeedInv, TagInv
  <1>4. CASE Head(todo) = Video(tag)
    <2>1. Head(todo).do = "video" /\ Head(todo).tag = tag
      BY <1>4, StepFields
    <2>2. tag # NoTag
      BY <1>3 DEF NoTag
    <2>3. OnePicture(tag.nals, tag.whole) /\ tag.ts \in Nat /\ frame_index = tag.ts + 1
      BY <1>3, <2>2 DEF Newest
    <2>4. tag.nals[1] \in Nals
      BY <2>3, EmptyOrNot DEF OnePicture
    <2>5. tag.nals[1].cfg \in 0 .. MaxConfigs
      BY <2>4 DEF Nals
    <2>6. tag.ts + 1 \in 0 .. MaxPictures
      <3>1. frame_index <= Past /\ Past <= MaxPictures /\ Past \in Nat
        BY PastIsNat DEF FeedInv, TagInv, Assembly
      <3> QED
        BY <2>3, <3>1, ConfigsOf
    <2>7. PacketOf(Head(todo)) = VideoPacket(tag)
      BY <2>1 DEF PacketOf
    <2>8. \E k \in {"key", "inter"} : PacketOf(Head(todo)) = Packet(k, ConfigOf(tag), tag.ts + 1)
      BY <2>7 DEF VideoPacket, ConfigOf
    <2> QED
      BY <1>3, <2>1, <2>2, <2>3, <2>5, <2>6, <2>8 DEF Picture
  <1>5. ASSUME NEW c \in Complete, Head(todo) \in {Store(c), Config(c)} PROVE Announcement(c)
    <2>1. Head(todo) = Config(c) /\ Head(todo).do = "config" /\ Head(todo).config = c
      BY <1>1, <1>5, StepFields
    <2> QED
      BY <2>1 DEF Announcement, PacketOf, SequenceHeader
  <1> QED
    BY <1>3, <1>4, <1>5, PlanGoesOn

LEMMA BroadcastPacketTyped ==
    ASSUME FeedInv, Broadcasting
    PROVE  PacketOf(Head(todo)) \in Packets
  <1>1. ASSUME NEW c \in Complete, Announcement(c) PROVE PacketOf(Head(todo)) \in Packets
    BY <1>1, ConfigsOf, PacketTyped DEF Announcement, Classes
  <1>2. ASSUME NEW tag, Picture(tag) PROVE PacketOf(Head(todo)) \in Packets
    <2>1. ConfigOf(tag) \in Configs
      BY <1>2 DEF Picture, ConfigOf, Configs
    <2> QED
      BY <1>2, <2>1, PacketTyped DEF Picture, Classes
  <1> QED
    BY <1>1, <1>2, BroadcastPacket

\* The four outcomes of enqueue_flv_packet().
Full(c) == Len(m_send_queue[c]) >= FlvDepth
Decodable(p) == p.class \in {"config", "key"}
LEMMA OfferMeans ==
    ASSUME NEW c \in Clients, m_wait_flv_key_frame \in [Clients -> BOOLEAN], NEW p
    PROVE  \/ /\ m_wait_flv_key_frame[c] /\ ~Decodable(p)
              /\ Offer(c, p).queue = m_send_queue[c] /\ Offer(c, p).wait = TRUE
           \/ /\ ~m_wait_flv_key_frame[c] /\ Full(c) /\ ~Decodable(p)
              /\ Offer(c, p).queue = <<>> /\ Offer(c, p).wait = TRUE
           \/ /\ Full(c) /\ Decodable(p)
              /\ Offer(c, p).queue = Append(<<>>, p) /\ Offer(c, p).wait = (p.class # "key")
           \/ /\ ~Full(c) /\ (m_wait_flv_key_frame[c] => Decodable(p))
              /\ Offer(c, p).queue = Append(m_send_queue[c], p)
              /\ Offer(c, p).wait = (m_wait_flv_key_frame[c] /\ p.class # "key")
  <1> DEFINE q == m_send_queue[c]
             w == m_wait_flv_key_frame[c]
  <1>0. w \in BOOLEAN
    OBVIOUS
  <1>1. CASE w /\ ~Decodable(p)
    <2>1. Offer(c, p).queue = q /\ Offer(c, p).wait = w
      BY <1>1 DEF Offer, Q!EnqueueFlv, Q!FlvOutcome, Q!Startable, Decodable
    <2>2. w = TRUE
      BY <1>0, <1>1
    <2> QED
      BY <1>1, <2>1, <2>2
  <1>2. CASE ~w /\ Full(c) /\ ~Decodable(p)
    <2>1. Offer(c, p).queue = <<>> /\ Offer(c, p).wait = TRUE
      BY <1>2 DEF Offer, Q!EnqueueFlv, Q!FlvOutcome, Q!Startable, Decodable, Full
    <2> QED
      BY <1>2, <2>1
  <1>3. CASE Full(c) /\ Decodable(p)
    <2>1. Offer(c, p).queue = Append(<<>>, p) /\ Offer(c, p).wait = ((w \/ TRUE) /\ p.class # "key")
      BY <1>3 DEF Offer, Q!EnqueueFlv, Q!FlvOutcome, Q!Startable, Decodable, Full
    <2> QED
      BY <1>3, <2>1
  <1>4. CASE ~Full(c) /\ (w => Decodable(p))
    <2>1. Offer(c, p).queue = Append(q, p) /\ Offer(c, p).wait = ((w \/ FALSE) /\ p.class # "key")
      BY <1>4 DEF Offer, Q!EnqueueFlv, Q!FlvOutcome, Q!Startable, Decodable, Full
    <2> QED
      BY <1>4, <2>1
  <1> QED
    BY <1>1, <1>2, <1>3, <1>4

-----------------------------------------------------------------------------
(* Types, the list and the queues, action by action.                       *)

\* Between two clients the loop waits for the broadcast to end.
LEMMA FeedWaits ==
    ASSUME ListInv, LoopNext
    PROVE  ~serving
  <1>1. ASSUME Broadcasting, NEW n, ParameterSet(n) \/ PictureNal(n) PROVE FALSE
    BY <1>1 DEF Broadcasting, ParameterSet, PictureNal
  <1>2. ASSUME Broadcasting, NEW cfg, NEW fails, Reopen(cfg, fails) PROVE FALSE
    BY <1>2 DEF Broadcasting, Reopen
  <1>3. ASSUME Broadcasting, StoreConfig \/ WithdrawStream PROVE FALSE
    BY <1>3 DEF Broadcasting, StoreConfig, WithdrawStream, Does
  <1> QED
    BY <1>1, <1>2, <1>3 DEF ListInv, LoopNext

\* Every step of the system is a step of the loop or leaves it alone.
LEMMA FeedMoves ==
    ASSUME [Next]_vars
    PROVE  FeedStep \/ UNCHANGED feedVars
  <1>1. CASE Feed \/ EndBroadcast
    BY <1>1 DEF Feed, EndBroadcast, FeedStep
  <1>2. CASE Snapshot
    BY <1>2 DEF Snapshot
  <1>3. ASSUME NEW c \in audience, AdmitNext(c) \/ EnqueueTo(c) \/ MainNext(c) PROVE UNCHANGED feedVars
    BY <1>3 DEF AdmitNext, AskReady, TakeSequenceHeader, EnqueueHeaders, AddClient, EnqueueTo,
                MainNext, Drain, Close, RemoveClient
  <1>4. CASE UNCHANGED vars
    BY <1>4 DEF vars
  <1> QED
    BY <1>1, <1>2, <1>3, <1>4 DEF Next

LEMMA AdmitTypes ==
    ASSUME FeedInv, ClientTypes, NEW c \in Clients, AdmitNext(c), audience' = audience
    PROVE  ClientTypes'
  <1>1. CASE AskReady(c)
    BY <1>1 DEF AskReady, Steps, ClientTypes, connVars
  <1>2. CASE TakeSequenceHeader(c)
    <2>1. m_flv_muxer \in Configs
      BY DEF FeedInv, ManagerInv
    <2> QED
      BY <1>2, <2>1 DEF TakeSequenceHeader, Steps, ClientTypes, connVars
  <1>3. CASE EnqueueHeaders(c)
    <2>1. HttpHeader \in Packets /\ FlvHeader \in Packets /\ SequenceHeader(held[c]) \in Packets
      BY ConfigsOf, PacketTyped DEF HttpHeader, FlvHeader, SequenceHeader, ClientTypes, Classes
    <2> DEFINE q == <<HttpHeader, FlvHeader, SequenceHeader(held[c])>>
    <2>2. q \in Seq(Packets) /\ <<>> \in Seq(Packets)
      BY <2>1
    <2> HIDE DEF q
    <2>3. m_send_queue' = [m_send_queue EXCEPT ![c] = IF m_sockfd[c] = "open" THEN q ELSE <<>>]
      BY <1>3 DEF EnqueueHeaders, q
    <2>4. m_send_queue' \in [Clients -> Seq(Packets)]
      BY <2>2, <2>3 DEF ClientTypes
    <2> QED
      BY <1>3, <2>4 DEF EnqueueHeaders, Steps, ClientTypes
  <1>4. CASE AddClient(c)
    BY <1>4 DEF AddClient, Steps, ClientTypes, connVars
  <1> QED
    BY <1>1, <1>2, <1>3, <1>4 DEF AdmitNext

LEMMA EnqueueTypes ==
    ASSUME FeedInv, ClientTypes, ListInv, NEW c \in Clients, EnqueueTo(c), audience' = audience
    PROVE  ClientTypes'
  <1> DEFINE p == PacketOf(Head(todo))
             t == ~IsSequenceHeader(p) /\ (torn[c] \/ LosesConfig(c, p))
  <1>1. p \in Packets
    BY BroadcastPacketTyped DEF EnqueueTo, ListInv
  <1>2. /\ UNCHANGED <<worker, held, m_sockfd, given>>
        /\ \/ UNCHANGED <<m_send_queue, m_wait_flv_key_frame, torn>>
           \/ /\ m_send_queue' = [m_send_queue EXCEPT ![c] = Offer(c, p).queue]
              /\ m_wait_flv_key_frame' = [m_wait_flv_key_frame EXCEPT ![c] = Offer(c, p).wait]
              /\ torn' = [torn EXCEPT ![c] = t]
    BY DEF EnqueueTo
  <1> HIDE DEF p
  <1>3. t \in BOOLEAN
    OBVIOUS
  <1> HIDE DEF t
  <1>4. Offer(c, p).queue \in Seq(Packets) /\ Offer(c, p).wait \in BOOLEAN
    <2>1. m_send_queue[c] \in Seq(Packets) /\ <<>> \in Seq(Packets)
      BY EmptySeq DEF ClientTypes
    <2>2. Append(m_send_queue[c], p) \in Seq(Packets) /\ Append(<<>>, p) \in Seq(Packets)
      BY <1>1, <2>1, Appended
    <2>3. m_wait_flv_key_frame \in [Clients -> BOOLEAN]
      BY DEF ClientTypes
    <2>4. Offer(c, p).queue \in Seq(Packets)
      BY <2>1, <2>2, <2>3, OfferMeans
    <2>5. Offer(c, p).wait \in BOOLEAN
      BY <2>3, OfferMeans
    <2> QED
      BY <2>4, <2>5
  <1> QED
    BY <1>2, <1>3, <1>4 DEF ClientTypes

LEMMA MainTypes ==
    ASSUME ClientTypes, NEW c \in Clients, MainNext(c), audience' = audience
    PROVE  ClientTypes'
  <1>1. CASE Drain(c)
    <2> DEFINE p == Head(m_send_queue[c])
               g == [config |-> IF IsSequenceHeader(p) THEN p.config ELSE given[c].config,
                     ts |-> IF IsPicture(p) THEN p.ts ELSE given[c].ts]
    <2>1. m_send_queue[c] \in Seq(Packets) /\ m_send_queue[c] # <<>>
      BY <1>1 DEF Drain, ClientTypes
    <2>2. p \in Packets /\ Tail(m_send_queue[c]) \in Seq(Packets)
      BY <2>1, HeadTailProperties
    <2>3. g \in Givens
      BY <2>2 DEF ClientTypes, Givens, Packets
    <2>4. given' = [given EXCEPT ![c] = g] /\ m_send_queue' = [m_send_queue EXCEPT ![c] = Tail(@)]
      BY <1>1 DEF Drain
    <2> HIDE DEF g
    <2>5. given' \in [Clients -> Givens] /\ m_send_queue' \in [Clients -> Seq(Packets)]
      BY <2>2, <2>3, <2>4 DEF ClientTypes
    <2> QED
      BY <1>1, <2>5 DEF Drain, ClientTypes
  <1>2. CASE Close(c)
    <2>1. <<>> \in Seq(Packets)
      BY EmptySeq
    <2> QED
      BY <1>2, <2>1 DEF Close, ClientTypes
  <1>3. CASE RemoveClient(c)
    BY <1>3 DEF RemoveClient, ClientTypes
  <1> QED
    BY <1>1, <1>2, <1>3 DEF MainNext

LEMMA ClientTypesStep ==
    ASSUME FeedInv, ClientTypes, ListInv, [Next]_vars
    PROVE  ClientTypes'
  <1>1. CASE Snapshot /\ audience' = audience
    <2> DEFINE t == [c \in Clients |-> torn[c] \/ Misses(c)]
    <2>1. t \in [Clients -> BOOLEAN]
      OBVIOUS
    <2>2. torn' = t
      BY <1>1 DEF Snapshot
    <2> HIDE DEF t
    <2> QED
      BY <1>1, <2>1, <2>2 DEF Snapshot, ClientTypes
  <1>2. CASE (Feed \/ EndBroadcast) /\ audience' = audience
    BY <1>2 DEF Feed, EndBroadcast, ClientTypes, clientVars, connVars
  <1>3. ASSUME NEW c \in audience, AdmitNext(c) \/ EnqueueTo(c) \/ MainNext(c), audience' = audience
        PROVE  ClientTypes'
    <2>1. c \in Clients
      BY DEF ClientTypes
    <2> QED
      BY <1>3, <2>1, AdmitTypes, EnqueueTypes, MainTypes
  <1>4. CASE UNCHANGED vars
    BY <1>4 DEF vars, clientVars, connVars, ClientTypes
  <1> QED
    BY <1>1, <1>2, <1>3, <1>4 DEF Next

\* A queue is at most as long as its limit.
LEMMA AppendedLength ==
    ASSUME NEW S, NEW q \in Seq(S), NEW p \in S
    PROVE  Len(Append(q, p)) = Len(q) + 1 /\ Len(q) \in Nat /\ Len(Append(<<>>, p)) = 1
  <1>1. <<>> \in Seq(S) /\ Len(<<>>) = 0
    BY EmptySeq
  <1> QED
    BY <1>1, Appended, EmptyOrNot

LEMMA QueueStep ==
    ASSUME FeedInv, ClientTypes, ListInv, QueueInv, [Next]_vars
    PROVE  QueueInv'
  <1>0. FlvDepth \in Nat /\ FlvDepth >= 3
    BY BroadcastAssumption
  <1>1. CASE (Feed \/ EndBroadcast \/ Snapshot) \/ UNCHANGED vars
    BY <1>1 DEF Feed, EndBroadcast, Snapshot, QueueInv, clientVars, connVars, vars
  <1>2. ASSUME NEW c \in Clients, EnqueueHeaders(c) PROVE QueueInv'
    <2> DEFINE q == <<HttpHeader, FlvHeader, SequenceHeader(held[c])>>
    <2>1. Len(q) = 3 /\ Len(<<>>) = 0
      OBVIOUS
    <2> HIDE DEF q
    <2>2. /\ m_send_queue' = [m_send_queue EXCEPT ![c] = IF m_sockfd[c] = "open" THEN q ELSE <<>>]
          /\ m_sockfd' = m_sockfd
      BY <1>2 DEF EnqueueHeaders, q
    <2> QED
      BY <1>0, <2>1, <2>2 DEF QueueInv, ClientTypes
  <1>3. ASSUME NEW c \in Clients, AskReady(c) \/ TakeSequenceHeader(c) \/ AddClient(c) \/ RemoveClient(c)
        PROVE  QueueInv'
    <2>1. m_send_queue' = m_send_queue /\ \A d \in Clients : m_sockfd'[d] # "open" => m_sockfd[d] # "open"
      BY <1>3 DEF AskReady, TakeSequenceHeader, AddClient, RemoveClient, connVars, ClientTypes
    <2> QED
      BY <2>1 DEF QueueInv
  <1>4. ASSUME NEW c \in Clients, EnqueueTo(c) PROVE QueueInv'
    <2> DEFINE p == PacketOf(Head(todo))
    <2>1. p \in Packets
      BY <1>4, BroadcastPacketTyped DEF EnqueueTo, ListInv
    <2>2. m_sockfd' = m_sockfd
      BY <1>4 DEF EnqueueTo
    <2>3. \/ m_send_queue' = m_send_queue
          \/ m_sockfd[c] = "open" /\ m_send_queue' = [m_send_queue EXCEPT ![c] = Offer(c, p).queue]
      BY <1>4 DEF EnqueueTo
    <2> HIDE DEF p
    <2>4. m_send_queue[c] \in Seq(Packets) /\ Len(m_send_queue[c]) \in Nat
      BY EmptyOrNot DEF ClientTypes
    <2>5. Len(Offer(c, p).queue) <= FlvDepth
      <3>1. /\ Len(Append(m_send_queue[c], p)) = Len(m_send_queue[c]) + 1
            /\ Len(Append(<<>>, p)) = 1 /\ Len(<<>>) = 0
        BY <2>1, <2>4, AppendedLength
      <3>2. Len(m_send_queue[c]) <= FlvDepth
        BY DEF QueueInv
      <3>3. \/ Offer(c, p).queue \in {m_send_queue[c], <<>>, Append(<<>>, p)}
            \/ ~Full(c) /\ Offer(c, p).queue = Append(m_send_queue[c], p)
        BY OfferMeans DEF ClientTypes
      <3>4. CASE Offer(c, p).queue \in {m_send_queue[c], <<>>, Append(<<>>, p)}
        <4>1. Len(Offer(c, p).queue) \in {Len(m_send_queue[c]), 0, 1}
          BY <3>1, <3>4
        <4>2. 0 <= FlvDepth /\ 1 <= FlvDepth
          BY <1>0
        <4> QED
          BY <3>2, <4>1, <4>2
      <3>5. CASE ~Full(c) /\ Offer(c, p).queue = Append(m_send_queue[c], p)
        <4>1. Len(m_send_queue[c]) + 1 <= FlvDepth
          BY <1>0, <2>4, <3>5 DEF Full
        <4> QED
          BY <3>1, <3>5, <4>1
      <3> QED
        BY <3>3, <3>4, <3>5
    <2> QED
      BY <2>2, <2>3, <2>5 DEF QueueInv, ClientTypes
  <1>5. ASSUME NEW c \in Clients, Drain(c) PROVE QueueInv'
    <2>1. m_send_queue[c] \in Seq(Packets) /\ m_send_queue[c] # <<>>
      BY <1>5 DEF Drain, ClientTypes
    <2>2. Len(Tail(m_send_queue[c])) = Len(m_send_queue[c]) - 1 /\ Len(m_send_queue[c]) \in Nat
      BY <2>1, HeadTailProperties, EmptyOrNot
    <2>3. m_send_queue' = [m_send_queue EXCEPT ![c] = Tail(@)] /\ m_sockfd' = m_sockfd
      BY <1>5 DEF Drain
    <2>4. m_sockfd[c] = "open" /\ Len(m_send_queue[c]) <= FlvDepth
      BY <2>1 DEF QueueInv
    <2>5. Len(Tail(m_send_queue[c])) <= FlvDepth
      BY <1>0, <2>2, <2>4
    <2> QED
      BY <2>3, <2>4, <2>5 DEF QueueInv, ClientTypes
  <1>6. ASSUME NEW c \in Clients, Close(c) PROVE QueueInv'
    <2>1. Len(<<>>) = 0
      OBVIOUS
    <2>2. /\ m_send_queue' = [m_send_queue EXCEPT ![c] = <<>>]
          /\ \A d \in Clients : d # c => m_sockfd'[d] = m_sockfd[d]
      BY <1>6 DEF Close, ClientTypes
    <2> QED
      BY <1>0, <2>1, <2>2 DEF QueueInv, ClientTypes
  <1> QED
    BY <1>1, <1>2, <1>3, <1>4, <1>5, <1>6 DEF Next, AdmitNext, MainNext, ClientTypes

\* The list and the snapshot have no client twice, and only admitted ones.
LEMMA ListStep ==
    ASSUME ClientTypes, ListInv, [Next]_vars
    PROVE  ListInv'
  <1>1. CASE Feed
    <2>1. ~serving /\ UNCHANGED <<m_flv_clients, clients, serving, worker, m_sockfd>>
      BY <1>1, FeedWaits DEF Feed, clientVars, connVars, listVars
    <2> QED
      BY <2>1 DEF ListInv, Listed, InLine
  <1>2. CASE Snapshot
    <2>1. /\ UNCHANGED <<m_flv_clients, worker, m_sockfd, todo>> /\ clients' = m_flv_clients
          /\ serving' = TRUE /\ Broadcasting
      BY <1>2 DEF Snapshot, feedVars, Broadcasting
    <2>2. Broadcasting'
      BY <2>1 DEF Broadcasting
    <2> QED
      BY <2>1, <2>2 DEF ListInv, Listed, InLine
  <1>3. CASE EndBroadcast
    <2>1. UNCHANGED <<m_flv_clients, clients, worker, m_sockfd>> /\ serving' = FALSE
      BY <1>3 DEF EndBroadcast, connVars
    <2> QED
      BY <2>1 DEF ListInv, Listed, InLine
  <1>4. ASSUME NEW c \in Clients, AskReady(c) \/ TakeSequenceHeader(c) \/ EnqueueHeaders(c)
        PROVE  ListInv'
    <2>1. /\ UNCHANGED <<m_flv_clients, clients, serving, m_sockfd, todo>>
          /\ worker[c] # "done" /\ (worker'[c] = "done" => m_sockfd[c] # "open")
          /\ \A d \in Clients : d # c => worker'[d] = worker[d]
      BY <1>4 DEF AskReady, TakeSequenceHeader, EnqueueHeaders, Steps, connVars, listVars, feedVars, ClientTypes
    <2>2. ~Listed(c) /\ ~InLine(c)
      BY <2>1 DEF ListInv
    <2>3. Broadcasting' = Broadcasting /\ \A d : (Listed(d)' <=> Listed(d)) /\ (InLine(d)' <=> InLine(d))
      BY <2>1 DEF Broadcasting, Listed, InLine
    <2> QED
      BY <2>1, <2>2, <2>3 DEF ListInv
  <1>5. ASSUME NEW c \in Clients, AddClient(c) PROVE ListInv'
    <2>1. /\ UNCHANGED <<clients, serving, m_sockfd, todo>> /\ worker' = [worker EXCEPT ![c] = "done"]
          /\ m_flv_clients' = IF Contains(m_flv_clients, c) THEN m_flv_clients ELSE Append(m_flv_clients, c)
          /\ worker[c] = "add"
      BY <1>5 DEF AddClient, Steps, connVars, feedVars
    <2>2. ~Listed(c)
      BY <2>1 DEF ListInv
    <2>3. ~Contains(m_flv_clients, c)
      BY <2>2, EmptyOrNot DEF Contains, Listed, On, ListInv
    <2>4. /\ m_flv_clients' \in Seq(Clients) /\ IsInjective(m_flv_clients')
          /\ \A d : Listed(d)' <=> d = c \/ Listed(d)
      BY <2>1, <2>2, <2>3, AppendToList DEF Listed, ListInv
    <2>5. Broadcasting' = Broadcasting /\ \A d : InLine(d)' <=> InLine(d)
      BY <2>1 DEF Broadcasting, InLine
    <2> QED
      BY <2>1, <2>4, <2>5 DEF ListInv, ClientTypes
  <1>6. ASSUME NEW c \in Clients, EnqueueTo(c) PROVE ListInv'
    <2>1. /\ UNCHANGED <<m_flv_clients, serving, worker, m_sockfd, todo>>
          /\ clients # <<>> /\ clients' = Tail(clients)
      BY <1>6 DEF EnqueueTo, feedVars
    <2>2. /\ clients' \in Seq(Clients) /\ IsInjective(clients')
          /\ \A d : InLine(d)' => InLine(d)
      BY <2>1, TailOfList DEF InLine, ListInv
    <2>3. Broadcasting' = Broadcasting /\ \A d : Listed(d)' <=> Listed(d)
      BY <2>1 DEF Broadcasting, Listed
    <2> QED
      BY <2>1, <2>2, <2>3 DEF ListInv
  <1>7. ASSUME NEW c \in Clients, Drain(c) \/ Close(c) PROVE ListInv'
    <2>1. /\ UNCHANGED <<m_flv_clients, clients, serving, worker, todo>>
          /\ \A d \in Clients : m_sockfd'[d] = "open" => m_sockfd[d] = "open"
      BY <1>7 DEF Drain, Close, listVars, feedVars, ClientTypes
    <2>2. Broadcasting' = Broadcasting /\ \A d : (Listed(d)' <=> Listed(d)) /\ (InLine(d)' <=> InLine(d))
      BY <2>1 DEF Broadcasting, Listed, InLine
    <2> QED
      BY <2>1, <2>2 DEF ListInv
  <1>8. ASSUME NEW c \in Clients, RemoveClient(c) PROVE ListInv'
    <2>1. /\ UNCHANGED <<clients, serving, worker, todo>>
          /\ m_sockfd' = [m_sockfd EXCEPT ![c] = "closed"]
          /\ m_flv_clients' = RemoveFirst(m_flv_clients, c)
      BY <1>8 DEF RemoveClient, feedVars
    <2>2. /\ m_flv_clients' \in Seq(Clients) /\ IsInjective(m_flv_clients')
          /\ \A d : Listed(d)' <=> d # c /\ Listed(d)
      BY <2>1, RemoveFromList DEF Listed, ListInv
    <2>3. Broadcasting' = Broadcasting /\ \A d : InLine(d)' <=> InLine(d)
      BY <2>1 DEF Broadcasting, InLine
    <2> QED
      BY <2>1, <2>2, <2>3 DEF ListInv, ClientTypes
  <1>9. CASE UNCHANGED vars
    BY <1>9 DEF vars, clientVars, connVars, listVars, feedVars, ListInv, Listed, InLine, Broadcasting
  <1> QED
    BY <1>1, <1>2, <1>3, <1>4, <1>5, <1>6, <1>7, <1>8, <1>9 DEF Next, AdmitNext, MainNext, ClientTypes

LEMMA ClientInvInit == BroadcastInit => ClientInv
  <1> SUFFICES ASSUME BroadcastInit PROVE ClientInv
    OBVIOUS
  <1>1. <<>> \in Seq(Packets) /\ <<>> \in Seq(Clients) /\ Len(<<>>) = 0 /\ DOMAIN <<>> = {}
    OBVIOUS
  <1>2. [config |-> <<0, 0>>, ts |-> 0] \in Givens
    BY ConfigsOf DEF Givens
  <1>3. ClientTypes
    BY <1>1, <1>2, ConfigsOf DEF ClientTypes, BroadcastInit
  <1>4. QueueInv
    BY <1>1, BroadcastAssumption DEF QueueInv, BroadcastInit
  <1>5. ListInv
    <2>1. m_flv_clients = <<>> /\ clients = <<>> /\ serving = FALSE /\ \A c \in Clients : worker[c] = "none"
      BY DEF BroadcastInit
    <2>2. \A c : ~Listed(c) /\ ~InLine(c)
      BY <1>1, <2>1 DEF Listed, InLine, On
    <2>3. IsInjective(m_flv_clients) /\ IsInjective(clients) /\ serving \in BOOLEAN
      BY <1>1, <2>1 DEF IsInjective
    <2> QED
      BY <1>1, <2>1, <2>2, <2>3 DEF ListInv
  <1> QED
    BY <1>3, <1>4, <1>5 DEF ClientInv

LEMMA ClientInvStep ==
    ASSUME FeedInv, ClientInv, [Next]_vars
    PROVE  ClientInv'
  BY ClientTypesStep, QueueStep, ListStep DEF ClientInv

LEMMA FeedAlways == Spec => []FeedInv
  <1>1. BroadcastInit => FeedInv
    BY FeedInvInit DEF BroadcastInit
  <1>2. FeedInv /\ [Next]_vars => FeedInv'
    BY FeedMoves, FeedInvStep
  <1> QED
    BY <1>1, <1>2, PTL DEF Spec

LEMMA ClientsAlways == Spec => []ClientInv
  <1>1. FeedInv /\ ClientInv /\ [Next]_vars => ClientInv'
    BY ClientInvStep
  <1> QED
    BY <1>1, ClientInvInit, FeedAlways, PTL DEF Spec

\* What is to be done is at most three steps, with a configuration each.
LEMMA PlansTyped ==
    ASSUME FeedInv
    PROVE  /\ Len(todo) <= 3
           /\ \A i \in DOMAIN todo : /\ todo[i].do \in {"store", "withdraw", "config", "video"}
                                     /\ todo[i].config \in Configs
  <1> DEFINE Typed(s) == /\ s.do \in {"store", "withdraw", "config", "video"}
                         /\ s.config \in Configs
  <1>1. /\ Typed(Withdraw) /\ \A tag : Typed(Video(tag))
        /\ \A c \in Complete : Typed(Store(c)) /\ Typed(Config(c))
    BY ConfigsOf DEF Withdraw, Video, Store, Config, Step
  <1> HIDE DEF Typed
  <1>2. CASE Plain(todo)
    <2>1. CASE todo = <<>>
      BY <2>1 DEF Typed
    <2>2. CASE todo = <<Withdraw>>
      <3>1. Len(todo) = 1 /\ \A i \in DOMAIN todo : todo[i] = Withdraw
        BY <2>2
      <3> QED
        BY <1>1, <3>1 DEF Typed
    <2>3. ASSUME NEW c \in Complete, todo = <<Store(c)>>
          PROVE  Len(todo) <= 3 /\ \A i \in DOMAIN todo : Typed(todo[i])
      <3>1. Len(todo) = 1 /\ \A i \in DOMAIN todo : todo[i] = Store(c)
        BY <2>3
      <3> QED
        BY <1>1, <3>1
    <2> QED
      BY <1>2, <2>1, <2>2, <2>3 DEF Plain, Typed
  <1>3. ASSUME NEW tag, Plan(todo, tag)
        PROVE  Len(todo) <= 3 /\ \A i \in DOMAIN todo : Typed(todo[i])
    <2>1. CASE todo = <<Video(tag)>>
      <3>1. Len(todo) = 1 /\ \A i \in DOMAIN todo : todo[i] = Video(tag)
        BY <2>1
      <3> QED
        BY <1>1, <3>1
    <2>2. CASE todo = <<Video(tag), Withdraw>>
      <3>1. Len(todo) = 2 /\ \A i \in DOMAIN todo : todo[i] \in {Video(tag), Withdraw}
        BY <2>2
      <3> QED
        BY <1>1, <3>1
    <2>3. ASSUME NEW c \in Complete,
                 todo \in {<<Video(tag), Store(c)>>, <<Config(c), Video(tag)>>,
                           <<Store(c), Config(c), Video(tag)>>}
          PROVE  Len(todo) <= 3 /\ \A i \in DOMAIN todo : Typed(todo[i])
      <3>1. Len(todo) <= 3 /\ \A i \in DOMAIN todo : todo[i] \in {Video(tag), Store(c), Config(c)}
        <4>1. CASE todo = <<Video(tag), Store(c)>>
          BY <4>1
        <4>2. CASE todo = <<Config(c), Video(tag)>>
          BY <4>2
        <4>3. CASE todo = <<Store(c), Config(c), Video(tag)>>
          BY <4>3
        <4> QED
          BY <2>3, <4>1, <4>2, <4>3
      <3>2. Typed(Video(tag)) /\ Typed(Store(c)) /\ Typed(Config(c))
        BY <1>1
      <3> QED
        BY <3>1, <3>2
    <2> QED
      BY <1>3, <2>1, <2>2, <2>3 DEF Plan
  <1> QED
    BY <1>2, <1>3 DEF FeedInv, TagInv, Typed

LEMMA InvMeansTypeOK == FeedInv /\ ClientInv => BroadcastTypeOK
  <1> SUFFICES ASSUME FeedInv, ClientInv PROVE BroadcastTypeOK
    OBVIOUS
  <1>1. frame_index \in 0 .. MaxPictures
    <2>1. frame_index \in Nat /\ frame_index <= Past /\ Past \in Nat /\ Past <= MaxPictures
      BY PastIsNat DEF FeedInv, Assembly, TagInv
    <2> QED
      BY <2>1, ConfigsOf
  <1>2. TypeOK
    BY <1>1, PlansTyped DEF TypeOK, FeedInv, EncTypes, Encoders, Stages, CurrentInv, PendingInv,
                            SetsInv, ManagerInv, Ready
  <1> QED
    BY <1>2 DEF BroadcastTypeOK, ClientInv, ClientTypes, QueueInv, ListInv, Givens

-----------------------------------------------------------------------------
(* What holds of the feed and of its clients.                              *)

\* A list never has a client twice, a queue is at most as long as its limit
\* and empty without a descriptor; and with the feed's part of it, a client is
\* admitted only when there is a sequence header to send it
\* (src/stream_manager.cpp, src/http_conn.cpp).
THEOREM BroadcastTypeCorrect == Spec => []BroadcastTypeOK
  BY FeedAlways, ClientsAlways, InvMeansTypeOK, PTL

\* A video tag is one picture with all of its slices, unless the source ended
\* within it (AccessUnitAssembler::push_nal(), src/h264_parser.cpp).
THEOREM TagsAreOnePicture == Spec => []AccessUnitIsOnePicture
  BY FeedAlways, InvMeansOnePicture, PTL

\* Pictures are sent in order and with growing timestamps, and none is left
\* out while the source is open (run_flv_source()).
THEOREM NothingSkipped == Spec => NoPictureSkipped
  <1>1. FeedInv /\ [Next]_vars =>
            [sent' # sent /\ sent # NoTag =>
                /\ sent.ts < sent'.ts /\ PicOf(sent) < PicOf(sent')
                /\ sent.opening = sent'.opening => PicOf(sent') = PicOf(sent) + 1]_feedVars
    BY FeedMoves, InvMeansNoneSkipped
  <1> QED
    BY <1>1, FeedAlways, PTL DEF Spec, NoPictureSkipped

\* A client that listens from the beginning has been told the configuration
\* of every whole picture before it gets the picture (config_dirty in
\* run_flv_source()).  A source without access unit delimiters must have more
\* than one picture between parameter sets: the sets that end a picture are
\* taken in before the picture is sent, and it is sent unannounced.
THEOREM ConfigurationFirst ==
    ASSUME MinGop # 1
    PROVE  Spec => ConfigBeforeVideo
  <1>1. BroadcastInit => ConfigInv
    BY ConfigInvInit DEF BroadcastInit
  <1>2. FeedInv /\ ConfigInv /\ [Next]_vars => ConfigInv'
    BY FeedMoves, ConfigInvStep
  <1>3. FeedInv /\ ConfigInv /\ [Next]_vars =>
            [sent' # sent /\ sent'.whole =>
                told = <<sent'.nals[1].cfg, sent'.nals[1].cfg>>]_feedVars
    BY FeedMoves, InvMeansConfigFirst
  <1> QED
    BY <1>1, <1>2, <1>3, FeedAlways, PTL DEF Spec, ConfigBeforeVideo

-----------------------------------------------------------------------------
(* What a queue is worth to the peer: the last picture and the last        *)
(* configuration it will have.                                             *)

Pictures == {p \in Packets : IsPicture(p)}
Headers == {p \in Packets : IsSequenceHeader(p)}

LEMMA LastPictureIs ==
    ASSUME NEW c, NEW q \in Seq(Packets)
    PROVE  LastPicture(c, q) = Latest(q, Pictures, given[c]).ts
  <1>1. \A i \in DOMAIN q : q[i] \in Packets
    BY ElementOfSeq, EmptyOrNot
  <1>2. {i \in DOMAIN q : IsPicture(q[i])} = Marked(q, Pictures)
    BY <1>1 DEF Marked, Pictures
  <1> QED
    BY <1>2 DEF LastPicture, Latest

LEMMA ConfigAheadIs ==
    ASSUME NEW c, m_send_queue[c] \in Seq(Packets)
    PROVE  ConfigAhead(c) = Latest(m_send_queue[c], Headers, given[c]).config
  <1> DEFINE q == m_send_queue[c]
  <1>1. \A i \in DOMAIN q : q[i] \in Packets
    BY ElementOfSeq, EmptyOrNot
  <1>2. {i \in DOMAIN q : IsSequenceHeader(q[i])} = Marked(q, Headers)
    BY <1>1 DEF Marked, Headers
  <1> QED
    BY <1>2 DEF ConfigAhead, Latest

LEMMA LatestOfNone ==
    ASSUME NEW T, NEW d
    PROVE  Latest(<<>>, T, d) = d
  BY DEF Latest, Marked

\* Only the field that is looked at matters in what was given before.
LEMMA LatestDefault ==
    ASSUME NEW q, NEW T, NEW d, NEW e
    PROVE  /\ d.ts = e.ts => Latest(q, T, d).ts = Latest(q, T, e).ts
           /\ d.config = e.config => Latest(q, T, d).config = Latest(q, T, e).config
  BY DEF Latest

\* The last packet is no newer than what the peer will have had then.
LEMMA LastPictureBounds ==
    ASSUME NEW c, NEW q \in Seq(Packets), given[c] \in Givens
    PROVE  /\ LastPicture(c, q) \in Nat
           /\ q # <<>> => Last(q).ts <= LastPicture(c, q)
  <1>0. /\ Len(q) \in Nat /\ DOMAIN q = 1 .. Len(q) /\ \A i \in DOMAIN q : q[i] \in Packets
        /\ q # <<>> => Len(q) \in DOMAIN q
    BY ElementOfSeq, EmptyOrNot
  <1>1. given[c].ts \in Nat /\ \A p \in Packets : p.ts \in Nat
    BY DEF Givens, Packets
  <1>2. LastPicture(c, q) \in Nat
    <2>1. LastPicture(c, q) = Latest(q, Pictures, given[c]).ts
      BY LastPictureIs
    <2>2. \/ Latest(q, Pictures, given[c]) = given[c]
          \/ \E i \in DOMAIN q : /\ q[i] \in Pictures /\ Latest(q, Pictures, given[c]) = q[i]
                                 /\ \A j \in DOMAIN q : q[j] \in Pictures => i >= j
      BY LatestIs
    <2> QED
      BY <1>0, <1>1, <2>1, <2>2
  <1>3. ASSUME q # <<>> PROVE Last(q).ts <= LastPicture(c, q)
    <2>1. Last(q) = q[Len(q)] /\ Len(q) \in DOMAIN q /\ q[Len(q)] \in Packets
      BY <1>0, <1>3 DEF Last
    <2>2. CASE q[Len(q)] \in Pictures
      <3>1. \A j \in DOMAIN q : q[j] \in Pictures => Len(q) >= j
        BY <1>0
      <3>2. Latest(q, Pictures, given[c]) = q[Len(q)]
        BY <2>1, <2>2, <3>1, LatestAt
      <3>3. LastPicture(c, q) = q[Len(q)].ts
        BY <3>2, LastPictureIs
      <3> QED
        BY <1>2, <2>1, <3>3
    <2>3. CASE q[Len(q)] \notin Pictures
      <3>1. q[Len(q)].ts = 0
        BY <2>1, <2>3 DEF Pictures, Packets
      <3> QED
        BY <1>2, <2>1, <3>1
    <2> QED
      BY <2>2, <2>3
  <1> QED
    BY <1>2, <1>3

\* What enters the queue is the last there is of its kind.
LEMMA LastPictureAppend ==
    ASSUME NEW c, NEW q \in Seq(Packets), NEW p \in Packets
    PROVE  LastPicture(c, Append(q, p)) = (IF IsPicture(p) THEN p.ts ELSE LastPicture(c, q))
  <1>1. Append(q, p) \in Seq(Packets) /\ (p \in Pictures <=> IsPicture(p))
    BY Appended DEF Pictures
  <1>2. Latest(Append(q, p), Pictures, given[c]) = (IF p \in Pictures THEN p ELSE Latest(q, Pictures, given[c]))
    BY LatestAppend
  <1> QED
    BY <1>1, <1>2, LastPictureIs

\* What is sent to the peer is counted all the same.
LEMMA DrainKeeps ==
    ASSUME ClientTypes, ClientTypes', NEW c \in Clients, Drain(c)
    PROVE  /\ LastPicture(c, m_send_queue[c])' = LastPicture(c, m_send_queue[c])
           /\ ConfigAhead(c)' = ConfigAhead(c)
  <1> DEFINE q == m_send_queue[c]
             p == Head(q)
             g == [config |-> IF IsSequenceHeader(p) THEN p.config ELSE given[c].config,
                   ts |-> IF IsPicture(p) THEN p.ts ELSE given[c].ts]
  <1>1. q \in Seq(Packets) /\ q # <<>> /\ m_send_queue'[c] = Tail(q) /\ given'[c] = g
    BY DEF Drain, ClientTypes
  <1>2. p \in Packets /\ Tail(q) \in Seq(Packets)
    BY <1>1, HeadTailProperties
  <1>3. (p \in Pictures <=> IsPicture(p)) /\ (p \in Headers <=> IsSequenceHeader(p))
    BY <1>2 DEF Pictures, Headers
  <1>4. /\ g.ts = (IF p \in Pictures THEN p ELSE given[c]).ts
        /\ g.config = (IF p \in Headers THEN p ELSE given[c]).config
    BY <1>3
  <1> HIDE DEF g, p
  <1>5. LastPicture(c, m_send_queue[c])' = Latest(Tail(q), Pictures, g).ts
    <2>1. {i \in DOMAIN Tail(q) : IsPicture(Tail(q)[i])} = Marked(Tail(q), Pictures)
      <3>1. \A i \in DOMAIN Tail(q) : Tail(q)[i] \in Packets
        BY <1>2, ElementOfSeq, EmptyOrNot
      <3> QED
        BY <3>1 DEF Marked, Pictures
    <2> QED
      BY <1>1, <2>1 DEF LastPicture, Latest
  <1>6. ConfigAhead(c)' = Latest(Tail(q), Headers, g).config
    <2>1. {i \in DOMAIN Tail(q) : IsSequenceHeader(Tail(q)[i])} = Marked(Tail(q), Headers)
      <3>1. \A i \in DOMAIN Tail(q) : Tail(q)[i] \in Packets
        BY <1>2, ElementOfSeq, EmptyOrNot
      <3> QED
        BY <3>1 DEF Marked, Headers
    <2> QED
      BY <1>1, <2>1 DEF ConfigAhead, Latest
  <1>7. Latest(q, Pictures, given[c]).ts = Latest(Tail(q), Pictures, g).ts
    BY <1>1, <1>4, LatestTail, LatestDefault DEF p
  <1>8. Latest(q, Headers, given[c]).config = Latest(Tail(q), Headers, g).config
    BY <1>1, <1>4, LatestTail, LatestDefault DEF p
  <1> QED
    BY <1>1, <1>5, <1>6, <1>7, <1>8, LastPictureIs, ConfigAheadIs

-----------------------------------------------------------------------------
(* Runs of pictures.                                                       *)

\* A client at which nothing has happened, `torn' aside.
Still(d) ==
    /\ worker'[d] = worker[d] /\ m_sockfd'[d] = m_sockfd[d] /\ m_send_queue'[d] = m_send_queue[d]
    /\ m_wait_flv_key_frame'[d] = m_wait_flv_key_frame[d]
    /\ held'[d] = held[d] /\ given'[d] = given[d]

LEMMA OthersStill ==
    ASSUME ClientTypes, ListInv, NEW c \in Clients, AdmitNext(c) \/ EnqueueTo(c) \/ MainNext(c),
           NEW d \in Clients, c # d
    PROVE  Still(d) /\ torn'[d] = torn[d]
  <1>1. CASE AskReady(c)
    BY <1>1 DEF AskReady, Steps, ClientTypes, connVars, Still
  <1>2. CASE TakeSequenceHeader(c)
    BY <1>2 DEF TakeSequenceHeader, Steps, ClientTypes, connVars, Still
  <1>3. CASE EnqueueHeaders(c)
    BY <1>3 DEF EnqueueHeaders, Steps, ClientTypes, Still
  <1>4. CASE AddClient(c)
    BY <1>4 DEF AddClient, Steps, ClientTypes, connVars, Still
  <1>5. CASE EnqueueTo(c)
    BY <1>5 DEF EnqueueTo, ClientTypes, Still
  <1>6. CASE Drain(c)
    BY <1>6 DEF Drain, ClientTypes, Still
  <1>7. CASE Close(c)
    BY <1>7 DEF Close, ClientTypes, Still
  <1>8. CASE RemoveClient(c)
    BY <1>8 DEF RemoveClient, ClientTypes, Still
  <1> QED
    BY <1>1, <1>2, <1>3, <1>4, <1>5, <1>6, <1>7, <1>8 DEF AdmitNext, MainNext

\* Steps of the clients change neither the plan nor who else is in line.
LEMMA LineStill ==
    ASSUME ListInv, NEW c \in Clients, AdmitNext(c) \/ EnqueueTo(c) \/ MainNext(c)
    PROVE  /\ UNCHANGED <<todo, sent, told, sps, pps, config_dirty, serving, m_flv_muxer>>
           /\ \A d : c # d \/ ~EnqueueTo(c) => (InLine(d)' <=> InLine(d))
           /\ EnqueueTo(c) => InLine(c) /\ ~InLine(c)' /\ serving
  <1>1. UNCHANGED feedVars /\ serving' = serving
    BY DEF AdmitNext, AskReady, TakeSequenceHeader, EnqueueHeaders, AddClient, EnqueueTo,
           MainNext, Drain, Close, RemoveClient, listVars
  <1>2. UNCHANGED <<todo, sent, told, sps, pps, config_dirty, m_flv_muxer>>
    BY <1>1 DEF feedVars, loop, muxer, manager, out
  <1>3. CASE EnqueueTo(c)
    <2>1. clients # <<>> /\ c = Head(clients) /\ clients' = Tail(clients) /\ serving
      BY <1>3 DEF EnqueueTo
    <2>2. On(clients, c) /\ \A d : On(Tail(clients), d) <=> d # c /\ On(clients, d)
      BY <2>1, TailOfList DEF ListInv
    <2> QED
      BY <1>1, <1>2, <1>3, <2>1, <2>2 DEF InLine
  <1>4. CASE ~EnqueueTo(c)
    <2>1. clients' = clients
      BY <1>4 DEF AdmitNext, AskReady, TakeSequenceHeader, EnqueueHeaders, AddClient,
                  MainNext, Drain, Close, RemoveClient, listVars
    <2> QED
      BY <1>1, <1>2, <1>4, <2>1 DEF InLine
  <1> QED
    BY <1>3, <1>4

\* The loop, or the end of a broadcast, leaves the clients alone.
LEMMA LoopStill ==
    ASSUME Feed \/ EndBroadcast
    PROVE  /\ UNCHANGED <<worker, m_sockfd, m_send_queue, m_wait_flv_key_frame, held, given, torn, clients>>
           /\ Feed => LoopNext /\ sent' = sent /\ told' = told /\ serving' = serving
  BY DEF Feed, EndBroadcast, clientVars, connVars, listVars, LoopNext, ParameterSet, PictureNal, Reopen,
         StoreConfig, WithdrawStream, out

LEMMA UpToDateKeeps ==
    ASSUME NEW d \in Clients, UpToDate(d), Still(d), Offered(d)' = Offered(d)
    PROVE  UpToDate(d)'
  <1>1. LastPicture(d, m_send_queue[d])' = LastPicture(d, m_send_queue[d])
    BY DEF Still, LastPicture
  <1> QED
    BY <1>1 DEF UpToDate, Still

\* A tag is offered to c.
LEMMA UpToDateEnqueue ==
    ASSUME FeedInv, ClientInv, RunInv, NEW c \in Clients, EnqueueTo(c)
    PROVE  UpToDate(c)'
  <1> DEFINE p == PacketOf(Head(todo))
             q == m_send_queue[c]
  <1>1. /\ serving /\ serving' = serving /\ InLine(c) /\ ~InLine(c)' /\ todo' = todo /\ sent' = sent
        /\ worker' = worker /\ m_sockfd' = m_sockfd /\ given' = given
    BY LineStill DEF EnqueueTo, ClientInv
  <1>2. Broadcasting /\ worker[c] = "done"
    BY <1>1 DEF ClientInv, ListInv
  <1>3. p \in Packets /\ q \in Seq(Packets) /\ <<>> \in Seq(Packets)
    BY <1>2, BroadcastPacketTyped, EmptySeq DEF ClientInv, ClientTypes
  <1> SUFFICES ASSUME m_sockfd[c] = "open", ~m_wait_flv_key_frame'[c]
               PROVE  /\ Offered(c)' # NoTag
                      /\ LastPicture(c, m_send_queue[c])' = Offered(c)'.ts + 1
    BY <1>1, <1>2 DEF UpToDate
  <1>4. m_send_queue'[c] = Offer(c, p).queue /\ m_wait_flv_key_frame'[c] = Offer(c, p).wait
    BY DEF EnqueueTo, ClientInv, ClientTypes
  <1>5. m_wait_flv_key_frame \in [Clients -> BOOLEAN]
    BY DEF ClientInv, ClientTypes
  <1>6. LastPicture(c, m_send_queue[c])' = LastPicture(c, m_send_queue'[c])
    BY <1>1 DEF LastPicture
  <1>7. \/ p.class = "key" /\ \E r \in {<<>>, q} : m_send_queue'[c] = Append(r, p)
        \/ ~m_wait_flv_key_frame[c] /\ m_send_queue'[c] = Append(q, p)
    <2> HIDE DEF p
    <2>1. ~Offer(c, p).wait
      BY <1>4
    <2>2. \/ /\ Full(c) /\ Offer(c, p).queue = Append(<<>>, p) /\ p.class = "key"
          \/ /\ Offer(c, p).queue = Append(q, p) /\ (~m_wait_flv_key_frame[c] \/ p.class = "key")
      BY <1>5, <2>1, OfferMeans
    <2> QED
      BY <1>4, <2>2
  <1>8. ASSUME NEW tag, Picture(tag)
        PROVE  Offered(c)' # NoTag /\ LastPicture(c, m_send_queue'[c]) = Offered(c)'.ts + 1
    <2>1. Offered(c)' = tag /\ tag # NoTag
      BY <1>1, <1>8 DEF Offered, Picture
    <2>2. IsPicture(p) /\ p.ts = tag.ts + 1
      BY <1>8, PacketFields DEF Picture, IsPicture
    <2>3. PICK r \in Seq(Packets) : m_send_queue'[c] = Append(r, p)
      BY <1>3, <1>7
    <2>4. LastPicture(c, Append(r, p)) = p.ts
      BY <1>3, <2>2, LastPictureAppend
    <2> QED
      BY <2>1, <2>2, <2>3, <2>4
  <1>9. ASSUME NEW config, Announcement(config)
        PROVE  Offered(c)' # NoTag /\ LastPicture(c, m_send_queue'[c]) = Offered(c)'.ts + 1
    <2>1. Offered(c)' = sent /\ Offered(c) = sent
      BY <1>1, <1>9 DEF Offered, Announcement
    <2>2. p.class = "config" /\ ~IsPicture(p)
      BY <1>9, PacketFields DEF Announcement, IsPicture
    <2>3. ~m_wait_flv_key_frame[c] /\ m_send_queue'[c] = Append(q, p)
      BY <1>7, <2>2
    <2>4. sent # NoTag /\ LastPicture(c, q) = sent.ts + 1
      BY <1>2, <2>1, <2>3 DEF RunInv, UpToDate
    <2>5. LastPicture(c, Append(q, p)) = LastPicture(c, q)
      BY <1>3, <2>2, LastPictureAppend
    <2> QED
      BY <2>1, <2>3, <2>4, <2>5
  <1> QED
    BY <1>2, <1>6, <1>8, <1>9, BroadcastPacket

LEMMA RunStep ==
    ASSUME FeedInv, ClientInv, ClientInv', RunInv, [Next]_vars
    PROVE  RunInv'
  <1> SUFFICES ASSUME NEW d \in Clients PROVE UpToDate(d)'
    BY DEF RunInv
  <1>0. UpToDate(d) /\ ClientTypes /\ ListInv
    BY DEF RunInv, ClientInv
  <1>1. CASE Feed
    <2>1. Still(d) /\ ~serving /\ serving' = serving /\ sent' = sent
      BY <1>0, <1>1, LoopStill, FeedWaits DEF Still
    <2>2. Offered(d)' = Offered(d)
      BY <2>1 DEF Offered
    <2> QED
      BY <1>0, <2>1, <2>2, UpToDateKeeps
  <1>2. CASE EndBroadcast
    <2>1. Still(d) /\ serving /\ clients = <<>> /\ serving' = FALSE
      BY <1>2, LoopStill DEF Still, EndBroadcast
    <2>2. ~InLine(d)
      BY <2>1 DEF InLine, On
    <2>3. sent' = (IF Head(todo).do = "video" THEN Head(todo).tag ELSE sent)
      BY <1>2 DEF EndBroadcast, BroadcastDone, Does
    <2>4. Offered(d)' = Offered(d)
      BY <2>1, <2>2, <2>3 DEF Offered
    <2> QED
      BY <1>0, <2>1, <2>4, UpToDateKeeps
  <1>3. CASE Snapshot
    <2>1. Still(d) /\ ~serving /\ sent' = sent /\ clients' = m_flv_clients
      BY <1>3 DEF Snapshot, Still, feedVars, out
    <2>2. CASE m_sockfd[d] = "open" /\ worker[d] = "done"
      <3>1. InLine(d)'
        BY <1>0, <2>1, <2>2 DEF ListInv, Listed, InLine
      <3>2. Offered(d)' = Offered(d)
        BY <2>1, <3>1 DEF Offered
      <3> QED
        BY <1>0, <2>1, <3>2, UpToDateKeeps
    <2>3. CASE ~(m_sockfd[d] = "open" /\ worker[d] = "done")
      BY <1>0, <2>1, <2>3 DEF UpToDate, Still
    <2> QED
      BY <2>2, <2>3
  <1>4. ASSUME NEW c \in Clients, c # d, AdmitNext(c) \/ EnqueueTo(c) \/ MainNext(c) PROVE UpToDate(d)'
    <2>1. Still(d)
      BY <1>0, <1>4, OthersStill
    <2>2. todo' = todo /\ sent' = sent /\ serving' = serving /\ (InLine(d)' <=> InLine(d))
      BY <1>0, <1>4, LineStill
    <2>3. Offered(d)' = Offered(d)
      BY <2>2 DEF Offered
    <2> QED
      BY <1>0, <2>1, <2>3, UpToDateKeeps
  <1>5. CASE EnqueueTo(d)
    BY <1>5, UpToDateEnqueue
  <1>6. CASE AdmitNext(d) \/ MainNext(d)
    <2>1. CASE EnqueueTo(d)
      BY <2>1, UpToDateEnqueue
    <2>2. CASE ~EnqueueTo(d)
      <3>1. todo' = todo /\ sent' = sent /\ serving' = serving /\ (InLine(d)' <=> InLine(d))
        BY <1>0, <1>6, <2>2, LineStill
      <3>2. Offered(d)' = Offered(d)
        BY <3>1 DEF Offered
      <3>3. CASE AskReady(d) \/ TakeSequenceHeader(d)
        BY <3>3 DEF AskReady, TakeSequenceHeader, Steps, UpToDate, ClientTypes, ClientInv
      <3>4. CASE EnqueueHeaders(d)
        <4>1. m_wait_flv_key_frame'[d] = TRUE
          BY <1>0, <3>4 DEF EnqueueHeaders, ClientTypes
        <4> QED
          BY <4>1 DEF UpToDate
      <3>5. CASE AddClient(d)
        <4>1. /\ worker[d] = "add" /\ m_sockfd' = m_sockfd
              /\ m_wait_flv_key_frame' = m_wait_flv_key_frame
          BY <3>5 DEF AddClient, Steps, connVars
        <4> QED
          BY <1>0, <4>1 DEF UpToDate
      <3>6. CASE Drain(d)
        <4>1. LastPicture(d, m_send_queue[d])' = LastPicture(d, m_send_queue[d])
          BY <3>6, DrainKeeps DEF ClientInv
        <4>2. UNCHANGED <<worker, m_sockfd, m_wait_flv_key_frame>>
          BY <3>6 DEF Drain
        <4> QED
          BY <1>0, <3>2, <4>1, <4>2 DEF UpToDate
      <3>7. CASE Close(d) \/ RemoveClient(d)
        <4>1. m_sockfd'[d] # "open"
          BY <1>0, <3>7 DEF Close, RemoveClient, ClientTypes
        <4> QED
          BY <4>1 DEF UpToDate
      <3> QED
        BY <1>6, <3>3, <3>4, <3>5, <3>6, <3>7 DEF AdmitNext, MainNext
    <2> QED
      BY <2>1, <2>2
  <1>7. CASE UNCHANGED vars
    <2>1. Still(d) /\ UNCHANGED <<todo, sent, serving, clients>>
      BY <1>7 DEF vars, clientVars, connVars, listVars, feedVars, out, Still
    <2>2. Offered(d)' = Offered(d)
      BY <2>1 DEF Offered, InLine
    <2> QED
      BY <1>0, <2>1, <2>2, UpToDateKeeps
  <1> QED
    BY <1>0, <1>1, <1>2, <1>3, <1>4, <1>5, <1>6, <1>7 DEF Next, ClientTypes

\* What is received is the packet of a picture under way.
LEMMA FrontAppend ==
    ASSUME NEW S, NEW q \in Seq(S), NEW p \in S
    PROVE  Front(Append(q, p)) = q /\ Last(Append(q, p)) = p
  <1> DEFINE r == Append(q, p)
  <1>1. /\ r \in Seq(S) /\ Len(r) = Len(q) + 1 /\ r[Len(q) + 1] = p /\ \A i \in DOMAIN q : r[i] = q[i]
        /\ Len(q) \in Nat /\ DOMAIN q = 1 .. Len(q) /\ \A i \in DOMAIN q : q[i] \in S
    BY Appended, EmptyOrNot, ElementOfSeq
  <1> HIDE DEF r
  <1>2. Front(r) = SubSeq(r, 1, Len(q)) /\ Last(r) = p
    <2>1. Len(r) - 1 = Len(q)
      BY <1>1
    <2> QED
      BY <1>1, <2>1 DEF Front, Last
  <1>3. /\ SubSeq(r, 1, Len(q)) \in Seq(S)
        /\ Len(SubSeq(r, 1, Len(q))) = (IF 1 <= Len(q) THEN Len(q) - 1 + 1 ELSE 0)
        /\ \A i \in 1 .. Len(q) - 1 + 1 : SubSeq(r, 1, Len(q))[i] = r[1 + i - 1]
    BY <1>1, SubSeqProperties
  <1> DEFINE f == SubSeq(r, 1, Len(q))
  <1> HIDE DEF f
  <1>4. f \in Seq(S) /\ Len(f) = Len(q) /\ \A i \in 1 .. Len(q) : f[i] = q[i]
    <2>1. Len(f) = Len(q)
      BY <1>1, <1>3 DEF f
    <2>2. ASSUME NEW i \in 1 .. Len(q) PROVE f[i] = q[i]
      <3>1. Len(q) - 1 + 1 = Len(q) /\ 1 + i - 1 = i
        BY <1>1
      <3>2. f[i] = r[i]
        BY <1>3, <3>1 DEF f
      <3> QED
        BY <1>1, <3>2
    <2> QED
      BY <1>3, <2>1, <2>2 DEF f
  <1>5. f = q
    BY <1>4, SeqEqual
  <1> QED
    BY <1>2, <1>5 DEF f, r

LEMMA ReceivesMeans ==
    ASSUME FeedInv, ClientInv, [Next]_vars, NEW c \in Clients, Receives(c),
           NEW p, p = PacketOf(Head(todo))
    PROVE  /\ EnqueueTo(c) /\ m_sockfd[c] = "open" /\ (\E tag : Picture(tag))
           /\ Last(m_send_queue'[c]) = p
           /\ \/ p.class = "key"
              \/ ~m_wait_flv_key_frame[c] /\ m_send_queue'[c] = Append(m_send_queue[c], p)
  <1> DEFINE q == m_send_queue[c]
  <1>0. ClientTypes /\ ListInv /\ q \in Seq(Packets) /\ given[c] \in Givens /\ <<>> \in Seq(Packets)
    BY EmptySeq DEF ClientInv, ClientTypes
  <1>1. /\ LastPicture(c, q) \in Nat /\ (q # <<>> => Last(q).ts <= LastPicture(c, q))
        /\ q # <<>> => Last(q).ts \in Nat
    <2>1. q # <<>> => Last(q) \in Packets
      BY <1>0, EmptyOrNot DEF Last
    <2>2. \A r \in Packets : r.ts \in Nat
      BY DEF Packets
    <2> QED
      BY <1>0, <2>1, <2>2, LastPictureBounds
  <1>2. m_send_queue'[c] # <<>> /\ Last(m_send_queue'[c]).ts > LastPicture(c, q)
    BY DEF Receives
  <1>3. m_send_queue'[c] # q
    BY <1>1, <1>2
  <1>4. ~Drain(c)
    <2> SUFFICES ASSUME Drain(c) PROVE FALSE
      OBVIOUS
    <2>1. q # <<>> /\ m_send_queue'[c] = Tail(q)
      BY <1>0 DEF Drain, ClientTypes
    <2>2. /\ Tail(q) \in Seq(Packets) /\ Len(Tail(q)) = Len(q) - 1
          /\ \A i \in 1 .. Len(Tail(q)) : Tail(q)[i] = q[i + 1]
      BY <1>0, <2>1, HeadTailProperties
    <2>3. Len(q) \in Nat /\ Len(Tail(q)) \in DOMAIN Tail(q) /\ DOMAIN Tail(q) = 1 .. Len(Tail(q))
      BY <1>0, <1>2, <2>1, <2>2, EmptyOrNot
    <2>4. Last(Tail(q)) = Last(q)
      <3>1. Len(Tail(q)) + 1 = Len(q)
        BY <2>2, <2>3
      <3> QED
        BY <2>2, <2>3, <3>1 DEF Last
    <2> QED
      BY <1>1, <1>2, <2>1, <2>4
  <1>5. ~EnqueueHeaders(c)
    <2> SUFFICES ASSUME EnqueueHeaders(c) PROVE FALSE
      OBVIOUS
    <2>1. m_send_queue'[c] \in {<<HttpHeader, FlvHeader, SequenceHeader(held[c])>>, <<>>}
      BY <1>0 DEF EnqueueHeaders, ClientTypes
    <2>2. Last(<<HttpHeader, FlvHeader, SequenceHeader(held[c])>>) = SequenceHeader(held[c])
      BY DEF Last
    <2>3. SequenceHeader(held[c]).ts = 0
      BY PacketFields DEF SequenceHeader
    <2> QED
      BY <1>1, <1>2, <2>1, <2>2, <2>3
  <1>6. ~Close(c)
    BY <1>0, <1>2 DEF Close, ClientTypes
  <1>7. EnqueueTo(c)
    <2>1. ASSUME NEW d \in Clients, AdmitNext(d) \/ EnqueueTo(d) \/ MainNext(d) PROVE d = c
      BY <1>0, <1>3, <2>1, OthersStill DEF Still
    <2>2. CASE Feed \/ EndBroadcast \/ Snapshot \/ UNCHANGED vars
      BY <1>3, <2>2, LoopStill DEF Snapshot, vars, clientVars, connVars
    <2>3. CASE AskReady(c) \/ TakeSequenceHeader(c) \/ AddClient(c) \/ RemoveClient(c)
      BY <1>3, <2>3 DEF AskReady, TakeSequenceHeader, AddClient, RemoveClient, connVars
    <2> QED
      BY <1>0, <1>4, <1>5, <1>6, <2>1, <2>2, <2>3 DEF Next, AdmitNext, MainNext, ClientTypes
  <1>8. Broadcasting /\ m_sockfd[c] = "open" /\ m_send_queue'[c] = Offer(c, p).queue
    BY <1>0, <1>3, <1>7 DEF EnqueueTo, ListInv, ClientTypes
  <1>9. p \in Packets
    BY <1>8, BroadcastPacketTyped
  <1>10. \E r \in {<<>>, q} :
             /\ m_send_queue'[c] = Append(r, p)
             /\ Decodable(p) \/ (r = q /\ ~m_wait_flv_key_frame[c])
    <2>1. m_wait_flv_key_frame \in [Clients -> BOOLEAN]
      BY <1>0 DEF ClientTypes
    <2> QED
      BY <1>2, <1>3, <1>8, <2>1, OfferMeans
  <1>11. Last(m_send_queue'[c]) = p
    BY <1>0, <1>9, <1>10, FrontAppend
  <1>12. p.ts # 0
    BY <1>1, <1>2, <1>11
  <1>13. p.class \in {"key", "inter"}
    BY <1>9, <1>12 DEF Packets, IsPicture
  <1>14. \E tag : Picture(tag)
    <2>1. ~\E config \in Complete : Announcement(config)
      BY <1>12, PacketFields DEF Announcement
    <2> QED
      BY <1>8, <2>1, BroadcastPacket
  <1> QED
    BY <1>7, <1>8, <1>10, <1>11, <1>13, <1>14 DEF Decodable

LEMMA InvMeansRuns ==
    ASSUME FeedInv, ClientInv, RunInv, [Next]_vars, NEW c \in Clients, Receives(c)
    PROVE  LET p == Last(m_send_queue'[c])
               before == LastPicture(c, Front(m_send_queue'[c]))
           IN  p.class = "key" \/ (before > 0 /\ p.ts = before + 1)
  <1> DEFINE p == PacketOf(Head(todo))
             q == m_send_queue[c]
  <1>1. /\ EnqueueTo(c) /\ m_sockfd[c] = "open" /\ (\E tag : Picture(tag))
        /\ Last(m_send_queue'[c]) = p
        /\ \/ p.class = "key"
           \/ ~m_wait_flv_key_frame[c] /\ m_send_queue'[c] = Append(q, p)
    BY ReceivesMeans
  <1>2. PICK tag : Picture(tag)
    BY <1>1
  <1>3. p \in Packets /\ q \in Seq(Packets) /\ worker[c] = "done" /\ InLine(c)
    <2>1. serving /\ InLine(c)
      BY <1>1, LineStill DEF ClientInv
    <2> QED
      BY <2>1, BroadcastPacketTyped DEF ClientInv, ClientTypes, ListInv
  <1>4. CASE ~m_wait_flv_key_frame[c] /\ m_send_queue'[c] = Append(q, p)
    <2>1. Front(m_send_queue'[c]) = q
      BY <1>3, <1>4, FrontAppend
    <2>2. sent # NoTag /\ LastPicture(c, q) = sent.ts + 1
      BY <1>1, <1>3, <1>4 DEF RunInv, UpToDate, Offered
    <2>3. sent.ts \in Nat /\ tag.ts = sent.ts + 1
      BY <1>2, <2>2 DEF Picture, Behind
    <2>4. p.ts = tag.ts + 1
      BY <1>2, PacketFields DEF Picture
    <2>5. LastPicture(c, q) > 0 /\ p.ts = LastPicture(c, q) + 1
      BY <2>2, <2>3, <2>4
    <2> QED
      BY <1>1, <2>1, <2>5
  <1> QED
    BY <1>1, <1>4

\* A client never misses a picture in the middle: what enters its queue comes
\* right behind the picture that entered it before, or is a key frame
\* (enqueue_flv_packet() and m_wait_flv_key_frame, src/http_conn.cpp).
THEOREM RunsAreUnbroken == Spec => RunsStartAtKeyFrames
  <1>1. BroadcastInit => RunInv
    BY DEF BroadcastInit, RunInv, UpToDate
  <1>2. FeedInv /\ ClientInv /\ ClientInv' /\ RunInv /\ [Next]_vars => RunInv'
    BY RunStep
  <1>3. FeedInv /\ ClientInv /\ RunInv /\ [Next]_vars =>
            [\A c \in Clients :
                LET p == Last(m_send_queue'[c])
                    before == LastPicture(c, Front(m_send_queue'[c]))
                IN  Receives(c) => p.class = "key" \/ (before > 0 /\ p.ts = before + 1)]_vars
    BY InvMeansRuns
  <1> QED
    BY <1>1, <1>2, <1>3, FeedAlways, ClientsAlways, PTL DEF Spec, RunsStartAtKeyFrames

-----------------------------------------------------------------------------
(* Announcements: the loop.                                                *)

Wholes(s) == s.do = "video" /\ s.tag.whole
LEMMA PlansNothing == ASSUME NEW w PROVE ~Plans(<<>>, w) /\ ~PlansWhole(<<>>)
  BY DEF Plans, PlansWhole

LEMMA PlansOne ==
    ASSUME NEW a, NEW w
    PROVE  (Plans(<<a>>, w) <=> a.do = w) /\ (PlansWhole(<<a>>) <=> Wholes(a))
  BY DEF Plans, PlansWhole, Wholes

LEMMA PlansTwo ==
    ASSUME NEW a, NEW b, NEW w
    PROVE  /\ Plans(<<a, b>>, w) <=> a.do = w \/ b.do = w
           /\ PlansWhole(<<a, b>>) <=> Wholes(a) \/ Wholes(b)
  <1>1. \A i : i \in DOMAIN <<a, b>> <=> i = 1 \/ i = 2
    OBVIOUS
  <1>2. <<a, b>>[1] = a /\ <<a, b>>[2] = b
    OBVIOUS
  <1> DEFINE q == <<a, b>>
  <1> HIDE DEF q
  <1>3. (\A i : i \in DOMAIN q <=> i = 1 \/ i = 2) /\ q[1] = a /\ q[2] = b
    BY <1>1, <1>2 DEF q
  <1>4. /\ Plans(q, w) <=> a.do = w \/ b.do = w
        /\ PlansWhole(q) <=> Wholes(a) \/ Wholes(b)
    BY <1>3 DEF Plans, PlansWhole, Wholes
  <1> QED
    BY <1>4 DEF q

LEMMA PlansThree ==
    ASSUME NEW a, NEW b, NEW c, NEW w
    PROVE  Plans(<<a, b, c>>, w) <=> a.do = w \/ b.do = w \/ c.do = w
  <1>1. \A i : i \in DOMAIN <<a, b, c>> <=> i = 1 \/ i = 2 \/ i = 3
    OBVIOUS
  <1>2. <<a, b, c>>[1] = a /\ <<a, b, c>>[2] = b /\ <<a, b, c>>[3] = c
    OBVIOUS
  <1> DEFINE q == <<a, b, c>>
  <1> HIDE DEF q
  <1>3. (\A i : i \in DOMAIN q <=> i = 1 \/ i = 2 \/ i = 3) /\ q[1] = a /\ q[2] = b /\ q[3] = c
    BY <1>1, <1>2 DEF q
  <1>4. Plans(q, w) <=> a.do = w \/ b.do = w \/ c.do = w
    BY <1>3 DEF Plans
  <1> QED
    BY <1>4 DEF q

\* What a step of the loop may do to MuxerInv, and to who is up to date.
MuxerGoes == MuxerInv' /\ (Settled' => Settled) /\ told' = told

LEMMA ParameterSetMuxer ==
    ASSUME MinGop # 1, FeedInv, ConfigInv, MuxerInv, NEW n \in Nals, ParameterSet(n)
    PROVE  MuxerGoes
  <1>0. Assembly
    BY DEF FeedInv, Assembly
  <1>1. /\ todo = <<>> /\ config_dirty' = TRUE /\ told' = told /\ m_flv_muxer' = m_flv_muxer
        /\ todo' = Pictured(m_current, TRUE) \o Stored
    BY DEF ParameterSet, StoreParameterSet, out, manager
  <1>a. PICK tag : Pictured(m_current, TRUE) \in {<<>>, <<Video(tag)>>}
    BY DEF Pictured, Video
  <1>b. PICK config : Stored \in {<<>>, <<Store(config)>>}
    BY DEF Stored, Store
  <1>2. Pictured(m_current, TRUE) \in {<<>>, <<Video(tag)>>} /\ Stored \in {<<>>, <<Store(config)>>}
    BY <1>a, <1>b
  <1>3. todo' \in {<<>>, <<Store(config)>>, <<Video(tag)>>, <<Video(tag), Store(config)>>}
    BY <1>1, <1>2, ShortJoins
  <1>4. Video(tag).do = "video" /\ Store(config).do = "store"
    BY StepFields
  <1>5. ~Plans(todo', "config")
    BY <1>3, <1>4, PlansNothing, PlansOne, PlansTwo
  <1>6. todo' # <<>> => Head(todo').do # "config"
    BY <1>3, <1>4, ShortTails
  <1>7. PlansWhole(todo') => Settled
    <2> SUFFICES ASSUME PlansWhole(todo') PROVE Settled
      OBVIOUS
    <2>1. Pictured(m_current, TRUE) # <<>>
      <3>1. CASE Stored = <<>>
        BY <1>1, <3>1, ShortJoins, PlansNothing
      <3>2. CASE Stored = <<Store(config)>>
        <4>1. ~PlansWhole(<<Store(config)>>)
          BY <1>4, PlansOne DEF Wholes
        <4> QED
          BY <1>1, <3>2, <4>1, ShortJoins
      <3> QED
        BY <1>2, <3>1, <3>2
    <2>2. m_current # <<>> /\ Ready(sps, pps)
      BY <2>1 DEF Pictured, Sendable
    <2>3. ~config_dirty
      BY <1>0, <2>2, FlushIsAnnounced
    <2> QED
      BY <1>1, <2>2, <2>3, PlansNothing DEF Settled
  <1>8. Settled' => Settled
    BY <1>1, <1>7 DEF Settled
  <1> QED
    BY <1>1, <1>5, <1>6, <1>8 DEF MuxerGoes, MuxerInv

LEMMA PictureNalMuxer ==
    ASSUME MuxerInv, NEW n \in Nals, PictureNal(n)
    PROVE  MuxerGoes
  <1> DEFINE au == Push(n).completed
             tag == VideoTag(au, TRUE)
             c == <<sps, pps>>
  <1>1. /\ todo = <<>> /\ told' = told /\ UNCHANGED <<sps, pps, m_flv_muxer>>
        /\ todo' = IF Sendable(au) THEN Announce \o Pictured(au, TRUE) ELSE <<>>
        /\ config_dirty' = (config_dirty /\ ~Sendable(au))
    BY DEF PictureNal, out, manager
  <1>2. Video(tag).do = "video" /\ Store(c).do = "store" /\ Config(c).do = "config"
    BY StepFields
  <1> HIDE DEF au
  <1>3. CASE ~Sendable(au)
    <2>1. todo' = todo /\ (config_dirty' <=> config_dirty)
      BY <1>1, <1>3
    <2>2. Settled' <=> Settled
      BY <1>1, <2>1 DEF Settled
    <2> QED
      BY <1>1, <2>1, <2>2 DEF MuxerGoes, MuxerInv
  <1>4. CASE Sendable(au) /\ ~config_dirty
    <2>1. Announce = <<>> /\ Pictured(au, TRUE) = <<Video(tag)>>
      BY <1>4 DEF Announce, Pictured, Video
    <2>2. todo' = <<Video(tag)>>
      BY <1>1, <1>4, <2>1, ShortJoins
    <2>3. Settled
      BY <1>1, <1>4, PlansNothing DEF Settled, Sendable
    <2>4. ~Plans(todo', "store") /\ Head(todo').do = "video"
      BY <1>2, <2>2, PlansOne, ShortTails
    <2> QED
      BY <1>1, <2>3, <2>4 DEF MuxerGoes, MuxerInv
  <1>5. CASE Sendable(au) /\ config_dirty
    <2>1. Announce = <<Store(c), Config(c)>> /\ Pictured(au, TRUE) = <<Video(tag)>>
      BY <1>5 DEF Announce, Pictured, Video, Store, Config
    <2>2. todo' = <<Store(c), Config(c), Video(tag)>>
      BY <1>1, <1>5, <2>1, ShortJoins
    <2>3. Plans(todo', "config") /\ Head(todo').do = "store"
      BY <1>2, <2>2, PlansThree, ShortTails
    <2> QED
      BY <1>1, <2>3 DEF MuxerGoes, MuxerInv, Settled
  <1> QED
    BY <1>3, <1>4, <1>5

LEMMA ReopenMuxer ==
    ASSUME MuxerInv, NEW cfg, NEW fails \in BOOLEAN, Reopen(cfg, fails)
    PROVE  MuxerGoes
  <1>1. /\ sps' = 0 /\ told' = told
        /\ todo' = Pictured(m_current, FALSE)
                   \o (IF fails THEN <<Step("withdraw", <<0, 0>>, NoTag)>> ELSE <<>>)
    BY DEF Reopen, out
  <1>2. PICK tag : tag = VideoTag(m_current, FALSE)
    OBVIOUS
  <1>3. Pictured(m_current, FALSE) \in {<<>>, <<Video(tag)>>}
    BY <1>2 DEF Pictured, Video
  <1>4. todo' \in {<<>>, <<Withdraw>>, <<Video(tag)>>, <<Video(tag), Withdraw>>}
    BY <1>1, <1>3, ShortJoins DEF Withdraw
  <1>5. Video(tag).do = "video" /\ Video(tag).tag.whole = FALSE /\ Withdraw.do = "withdraw"
    BY <1>2, StepFields DEF VideoTag
  <1>6. ~Wholes(Video(tag)) /\ ~Wholes(Withdraw)
    BY <1>5 DEF Wholes
  <1>7. ~Plans(todo', "store") /\ ~PlansWhole(todo') /\ (todo' # <<>> => Head(todo').do # "config")
    BY <1>4, <1>5, <1>6, PlansNothing, PlansOne, PlansTwo, ShortTails
  <1>8. ~Settled'
    BY <1>1, <1>7 DEF Settled, Ready
  <1> QED
    BY <1>1, <1>7, <1>8 DEF MuxerGoes, MuxerInv

\* What is at the head of a plan, and what comes behind it.
LEMMA HeadStore ==
    ASSUME FeedInv, todo # <<>>, Head(todo).do = "store"
    PROVE  \/ Tail(todo) = <<>> /\ ~Plans(todo, "config") /\ Plans(todo, "store")
           \/ \E tag : Tail(todo) = <<Config(Head(todo).config), Video(tag)>>
  <1>1. CASE Plain(todo)
    <2>1. PICK c \in Complete : todo = <<Store(c)>>
      BY <1>1, PlainGoesOn, StepFields, ShortTails DEF Plain
    <2>2. Store(c).do = "store"
      BY StepFields
    <2> QED
      BY <2>1, <2>2, ShortTails, PlansOne
  <1>2. ASSUME NEW tag, Plan(todo, tag)
        PROVE  \E t : Tail(todo) = <<Config(Head(todo).config), Video(t)>>
    <2>1. PICK c \in Complete : todo = <<Store(c), Config(c), Video(tag)>>
      <3>1. Head(todo) # Video(tag) /\ \A c : Head(todo) # Config(c)
        BY StepFields
      <3> QED
        BY <1>2, <3>1, ShortTails DEF Plan
    <2>2. Head(todo).config = c
      BY <2>1, ShortTails, StepFields
    <2> QED
      BY <2>1, <2>2, ShortTails
  <1> QED
    BY <1>1, <1>2 DEF FeedInv, TagInv

LEMMA HeadConfig ==
    ASSUME FeedInv, todo # <<>>, Head(todo).do = "config"
    PROVE  (\E tag : Tail(todo) = <<Video(tag)>>) /\ Plans(todo, "config")
  <1>1. ~Plain(todo)
    <2>1. ASSUME Plain(todo) PROVE Head(todo) = Withdraw \/ \E c \in Complete : Head(todo) = Store(c)
      BY <2>1, PlainGoesOn
    <2> QED
      BY <2>1, StepFields
  <1>2. PICK tag : Plan(todo, tag)
    BY <1>1 DEF FeedInv, TagInv
  <1>3. PICK c \in Complete : todo = <<Config(c), Video(tag)>>
    <2>1. Head(todo) # Video(tag) /\ \A c : Head(todo) # Store(c)
      BY StepFields
    <2> QED
      BY <1>2, <2>1, ShortTails DEF Plan
  <1>4. Config(c).do = "config"
    BY StepFields
  <1> QED
    BY <1>3, <1>4, ShortTails, PlansTwo

LEMMA HeadOther ==
    ASSUME FeedInv, todo # <<>>, Head(todo).do \in {"video", "withdraw"}
    PROVE  /\ ~Plans(todo, "config") /\ ~Plans(Tail(todo), "config") /\ ~PlansWhole(Tail(todo))
           /\ Plans(Tail(todo), "store") => Plans(todo, "store")
           /\ Tail(todo) # <<>> => Head(Tail(todo)).do # "config"
           /\ Head(todo).do = "video" /\ Head(todo).tag.whole => PlansWhole(todo)
  <1>1. CASE todo = <<Withdraw>>
    <2>1. Withdraw.do = "withdraw"
      BY StepFields
    <2> QED
      BY <1>1, <2>1, ShortTails, PlansOne, PlansNothing
  <1>2. ASSUME NEW tag, todo = <<Video(tag)>>
        PROVE  /\ ~Plans(todo, "config") /\ ~Plans(Tail(todo), "config") /\ ~PlansWhole(Tail(todo))
               /\ Plans(Tail(todo), "store") => Plans(todo, "store")
               /\ Tail(todo) # <<>> => Head(Tail(todo)).do # "config"
               /\ Head(todo).do = "video" /\ Head(todo).tag.whole => PlansWhole(todo)
    <2>1. Video(tag).do = "video"
      BY StepFields
    <2> QED
      BY <1>2, <2>1, ShortTails, PlansOne, PlansNothing DEF Wholes
  <1>3. ASSUME NEW tag, NEW b, b = Withdraw \/ (\E c : b = Store(c)), todo = <<Video(tag), b>>
        PROVE  /\ ~Plans(todo, "config") /\ ~Plans(Tail(todo), "config") /\ ~PlansWhole(Tail(todo))
               /\ Plans(Tail(todo), "store") => Plans(todo, "store")
               /\ Tail(todo) # <<>> => Head(Tail(todo)).do # "config"
               /\ Head(todo).do = "video" /\ Head(todo).tag.whole => PlansWhole(todo)
    <2>1. Video(tag).do = "video" /\ b.do \in {"withdraw", "store"}
      BY <1>3, StepFields
    <2>2. Tail(todo) = <<b>> /\ Head(todo) = Video(tag) /\ Head(<<b>>) = b
      BY <1>3, ShortTails
    <2>3. ~Plans(todo, "config") /\ (b.do = "store" => Plans(todo, "store"))
      BY <1>3, <2>1, PlansTwo
    <2>4. ~Plans(<<b>>, "config") /\ ~PlansWhole(<<b>>) /\ (Plans(<<b>>, "store") => b.do = "store")
      BY <2>1, PlansOne DEF Wholes
    <2>5. Wholes(Video(tag)) => PlansWhole(todo)
      BY <1>3, PlansTwo
    <2> QED
      BY <2>1, <2>2, <2>3, <2>4, <2>5 DEF Wholes
  <1>4. CASE Plain(todo)
    <2>1. todo = <<Withdraw>>
      <3>1. \A c : todo # <<Store(c)>>
        BY StepFields, ShortTails
      <3> QED
        BY <1>4, <3>1 DEF Plain
    <2> QED
      BY <1>1, <2>1
  <1>5. ASSUME NEW tag, Plan(todo, tag)
        PROVE  todo = <<Video(tag)>> \/ \E b : /\ b = Withdraw \/ (\E c : b = Store(c))
                                               /\ todo = <<Video(tag), b>>
    <2>1. \A c : Head(todo) # Config(c) /\ Head(todo) # Store(c)
      BY StepFields
    <2> QED
      BY <1>5, <2>1, ShortTails DEF Plan
  <1> QED
    BY <1>2, <1>3, <1>4, <1>5 DEF FeedInv, TagInv

LEMMA MuxerStep ==
    ASSUME MinGop # 1, FeedInv, ConfigInv, MuxerInv, FeedStep \/ UNCHANGED feedVars
    PROVE  /\ MuxerInv'
           /\ \/ (Settled' => Settled) /\ told' = told
              \/ Does("config") /\ told' = Head(todo).config
           /\ Head(todo).do = "config" /\ todo # <<>> => ~Settled
  <1>0. Head(todo).do = "config" /\ todo # <<>> => ~Settled
    BY HeadConfig DEF Settled
  <1>1. ASSUME NEW n \in Nals, ParameterSet(n) \/ PictureNal(n) PROVE MuxerGoes
    BY <1>1, ParameterSetMuxer, PictureNalMuxer
  <1>2. ASSUME NEW cfg \in 0 .. enc.cfg, NEW fails \in BOOLEAN, Reopen(cfg, fails) PROVE MuxerGoes
    BY <1>2, ReopenMuxer
  <1>3. ASSUME StoreConfig PROVE MuxerGoes
    <2>1. /\ todo # <<>> /\ Head(todo).do = "store" /\ todo' = Tail(todo)
          /\ m_flv_muxer' = Head(todo).config /\ UNCHANGED <<told, sps, pps, config_dirty>>
      BY <1>3 DEF StoreConfig, Does, out, loop, muxer
    <2>2. CASE Tail(todo) = <<>> /\ ~Plans(todo, "config") /\ Plans(todo, "store")
      <3>1. config_dirty /\ ~Settled'
        BY <2>1, <2>2, PlansNothing DEF MuxerInv, Settled
      <3> QED
        BY <2>1, <2>2, <3>1, PlansNothing DEF MuxerGoes, MuxerInv
    <2>3. ASSUME NEW tag, Tail(todo) = <<Config(Head(todo).config), Video(tag)>> PROVE MuxerGoes
      <3>1. /\ Config(Head(todo).config).do = "config" /\ Video(tag).do = "video"
            /\ Config(Head(todo).config).config = Head(todo).config
        BY StepFields
      <3> DEFINE a == Config(Head(todo).config)
                 b == Video(tag)
      <3>a. a.do = "config"
        BY <3>1
      <3> HIDE DEF a, b
      <3>b. Plans(<<a, b>>, "config") /\ Head(<<a, b>>) = a
        BY <3>a, PlansTwo, ShortTails
      <3>2. Plans(Tail(todo), "config") /\ Head(Tail(todo)) = Config(Head(todo).config)
        BY <2>3, <3>b DEF a, b
      <3>3. Plans(todo', "config") /\ Head(todo').config = m_flv_muxer'
        BY <2>1, <3>1, <3>2
      <3> QED
        BY <2>1, <3>3 DEF MuxerGoes, MuxerInv, Settled
    <2>4. \/ Tail(todo) = <<>> /\ ~Plans(todo, "config") /\ Plans(todo, "store")
          \/ \E tag : Tail(todo) = <<Config(Head(todo).config), Video(tag)>>
      BY <2>1, HeadStore
    <2> QED
      BY <2>2, <2>3, <2>4
  <1>4. ASSUME WithdrawStream \/ (BroadcastDone /\ Head(todo).do = "video") PROVE MuxerGoes
    <2>1. /\ todo # <<>> /\ Head(todo).do \in {"video", "withdraw"} /\ todo' = Tail(todo)
          /\ UNCHANGED <<m_flv_muxer, told, sps, pps, config_dirty>>
      BY <1>4 DEF WithdrawStream, BroadcastDone, Does, out, loop, muxer, manager
    <2>2. /\ ~Plans(todo, "config") /\ ~Plans(Tail(todo), "config") /\ ~PlansWhole(Tail(todo))
          /\ Plans(Tail(todo), "store") => Plans(todo, "store")
          /\ Tail(todo) # <<>> => Head(Tail(todo)).do # "config"
      BY <2>1, HeadOther
    <2>3. Settled' => Settled
      BY <2>1, <2>2 DEF Settled
    <2> QED
      BY <2>1, <2>2, <2>3 DEF MuxerGoes, MuxerInv
  <1>5. CASE BroadcastDone /\ Head(todo).do = "config"
    <2>1. /\ todo # <<>> /\ Does("config") /\ todo' = Tail(todo) /\ told' = Head(todo).config
          /\ m_flv_muxer' = m_flv_muxer
      BY <1>5 DEF BroadcastDone, Does, manager
    <2>2. PICK tag : Tail(todo) = <<Video(tag)>>
      BY <1>5, <2>1, HeadConfig
    <2>3. Video(tag).do = "video"
      BY StepFields
    <2>a. ~Plans(Tail(todo), "store") /\ Head(Tail(todo)) = Video(tag)
      <3> DEFINE b == Video(tag)
      <3>1. b.do = "video"
        BY <2>3
      <3> HIDE DEF b
      <3>2. ~Plans(<<b>>, "store") /\ Head(<<b>>) = b
        BY <3>1, PlansOne, ShortTails
      <3> QED
        BY <2>2, <3>2 DEF b
    <2>4. ~Plans(todo', "store") /\ Head(todo').do = "video"
      BY <2>1, <2>3, <2>a
    <2>5. m_flv_muxer' = told'
      BY <1>5, <2>1 DEF MuxerInv
    <2> QED
      BY <1>0, <2>1, <2>4, <2>5 DEF MuxerInv
  <1>6. ASSUME UNCHANGED feedVars PROVE MuxerGoes
    <2>1. UNCHANGED <<todo, sps, pps, config_dirty, m_flv_muxer, told>>
      BY <1>6 DEF feedVars, loop, muxer, manager, out
    <2>2. Settled' <=> Settled
      BY <2>1 DEF Settled
    <2>3. MuxerInv'
      BY <2>1, <2>2 DEF MuxerInv
    <2> QED
      BY <2>1, <2>2, <2>3 DEF MuxerGoes
  <1>7. BroadcastDone => Head(todo).do \in {"config", "video"}
    BY DEF BroadcastDone, Does
  <1> QED
    BY <1>0, <1>1, <1>2, <1>3, <1>4, <1>5, <1>6, <1>7 DEF FeedStep, LoopNext, MuxerGoes

-----------------------------------------------------------------------------
(* Announcements: the clients.                                             *)

\* What a client has depends on nothing but the client.
LEMMA StillHas ==
    ASSUME NEW d, Still(d)
    PROVE  ConfigAhead(d)' = ConfigAhead(d) /\ Has(d)' = Has(d)
  <1>1. ConfigAhead(d)' = ConfigAhead(d)
    BY DEF Still, ConfigAhead
  <1> QED
    BY <1>1 DEF Has, Still

\* The queue with the three headers ends in the configuration taken.
LEMMA HeadersAhead ==
    ASSUME HeldInv, ClientTypes, ClientTypes', NEW d \in Clients, EnqueueHeaders(d), m_sockfd[d] = "open"
    PROVE  ConfigAhead(d)' = held[d]
  <1> DEFINE c == held[d]
             p == SequenceHeader(c)
             r == <<HttpHeader, FlvHeader, p>>
  <1>1. worker[d] = "enqueue" /\ m_send_queue'[d] = r /\ given' = given
    BY DEF EnqueueHeaders, ClientTypes, Steps
  <1>2. c \in Configs /\ c # <<0, 0>>
    BY <1>1, ConfigsOf DEF HeldInv, Holds, ClientTypes
  <1>3. p \in Headers /\ p.config = c
    <2>1. p \in Packets
      BY <1>2, ConfigsOf, PacketTyped DEF SequenceHeader, Classes
    <2>2. p.class = "config" /\ p.config = c
      BY PacketFields DEF SequenceHeader
    <2> QED
      BY <1>2, <2>1, <2>2 DEF Headers, IsSequenceHeader
  <1>4. r \in Seq(Packets)
    BY <1>1 DEF ClientTypes
  <1>5. DOMAIN r = 1 .. 3 /\ r[3] = p
    OBVIOUS
  <1>6. Latest(r, Headers, given[d]) = p
    <2> HIDE DEF r, p
    <2>1. 3 \in DOMAIN r /\ r[3] \in Headers /\ \A j \in DOMAIN r : r[j] \in Headers => 3 >= j
      BY <1>3, <1>5
    <2> QED
      BY <1>4, <1>5, <2>1, LatestAt
  <1>7. ConfigAhead(d)' = Latest(r, Headers, given[d]).config
    <2>1. {i \in DOMAIN r : IsSequenceHeader(r[i])} = Marked(r, Headers)
      <3> HIDE DEF r
      <3>1. \A i \in DOMAIN r : r[i] \in Packets
        BY <1>4, ElementOfSeq, EmptyOrNot
      <3> QED
        BY <3>1 DEF Marked, Headers
    <2> HIDE DEF r
    <2> QED
      BY <1>1, <2>1 DEF ConfigAhead, Latest
  <1> QED
    BY <1>3, <1>6, <1>7

\* An announcement reaches whom it is offered to, and a picture leaves what
\* the client has, unless the client loses it.
LEMMA EnqueueAhead ==
    ASSUME FeedInv, ClientInv, ClientInv', NEW d \in Clients, EnqueueTo(d), m_sockfd[d] = "open"
    PROVE  /\ \A c \in Complete : Announcement(c) => ConfigAhead(d)' = c
           /\ \A tag : Picture(tag) /\ ~torn'[d] => ~torn[d] /\ ConfigAhead(d)' = ConfigAhead(d)
  <1> DEFINE p == PacketOf(Head(todo))
             q == m_send_queue[d]
  <1>0. Broadcasting /\ p \in Packets /\ q \in Seq(Packets) /\ <<>> \in Seq(Packets)
    <2>1. Broadcasting
      BY DEF EnqueueTo, ClientInv, ListInv
    <2> QED
      BY <2>1, BroadcastPacketTyped, EmptySeq DEF ClientInv, ClientTypes
  <1>1. /\ m_send_queue'[d] = Offer(d, p).queue /\ given' = given
        /\ torn'[d] = (~IsSequenceHeader(p) /\ (torn[d] \/ LosesConfig(d, p)))
        /\ m_wait_flv_key_frame \in [Clients -> BOOLEAN]
    BY DEF EnqueueTo, ClientInv, ClientTypes
  <1>2. m_send_queue'[d] \in Seq(Packets)
    BY DEF ClientInv, ClientTypes
  <1>3. ConfigAhead(d)' = Latest(m_send_queue'[d], Headers, given[d]).config
    <2> DEFINE r == m_send_queue'[d]
    <2>1. {i \in DOMAIN r : IsSequenceHeader(r[i])} = Marked(r, Headers)
      <3>1. \A i \in DOMAIN r : r[i] \in Packets
        BY <1>2, ElementOfSeq, EmptyOrNot
      <3> QED
        BY <3>1 DEF Marked, Headers
    <2> QED
      BY <1>1, <2>1 DEF ConfigAhead, Latest
  <1>4. ConfigAhead(d) = Latest(q, Headers, given[d]).config
    BY <1>0, ConfigAheadIs
  <1>5. \A r \in {<<>>, q} : Latest(Append(r, p), Headers, given[d])
                             = (IF p \in Headers THEN p ELSE Latest(r, Headers, given[d]))
    <2> SUFFICES ASSUME NEW r \in Seq(Packets)
                 PROVE  Latest(Append(r, p), Headers, given[d])
                        = (IF p \in Headers THEN p ELSE Latest(r, Headers, given[d]))
      BY <1>0
    <2> HIDE DEF p
    <2> QED
      BY <1>0, LatestAppend
  <1>6. p \in Headers <=> IsSequenceHeader(p)
    BY <1>0 DEF Headers
  <1> HIDE DEF p
  <1>7. ASSUME NEW c \in Complete, Announcement(c) PROVE ConfigAhead(d)' = c
    <2>1. p.class = "config" /\ p.config = c
      BY <1>7, PacketFields DEF Announcement, p
    <2>2. p \in Headers /\ Decodable(p)
      BY <1>6, <2>1, ConfigsOf DEF IsSequenceHeader, Decodable
    <2>3. \E r \in {<<>>, q} : m_send_queue'[d] = Append(r, p)
      BY <1>1, <2>2, OfferMeans
    <2> QED
      BY <1>3, <1>5, <2>1, <2>2, <2>3
  <1>8. ASSUME NEW tag, Picture(tag), ~torn'[d]
        PROVE  ~torn[d] /\ ConfigAhead(d)' = ConfigAhead(d)
    <2>1. p.class \in {"key", "inter"}
      BY <1>8, PacketFields DEF Picture, p
    <2>2. p \notin Headers /\ ~IsSequenceHeader(p)
      BY <1>6, <2>1 DEF IsSequenceHeader
    <2>3. ~torn[d] /\ ~LosesConfig(d, p)
      BY <1>1, <1>8, <2>2
    <2>4. Q!Startable(p) <=> Decodable(p)
      BY DEF Q!Startable, Decodable
    <2>5. Full(d) /\ (Decodable(p) \/ ~m_wait_flv_key_frame[d]) => ConfigAhead(d) = given[d].config
      BY <2>3, <2>4 DEF LosesConfig, Full
    <2>6. \/ m_send_queue'[d] \in {q, Append(q, p)}
          \/ /\ Full(d) /\ (Decodable(p) \/ ~m_wait_flv_key_frame[d])
             /\ m_send_queue'[d] \in {<<>>, Append(<<>>, p)}
      BY <1>1, OfferMeans
    <2>7. Latest(<<>>, Headers, given[d]) = given[d]
      BY LatestOfNone
    <2> QED
      BY <1>3, <1>4, <1>5, <2>2, <2>3, <2>5, <2>6, <2>7
  <1> QED
    BY <1>7, <1>8

LEMMA HeldStep ==
    ASSUME MuxerInv, ClientInv, ClientInv', HeldInv, [Next]_vars
    PROVE  HeldInv'
  <1> SUFFICES ASSUME NEW d \in Clients PROVE Holds(d)'
    BY DEF HeldInv
  <1>0. Holds(d) /\ ClientTypes /\ ClientTypes' /\ ListInv
    BY DEF HeldInv, ClientInv
  <1>1. ASSUME Still(d) PROVE Holds(d)'
    BY <1>0, <1>1, StillHas DEF Holds, Still
  <1>2. CASE Feed \/ EndBroadcast \/ Snapshot \/ UNCHANGED vars
    <2>1. Still(d)
      BY <1>2, LoopStill DEF Snapshot, vars, clientVars, connVars, Still
    <2> QED
      BY <1>1, <2>1
  <1>3. ASSUME NEW c \in Clients, c # d, AdmitNext(c) \/ EnqueueTo(c) \/ MainNext(c) PROVE Holds(d)'
    BY <1>0, <1>1, <1>3, OthersStill
  <1>4. CASE AskReady(d)
    BY <1>0, <1>4 DEF AskReady, Steps, Holds, ClientTypes
  <1>5. CASE TakeSequenceHeader(d)
    <2>1. /\ worker'[d] = IF Ready(m_flv_muxer[1], m_flv_muxer[2]) THEN "enqueue" ELSE "none"
          /\ held'[d] = m_flv_muxer
      BY <1>0, <1>5 DEF TakeSequenceHeader, Steps, ClientTypes
    <2> QED
      BY <2>1 DEF Holds
  <1>6. CASE EnqueueHeaders(d)
    <2>1. worker[d] = "enqueue" /\ held' = held /\ m_sockfd' = m_sockfd
      BY <1>6 DEF EnqueueHeaders, Steps
    <2>2. m_sockfd[d] = "open" => ConfigAhead(d)' = held[d]
      BY <1>0, <1>6, HeadersAhead
    <2> QED
      BY <1>0, <2>1, <2>2 DEF Holds
  <1>7. CASE AddClient(d)
    <2>1. worker'[d] = "done"
      BY <1>0, <1>7 DEF AddClient, Steps, ClientTypes
    <2> QED
      BY <2>1 DEF Holds
  <1>8. CASE EnqueueTo(d)
    <2>1. serving /\ InLine(d) /\ worker' = worker
      BY <1>0, <1>8, LineStill DEF EnqueueTo
    <2>2. worker'[d] = "done"
      BY <1>0, <2>1 DEF ListInv
    <2> QED
      BY <2>2 DEF Holds
  <1>9. CASE Drain(d)
    <2>1. ConfigAhead(d)' = ConfigAhead(d)
      BY <1>0, <1>9, DrainKeeps
    <2>2. UNCHANGED <<worker, held, m_sockfd>>
      BY <1>9 DEF Drain
    <2> QED
      BY <1>0, <2>1, <2>2 DEF Holds
  <1>10. CASE Close(d) \/ RemoveClient(d)
    <2>1. m_sockfd'[d] # "open" /\ worker' = worker /\ held' = held
      BY <1>0, <1>10 DEF Close, RemoveClient, ClientTypes
    <2> QED
      BY <1>0, <2>1 DEF Holds
  <1> QED
    BY <1>0, <1>2, <1>3, <1>4, <1>5, <1>6, <1>7, <1>8, <1>9, <1>10 DEF Next, AdmitNext, MainNext, ClientTypes

\* A client that nothing happens to is where it was.
LEMMA ReachedKeeps ==
    ASSUME NEW d, Reached(d), Still(d), torn'[d] = torn[d], todo' = todo, told' = told,
           Settled' => Settled, serving' = serving, InLine(d)' <=> InLine(d)
    PROVE  Reached(d)'
  <1>1. Has(d)' = Has(d)
    BY StillHas
  <1> QED
    BY <1>1 DEF Reached, Still

\* The broadcast begins: who it finds in the list is in line, and who it
\* passes by has the configuration or is torn.
LEMMA ReachedSnapshot ==
    ASSUME ListInv, HeldInv, ClientTypes, NEW d \in Clients, Reached(d), Snapshot, Settled' <=> Settled
    PROVE  Reached(d)'
  <1>1. /\ Still(d) /\ todo' = todo /\ told' = told /\ serving' /\ clients' = m_flv_clients
        /\ torn'[d] = (torn[d] \/ Misses(d))
    BY DEF Snapshot, Still, feedVars, out
  <1>2. Has(d)' = Has(d)
    BY <1>1, StillHas
  <1> SUFFICES ASSUME m_sockfd[d] = "open", worker[d] \in {"enqueue", "add", "done"}, ~torn[d], ~Misses(d)
               PROVE  /\ Settled => Has(d) = told
                      /\ Head(todo).do = "config" /\ ~InLine(d)' => Has(d) = Head(todo).config
    BY <1>1, <1>2 DEF Reached, Still
  <1>3. Settled => Has(d) = told
    BY DEF Reached
  <1>4. ASSUME Head(todo).do = "config", ~InLine(d)' PROVE Has(d) = Head(todo).config
    <2>1. ~Listed(d)
      BY <1>1, <1>4 DEF InLine, Listed
    <2>2. worker[d] \in {"enqueue", "add"}
      BY <2>1 DEF ListInv
    <2>3. ~Contains(m_flv_clients, d)
      BY <2>1, EmptyOrNot DEF Contains, Listed, On, ListInv
    <2>4. held[d] = Head(todo).config
      BY <1>4, <2>2, <2>3 DEF Misses
    <2>5. Has(d) = held[d]
      BY <2>2 DEF Has, HeldInv, Holds
    <2> QED
      BY <2>4, <2>5
  <1> QED
    BY <1>3, <1>4

\* The loop, when no broadcast is under way, announces nothing.
LEMMA ReachedFeed ==
    ASSUME ListInv, NEW d, Reached(d), Feed, (Settled' => Settled) \/ Does("config")
    PROVE  Reached(d)'
  <1>1. /\ Still(d) /\ torn'[d] = torn[d] /\ LoopNext /\ told' = told
        /\ ~serving /\ serving' = serving
    BY LoopStill, FeedWaits DEF Still
  <1>2. ~Does("config")
    BY <1>1 DEF LoopNext, ParameterSet, PictureNal, Reopen, StoreConfig, WithdrawStream, Does
  <1>3. Has(d)' = Has(d)
    BY <1>1, StillHas
  <1> QED
    BY <1>1, <1>2, <1>3 DEF Reached, Still

\* When the announcement has reached every client in line, it has reached all.
LEMMA ReachedEnd ==
    ASSUME ListInv, NEW d, Reached(d), EndBroadcast,
           ((Settled' => Settled) /\ told' = told) \/ (Does("config") /\ told' = Head(todo).config)
    PROVE  Reached(d)'
  <1>1. Still(d) /\ torn'[d] = torn[d] /\ serving /\ clients = <<>> /\ serving' = FALSE
    BY LoopStill DEF Still, EndBroadcast
  <1>2. ~InLine(d)
    BY <1>1 DEF InLine, On
  <1>3. Has(d)' = Has(d)
    BY <1>1, StillHas
  <1>4. Does("config") => Head(todo).do = "config"
    BY DEF Does
  <1> QED
    BY <1>1, <1>2, <1>3, <1>4 DEF Reached, Still

LEMMA ReachStep ==
    ASSUME MinGop # 1, FeedInv, ConfigInv, MuxerInv, ClientInv, ClientInv', HeldInv, ReachInv, [Next]_vars
    PROVE  ReachInv'
  <1> SUFFICES ASSUME NEW d \in Clients PROVE Reached(d)'
    BY DEF ReachInv
  <1>0. Reached(d) /\ Holds(d) /\ ClientTypes /\ ClientTypes' /\ ListInv
    BY DEF ReachInv, HeldInv, ClientInv
  <1>m. /\ \/ (Settled' => Settled) /\ told' = told
           \/ Does("config") /\ told' = Head(todo).config
        /\ Head(todo).do = "config" /\ todo # <<>> => ~Settled
    BY MuxerStep, FeedMoves
  <1>1. CASE Feed
    BY <1>0, <1>1, <1>m, ReachedFeed
  <1>2. CASE EndBroadcast
    BY <1>0, <1>2, <1>m, ReachedEnd
  <1>3. ASSUME UNCHANGED <<todo, sps, pps, config_dirty>> PROVE Settled' <=> Settled
    BY <1>3 DEF Settled
  <1>4. CASE Snapshot
    <2>1. Settled' <=> Settled
      BY <1>3, <1>4 DEF Snapshot, feedVars, loop, muxer
    <2> QED
      BY <1>0, <1>4, <2>1, ReachedSnapshot
  <1>5. CASE UNCHANGED vars
    <2>1. /\ Still(d) /\ torn'[d] = torn[d] /\ (InLine(d)' <=> InLine(d))
          /\ UNCHANGED <<todo, told, serving, sps, pps, config_dirty>>
      BY <1>5 DEF vars, clientVars, connVars, listVars, feedVars, out, loop, muxer, Still, InLine
    <2> QED
      BY <1>0, <1>3, <2>1, ReachedKeeps
  <1>6. ASSUME NEW c \in Clients, c # d, AdmitNext(c) \/ EnqueueTo(c) \/ MainNext(c) PROVE Reached(d)'
    <2>1. Still(d) /\ torn'[d] = torn[d]
      BY <1>0, <1>6, OthersStill
    <2>2. UNCHANGED <<todo, told, serving, sps, pps, config_dirty>> /\ (InLine(d)' <=> InLine(d))
      BY <1>0, <1>6, LineStill
    <2> QED
      BY <1>0, <1>3, <2>1, <2>2, ReachedKeeps
  <1>7. CASE EnqueueTo(d)
    <2>1. /\ UNCHANGED <<todo, told, sps, pps, config_dirty, serving, worker, m_sockfd>>
          /\ serving /\ InLine(d)
      BY <1>0, <1>7, LineStill DEF EnqueueTo
    <2>2. Broadcasting /\ worker[d] = "done"
      BY <1>0, <2>1 DEF ListInv
    <2>3. Has(d) = ConfigAhead(d) /\ Has(d)' = ConfigAhead(d)'
      BY <2>1, <2>2 DEF Has
    <2>4. Settled' <=> Settled
      BY <1>3, <2>1
    <2>5. ASSUME NEW c \in Complete, Announcement(c), m_sockfd[d] = "open" PROVE Reached(d)'
      <3>1. ConfigAhead(d)' = c /\ ~Settled /\ Head(todo').config = c
        BY <1>7, <1>m, <2>1, <2>2, <2>5, EnqueueAhead DEF Announcement, Broadcasting
      <3> QED
        BY <2>3, <2>4, <3>1 DEF Reached
    <2>6. ASSUME NEW tag, Picture(tag), m_sockfd[d] = "open", ~torn'[d] PROVE Reached(d)'
      <3>1. ~torn[d] /\ ConfigAhead(d)' = ConfigAhead(d) /\ Head(todo').do = "video"
        BY <1>7, <2>1, <2>6, EnqueueAhead DEF Picture
      <3> QED
        BY <1>0, <2>1, <2>2, <2>3, <2>4, <2>6, <3>1 DEF Reached
    <2>7. m_sockfd[d] # "open" \/ torn'[d] => Reached(d)'
      BY <2>1 DEF Reached
    <2> QED
      BY <2>2, <2>5, <2>6, <2>7, BroadcastPacket
  <1>8. CASE ~EnqueueTo(d) /\ (AdmitNext(d) \/ MainNext(d))
    <2>1. /\ UNCHANGED <<todo, told, sps, pps, config_dirty, serving, m_flv_muxer>>
          /\ InLine(d)' <=> InLine(d)
      BY <1>0, <1>8, LineStill
    <2>2. Settled' <=> Settled
      BY <1>3, <2>1
    <2>3. CASE AskReady(d)
      <3>1. worker'[d] = "take"
        BY <1>0, <2>3 DEF AskReady, Steps, ClientTypes
      <3> QED
        BY <3>1 DEF Reached
    <2>4. CASE TakeSequenceHeader(d)
      <3>1. worker'[d] \in {"enqueue", "none"} /\ held'[d] = m_flv_muxer
        BY <1>0, <2>4 DEF TakeSequenceHeader, Steps, ClientTypes
      <3>2. /\ Settled => m_flv_muxer = told
            /\ serving /\ Head(todo).do = "config" => m_flv_muxer = Head(todo).config
        BY <1>0 DEF MuxerInv, ListInv, Broadcasting
      <3> QED
        BY <2>1, <2>2, <3>1, <3>2 DEF Reached, Has
    <2>5. CASE EnqueueHeaders(d)
      <3>1. worker[d] = "enqueue" /\ UNCHANGED <<held, m_sockfd, torn>> /\ Has(d) = held[d]
        BY <2>5 DEF EnqueueHeaders, Steps, Has
      <3>2. m_sockfd[d] = "open" => worker'[d] = "add" /\ ConfigAhead(d)' = held[d]
        BY <1>0, <2>5, HeadersAhead DEF EnqueueHeaders, Steps, ClientTypes
      <3>3. m_sockfd[d] = "open" => Has(d)' = Has(d)
        BY <3>1, <3>2 DEF Has
      <3> QED
        BY <1>0, <2>1, <2>2, <3>1, <3>3 DEF Reached
    <2>6. CASE AddClient(d)
      <3>1. /\ worker[d] = "add" /\ worker'[d] = "done"
            /\ UNCHANGED <<m_sockfd, torn, m_send_queue, given>>
        BY <1>0, <2>6 DEF AddClient, Steps, ClientTypes, connVars
      <3>2. ConfigAhead(d)' = ConfigAhead(d)
        BY <3>1 DEF ConfigAhead
      <3>3. Has(d)' = Has(d)
        BY <3>1, <3>2 DEF Has
      <3> QED
        BY <1>0, <2>1, <2>2, <3>1, <3>3 DEF Reached
    <2>7. CASE Drain(d)
      <3>1. ConfigAhead(d)' = ConfigAhead(d) /\ UNCHANGED <<worker, held, m_sockfd, torn>>
        BY <1>0, <2>7, DrainKeeps DEF Drain
      <3>2. Has(d)' = Has(d)
        BY <3>1 DEF Has
      <3> QED
        BY <1>0, <2>1, <2>2, <3>1, <3>2 DEF Reached
    <2>8. CASE Close(d) \/ RemoveClient(d)
      <3>1. m_sockfd'[d] # "open"
        BY <1>0, <2>8 DEF Close, RemoveClient, ClientTypes
      <3> QED
        BY <3>1 DEF Reached
    <2> QED
      BY <1>8, <2>3, <2>4, <2>5, <2>6, <2>7, <2>8 DEF AdmitNext, MainNext
  <1> QED
    BY <1>0, <1>1, <1>2, <1>4, <1>5, <1>6, <1>7, <1>8 DEF Next, ClientTypes

LEMMA InvMeansConfigReaches ==
    ASSUME FeedInv, ConfigInv, ClientInv, ClientInv', ReachInv, [Next]_vars,
           NEW c \in Clients, Receives(c), Head(todo).tag.whole, ~torn'[c]
    PROVE  ConfigAhead(c)' = Last(m_send_queue'[c]).config
  <1> DEFINE p == PacketOf(Head(todo))
  <1>1. EnqueueTo(c) /\ m_sockfd[c] = "open" /\ (\E tag : Picture(tag)) /\ Last(m_send_queue'[c]) = p
    BY ReceivesMeans
  <1>2. PICK tag : Picture(tag)
    BY <1>1
  <1>3. Head(todo).do = "video" /\ Head(todo).tag = tag /\ p.config = ConfigOf(tag)
    BY <1>2, PacketFields DEF Picture
  <1>4. serving /\ InLine(c) /\ worker[c] = "done" /\ todo # <<>>
    BY <1>1, LineStill DEF ClientInv, ListInv, Broadcasting
  <1>5. told = ConfigOf(tag)
    BY <1>3, <1>4, PictureIsAnnounced
  <1>6. Settled
    BY <1>3, <1>4, HeadOther DEF Settled
  <1>7. ~torn[c] /\ ConfigAhead(c)' = ConfigAhead(c)
    BY <1>1, <1>2, EnqueueAhead
  <1>8. ConfigAhead(c) = told
    BY <1>1, <1>4, <1>6, <1>7 DEF ReachInv, Reached, Has
  <1> QED
    BY <1>1, <1>3, <1>5, <1>7, <1>8

\* A client can decode what it gets: a whole picture enters its queue behind
\* the configuration it needs, whenever the client joined, unless a changed
\* configuration passed it by (start_flv_stream() and
\* broadcast_flv_packet(), src/stream_manager.cpp).  MinGop # 1 is what
\* ConfigurationFirst needs: otherwise pictures are sent unannounced.
THEOREM ConfigurationReaches ==
    ASSUME MinGop # 1
    PROVE  Spec => ConfigReachesClient
  <1>1. BroadcastInit => ConfigInv /\ MuxerInv /\ HeldInv /\ ReachInv
    <2>1. BroadcastInit => ConfigInv
      BY ConfigInvInit DEF BroadcastInit
    <2>2. BroadcastInit => MuxerInv
      BY PlansNothing DEF BroadcastInit, Init, MuxerInv, Settled, Ready
    <2>3. BroadcastInit => HeldInv /\ ReachInv
      BY DEF BroadcastInit, HeldInv, Holds, ReachInv, Reached
    <2> QED
      BY <2>1, <2>2, <2>3
  <1>2. FeedInv /\ ConfigInv /\ [Next]_vars => ConfigInv'
    BY FeedMoves, ConfigInvStep
  <1>3. FeedInv /\ ConfigInv /\ MuxerInv /\ [Next]_vars => MuxerInv'
    BY FeedMoves, MuxerStep
  <1>4. MuxerInv /\ ClientInv /\ ClientInv' /\ HeldInv /\ [Next]_vars => HeldInv'
    BY HeldStep
  <1>5. FeedInv /\ ConfigInv /\ MuxerInv /\ ClientInv /\ ClientInv' /\ HeldInv /\ ReachInv /\ [Next]_vars
        => ReachInv'
    BY ReachStep
  <1>6. FeedInv /\ ConfigInv /\ ClientInv /\ ClientInv' /\ ReachInv /\ [Next]_vars =>
            [\A c \in Clients :
                Receives(c) /\ Head(todo).tag.whole /\ ~torn'[c]
                => ConfigAhead(c)' = Last(m_send_queue'[c]).config]_vars
    BY InvMeansConfigReaches
  <1> QED
    BY <1>1, <1>2, <1>3, <1>4, <1>5, <1>6, FeedAlways, ClientsAlways, PTL
       DEF Spec, ConfigReachesClient
=============================================================================
