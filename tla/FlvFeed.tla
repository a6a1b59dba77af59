------------------------------ MODULE FlvFeed ------------------------------
(***************************************************************************)
(* The loop of the FLV source thread (run_flv_source() in                  *)
(* src/stream_manager.cpp) with the access unit assembler of               *)
(* src/h264_parser.cpp: NAL units come from an encoder or a file, slices   *)
(* are gathered into pictures, parameter sets go into the muxer, and tags  *)
(* are broadcast.  How the thread is started and stopped is in FlvSource,  *)
(* what becomes of a tag for one client in StreamConn.                     *)
(* A NAL is a record: its type, the picture it belongs to, how many slices *)
(* that picture has, and the configuration (SPS and PPS) it needs.         *)
(***************************************************************************)
EXTENDS Naturals, SequencesExt

CONSTANTS MaxPictures,  \* bound on the pictures of a behaviour
          MaxConfigs,   \* bound on the different configurations
          MaxOpenings,  \* bound on how often the source is opened
          MinGop        \* pictures between parameter sets without delimiters

ASSUME FeedAssumption == {MaxPictures, MaxConfigs, MaxOpenings, MinGop} \subseteq Nat \ {0}

VARIABLES
    enc,            \* encoder: [delimits, stage, pic, cfg, slices, left, since, idr]
    openings,       \* how often the source has been opened
    m_current, m_pending_non_vcl, m_has_vcl,    \* the assembler
    sps, pps,       \* local_muxer: configuration of each set, 0 for none
    config_dirty, frame_index,
    todo,           \* what the loop has still to do for the NAL in hand
    m_flv_muxer,    \* the manager's muxer: <<sps, pps>>
    m_flv_ready,
    told,           \* the configuration of the last sequence header broadcast
    sent            \* the last video tag broadcast

assembler == <<m_current, m_pending_non_vcl, m_has_vcl>>
muxer == <<sps, pps, config_dirty>>
manager == <<m_flv_muxer, m_flv_ready>>
out == <<told, sent>>
loop == <<enc, openings, assembler, muxer, frame_index>>
feedVars == <<loop, todo, manager, out>>

Types == {"aud", "sps", "pps", "sei", "first", "next"}
Nals == [type : Types, pic : 1 .. MaxPictures + 1, of : 1 .. 2,
         cfg : 0 .. MaxConfigs, key : BOOLEAN]
Configs == (0 .. MaxConfigs) \X (0 .. MaxConfigs)
NoTag == [nals |-> <<>>, opening |-> 0, ts |-> 0, whole |-> TRUE]
\* The steps of the loop that other threads notice: the manager's muxer takes
\* the parameter sets over, a failed open withdraws the stream, a tag is broadcast.
Step(what, config, tag) == [do |-> what, config |-> config, tag |-> tag]
IsVcl(n) == n.type \in {"first", "next"}

\* The types; the assembler knows whether it holds a slice, and a client is
\* admitted (m_flv_ready) only when there is a sequence header to send it.
TypeOK ==
    /\ enc \in [delimits : BOOLEAN, stage : {"free", "aud", "sps", "pps", "sei"},
                pic : 0 .. MaxPictures, cfg : 0 .. MaxConfigs, slices : 1 .. 2,
                left : 0 .. 1, since : 0 .. MinGop, idr : BOOLEAN]
    /\ openings \in 1 .. MaxOpenings
    /\ m_current \in Seq(Nals) /\ m_pending_non_vcl \in Seq(Nals)
    /\ m_has_vcl = (m_current # <<>>)
    /\ sps \in 0 .. MaxConfigs /\ pps \in 0 .. MaxConfigs
    /\ config_dirty \in BOOLEAN /\ frame_index \in 0 .. MaxPictures
    /\ \A i \in DOMAIN todo :
           /\ todo[i].do \in {"store", "withdraw", "config", "video"}
           /\ todo[i].config \in Configs
    /\ Len(todo) <= 3
    /\ m_flv_muxer \in Configs /\ m_flv_ready \in BOOLEAN
    /\ m_flv_ready => m_flv_muxer[1] # 0 /\ m_flv_muxer[2] # 0

Opened(delimits, pic, cfg) ==
    [delimits |-> delimits, stage |-> "free", pic |-> pic, cfg |-> cfg,
     slices |-> 1, left |-> 0, since |-> MinGop, idr |-> FALSE]

Init ==
    /\ enc \in {Opened(d, 0, 0) : d \in BOOLEAN} /\ openings = 1
    /\ m_current = <<>> /\ m_pending_non_vcl = <<>> /\ m_has_vcl = FALSE
    /\ sps = 0 /\ pps = 0 /\ config_dirty = FALSE /\ frame_index = 0
    /\ todo = <<>>
    /\ m_flv_muxer = <<0, 0>> /\ m_flv_ready = FALSE
    /\ told = <<0, 0>> /\ sent = NoTag

-----------------------------------------------------------------------------
\* The encoder: the order in which H.264 lets the units of a picture come.
\* An IDR picture follows parameter sets, which later ones need not repeat; when
\* pictures are not delimited by AUDs sets come at most every MinGop pictures.
Before(stages) == enc.left = 0 /\ enc.stage \in stages
\* Where a picture may begin.
Begun == IF enc.delimits THEN {"aud"} ELSE {"free"}

Encode(n) ==
    /\ n.type = "next" \/ n.pic = enc.pic + 1
    /\ CASE n.type = "aud" ->
              /\ enc.delimits /\ Before({"free"})
              /\ enc' = [enc EXCEPT !.stage = "aud"]
         [] n.type = "sps" ->
              /\ Before(Begun) /\ (enc.delimits \/ enc.since = MinGop)
              /\ n.cfg \in {enc.cfg, enc.cfg + 1} \ {0}
              /\ enc' = [enc EXCEPT !.stage = "sps", !.cfg = n.cfg, !.since = 0, !.idr = TRUE]
         [] n.type = "pps" ->
              /\ Before({"sps"}) /\ n.cfg = enc.cfg
              /\ enc' = [enc EXCEPT !.stage = "pps"]
         [] n.type = "sei" ->
              /\ Before(Begun \cup {"pps"}) /\ n.cfg = enc.cfg
              /\ enc' = [enc EXCEPT !.stage = "sei"]
         [] n.type = "first" ->
              /\ Before(Begun \cup {"pps", "sei"}) /\ n.cfg = enc.cfg /\ (enc.idr => n.key)
              /\ enc.pic < MaxPictures
              /\ enc' = [enc EXCEPT !.stage = "free", !.pic = n.pic, !.slices = n.of,
                                    !.left = n.of - 1, !.idr = FALSE,
                                    !.since = IF @ < MinGop THEN @ + 1 ELSE @]
         [] n.type = "next" ->
              /\ enc.left > 0
              /\ n.pic = enc.pic /\ n.of = enc.slices /\ n.cfg = enc.cfg
              /\ enc' = [enc EXCEPT !.left = @ - 1]
    \* what a unit of that type does not carry
    /\ n.type # "first" => ~n.key
    /\ n.type \notin {"first", "next"} => n.of = 1
    /\ n.type = "aud" => n.cfg = enc.cfg

-----------------------------------------------------------------------------
\* The assembler: what is left in it, and the access unit it completes.
Keeps(current, pending) == [current |-> current, pending |-> pending, completed |-> <<>>]

Flush == [current |-> <<>>, pending |-> m_pending_non_vcl, completed |-> m_current]

\* begin_access_unit_if_needed() with the slice that begins or goes on.
Begin(n) ==
    IF m_has_vcl THEN Keeps(Append(m_current, n), m_pending_non_vcl)
                 ELSE Keeps(Append(m_pending_non_vcl, n), <<>>)

\* Wrong variant: first_mb_in_slice is not looked at.
PushEverySlice(n) ==
    IF n.type = "aud" THEN Flush
    ELSE IF ~IsVcl(n) THEN Keeps(m_current, Append(m_pending_non_vcl, n))
    ELSE IF m_has_vcl
    THEN [current |-> Append(m_pending_non_vcl, n), pending |-> <<>>, completed |-> m_current]
    ELSE Begin(n)

Push(n) ==
    IF n.type = "aud" THEN Flush
    ELSE IF ~IsVcl(n) THEN Keeps(m_current, Append(m_pending_non_vcl, n))
    ELSE IF m_has_vcl /\ n.type = "first"
    THEN [current |-> Append(m_pending_non_vcl, n), pending |-> <<>>, completed |-> m_current]
    ELSE Begin(n)

Assemble(r) ==
    /\ m_current' = r.current /\ m_pending_non_vcl' = r.pending
    /\ m_has_vcl' = (r.current # <<>>)

-----------------------------------------------------------------------------
\* FlvMuxer::ready(), and what is broadcast.
\* (ReadyBySps: wrong variant, one of the two sets is enough.)
ReadyBySps(s, p) == s # 0
Ready(s, p) == s # 0 /\ p # 0
VideoTag(au, whole) == [nals |-> au, opening |-> openings, ts |-> frame_index, whole |-> whole]

\* A picture is sent if the muxer is ready, else it is lost.
Sendable(au) == au # <<>> /\ Ready(sps, pps)
Pictured(au, whole) ==
    IF Sendable(au) THEN <<Step("video", <<0, 0>>, VideoTag(au, whole))>> ELSE <<>>
CountPicture(au) == frame_index' = IF Sendable(au) THEN frame_index + 1 ELSE frame_index

\* An SPS or PPS ends the picture before it and goes into the muxer; as soon
\* as both are there the manager's muxer takes them over.
StoreParameterSet(n) ==
    /\ sps' = IF n.type = "sps" THEN n.cfg ELSE sps
    /\ pps' = IF n.type = "pps" THEN n.cfg ELSE pps
    /\ config_dirty' = TRUE
Stored == IF Ready(sps', pps') THEN <<Step("store", <<sps', pps'>>, NoTag)>> ELSE <<>>

\* Wrong variant: the picture that the set ends is forgotten.
ForgetPicture(n) ==
    /\ todo = <<>> /\ n.type \in {"sps", "pps"} /\ Encode(n)
    /\ Assemble(Flush)
    /\ StoreParameterSet(n)
    /\ todo' = Stored
    /\ UNCHANGED <<openings, frame_index, manager, out>>

ParameterSet(n) ==
    /\ todo = <<>> /\ n.type \in {"sps", "pps"} /\ Encode(n)
    /\ Assemble(Flush)
    /\ StoreParameterSet(n)
    /\ todo' = Pictured(m_current, TRUE) \o Stored
    /\ CountPicture(m_current)
    /\ UNCHANGED <<openings, manager, out>>

\* Any other NAL may complete a picture; a configuration that has changed
\* since the last one sent is announced before it.
\* Wrong variant: only new clients get a changed configuration.
AnnounceNothing == IF config_dirty THEN <<Step("store", <<sps, pps>>, NoTag)>> ELSE <<>>
Announce ==
    IF config_dirty
    THEN <<Step("store", <<sps, pps>>, NoTag), Step("config", <<sps, pps>>, NoTag)>>
    ELSE <<>>

PictureNal(n) ==
    /\ todo = <<>> /\ n.type \notin {"sps", "pps"} /\ Encode(n)
    /\ Assemble(Push(n))
    /\ LET au == Push(n).completed IN
       /\ todo' = IF Sendable(au) THEN Announce \o Pictured(au, TRUE) ELSE <<>>
       /\ config_dirty' = (config_dirty /\ ~Sendable(au))
       /\ CountPicture(au)
    /\ UNCHANGED <<openings, sps, pps, manager, out>>

\* The source ends, perhaps within a picture: what is there of it is sent,
\* and the source is opened again with a new assembler and a new muxer,
\* possibly after openings that fail.
Reopen(cfg, fails) ==
    /\ todo = <<>>
    /\ openings < MaxOpenings /\ openings' = openings + 1
    /\ todo' = Pictured(m_current, FALSE)
               \o (IF fails THEN <<Step("withdraw", <<0, 0>>, NoTag)>> ELSE <<>>)
    /\ CountPicture(m_current)
    /\ m_current' = <<>> /\ m_pending_non_vcl' = <<>> /\ m_has_vcl' = FALSE
    /\ sps' = 0 /\ pps' = 0 /\ config_dirty' = FALSE
    /\ enc' = Opened(enc.delimits, enc.pic, cfg)
    /\ UNCHANGED <<manager, out>>

\* The steps under the manager's lock.
Does(what) == todo # <<>> /\ Head(todo).do = what /\ todo' = Tail(todo)

StoreConfig ==
    /\ Does("store")
    /\ m_flv_muxer' = Head(todo).config /\ m_flv_ready' = TRUE
    /\ UNCHANGED <<loop, out>>

WithdrawStream ==
    /\ Does("withdraw")
    /\ m_flv_ready' = FALSE
    /\ UNCHANGED <<loop, m_flv_muxer, out>>

\* The broadcasts are over for every client (FlvBroadcast has their steps).
BroadcastDone ==
    /\ \/ Does("config") /\ told' = Head(todo).config /\ UNCHANGED sent
       \/ Does("video") /\ sent' = Head(todo).tag /\ UNCHANGED told
    /\ UNCHANGED <<loop, manager>>

LoopNext ==
    \/ \E n \in Nals : ParameterSet(n) \/ PictureNal(n)
    \/ \E cfg \in 0 .. enc.cfg, fails \in BOOLEAN : Reopen(cfg, fails)
    \/ StoreConfig \/ WithdrawStream

-----------------------------------------------------------------------------
Slices(nals) == {i \in DOMAIN nals : IsVcl(nals[i])}

\* "One complete picture" (h264_parser.h): a video tag holds the units of one
\* picture, and all of its slices unless the source ended within it.
AccessUnitIsOnePicture ==
    /\ \A i, j \in DOMAIN sent.nals : sent.nals[i].pic = sent.nals[j].pic
    /\ sent.whole /\ sent # NoTag => Cardinality(Slices(sent.nals)) = Last(sent.nals).of

\* Pictures are sent in order, with growing timestamps, and none is left out
\* between two of the same opening of the source.
PicOf(tag) == tag.nals[1].pic

NoPictureSkipped ==
    [][sent' # sent /\ sent # NoTag =>
        /\ sent.ts < sent'.ts /\ PicOf(sent) < PicOf(sent')
        /\ sent.opening = sent'.opening => PicOf(sent') = PicOf(sent) + 1]_feedVars

\* A client that listens from the beginning has been told the configuration
\* of every picture before it gets the picture.
ConfigBeforeVideo ==
    [][sent' # sent /\ sent'.whole =>
        told = <<sent'.nals[1].cfg, sent'.nals[1].cfg>>]_feedVars
=============================================================================
