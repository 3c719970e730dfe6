--------------------------- MODULE RenditionMedia ---------------------------
(***************************************************************************)
(* One rendition as data: what a child encoder makes of a source, what it  *)
(* claims about it in result.json, and what the finalizer believes.  The   *)
(* finalizer takes no claim on trust: it inspects the stored objects again *)
(* and the master describes what it has found, not what was claimed.       *)
(*                                                                         *)
(* Texts are abstracted to what the two programs read from them: a media    *)
(* playlist is its first line, whether a tag names a URI, and its media     *)
(* references, each with the EXTINF line before it; a transport stream is   *)
(* its length and what ffprobe reports of it.                              *)
(***************************************************************************)
EXTENDS Integers, Sequences, FiniteSetsExt

CONSTANTS
  Rendition,     \* a part of {"360p", "720p"}
  Dimension,     \* widths and heights ffprobe reports of a source
  Length,        \* lengths of files, in bytes
  Seconds,       \* durations of segments, whole seconds
  MaxReferences, \* bound on the references of a playlist
  SourceLimit,   \* source_bytes of the limits of a child
  ReadLimit,     \* what the storage client reads of an object at most
  U32Max         \* the largest value of a u32

ASSUME MediaAssumption ==
  /\ Rendition \subseteq {"360p", "720p"}
  /\ Dimension \subseteq Nat /\ Length \subseteq Nat /\ Seconds \subseteq Nat
  /\ (\E n \in Length : n > 0) /\ (\E s \in Seconds : s > 0)
  /\ MaxReferences \in Nat \ {0} /\ U32Max \in Nat \ {0}
  /\ ReadLimit \in Nat /\ SourceLimit = ReadLimit     \* 64 MiB

VARIABLES
  stage,    \* "encode", "failed", "finalize", "accepted" or "refused"
  media,    \* the source, and what FFmpeg makes of it
  result,   \* result.json
  stored,   \* the objects the finalizer finds
  intact,   \* they are the ones the encoder has uploaded
  variant   \* the entry of the master

mediaVars == <<stage, media, result, stored, intact, variant>>

\* EXTINF: its value, or none before the reference, or not a number.
NoExtinf == -2
NotANumber == -1

\* A reference is the number of its segment, or Foreign if it is anything else.
Foreign == 99999

Reference == [name: 0..MaxReferences \cup {Foreign},
              extinf: Seconds \cup {NoExtinf, NotANumber}]

MediaPlaylist == [header: BOOLEAN, uri: BOOLEAN,
                  references: UNION {[1..n -> Reference] : n \in 0..MaxReferences}]

\* What ffprobe reports of an encoded stream.  A known profile stands for one
\* with a level, too; AAC without a profile is taken for LC.
Probe == [ width: Nat, height: Nat, video: {"none", "h264", "other"},
           profile: {"known", "unknown"}, audio: {"none", "aac", "other"} ]

Picture == [ rendition: Rendition, width: Dimension, height: Dimension,
             audio: BOOLEAN, video: {"h264", "other"}, profile: {"known", "unknown"} ]

\* The files FFmpeg leaves: segments 0 to n - 1, and their lengths.
Files == UNION {[0..(n - 1) -> Length] : n \in 1..MaxReferences}

\* A good playlist of one reference.
PlainPlaylist ==
  [ header |-> TRUE, uri |-> FALSE,
    references |-> <<[name |-> 0, extinf |-> CHOOSE s \in Seconds : s > 0]>> ]

NoUpload == [ playlist |-> PlainPlaylist, files |-> <<>>, mime |-> FALSE,
              probe |-> [width |-> 0, height |-> 0, video |-> "none",
                         profile |-> "unknown", audio |-> "none"] ]

NoResult == [ identity |-> FALSE, descriptors |-> FALSE, width |-> 0, height |-> 0,
              bandwidth |-> 0, codecs |-> <<>>, lengths |-> <<>> ]

NoVariant == [width |-> 0, height |-> 0, bandwidth |-> 0, codecs |-> <<>>]

PlainPicture ==
  [ rendition |-> "720p", width |-> 1280, height |-> 720, audio |-> TRUE,
    video |-> "h264", profile |-> "known" ]

PlainFiles == [i \in {0} |-> CHOOSE n \in Length : n > 0]

Media(lengths, pictures, playlists, files) ==
  [length: lengths, picture: pictures, playlist: playlists, files: files]

\* The source and the output are varied one at a time: nothing in the code
\* looks at both.
MediaInit ==
  /\ stage = "encode" /\ intact = TRUE
  /\ result = NoResult /\ stored = NoUpload /\ variant = NoVariant
  /\ media \in Media(Length, {PlainPicture}, {PlainPlaylist}, {PlainFiles})
              \cup Media({SourceLimit}, Picture, {PlainPlaylist}, {PlainFiles})
              \cup Media({SourceLimit}, {PlainPicture}, MediaPlaylist, Files)

-----------------------------------------------------------------------------
(* Dimensions.                                                             *)

Ceiling(r) == IF r = "360p" THEN <<640, 360>> ELSE <<1280, 720>>

UsableDimensions(w, h) == w > 0 /\ h > 0 /\ w % 2 = 0 /\ h % 2 = 0

\* The scale as a fraction: the smallest of the two ratios and one.
ScaleOf(w, h, mw, mh) ==
  IF w <= mw /\ h <= mh THEN <<1, 1>>
  ELSE IF mw * h <= mh * w THEN <<mw, w>> ELSE <<mh, h>>

\* Faulty variant: odd dimensions are kept.
EvenDownIdentity(n) == n

EvenDown(n) == n - (n % 2)

\* The product is computed in binary floating point: where it is a whole
\* number and the scale is not one, it may come out a little below.
Floored(x, s) ==
  {(x * s[1]) \div s[2]} \cup
  (IF s[1] # s[2] /\ (x * s[1]) % s[2] = 0 THEN {(x * s[1]) \div s[2] - 1} ELSE {})

ScaledDimensions(w, h, r) ==
  LET s == ScaleOf(w, h, Ceiling(r)[1], Ceiling(r)[2]) IN
  { <<Max({EvenDown(x), 2}), Max({EvenDown(y), 2})>> :
      x \in Floored(w, s), y \in Floored(h, s) }

-----------------------------------------------------------------------------
(* Playlists and bandwidth.                                                *)

CeilDiv(n, d) == (n + d - 1) \div d

\* The elements of s at the given positions, in their order.
Selected(s, positions) ==
  [ k \in 1..Cardinality(positions) |->
      s[CHOOSE i \in positions : Cardinality({j \in positions : j <= i}) = k] ]

\* The EXTINF values of a playlist in their order.
Extinfs(p) ==
  Selected([i \in 1..Len(p.references) |-> p.references[i].extinf],
           {i \in 1..Len(p.references) : p.references[i].extinf # NoExtinf})

\* validate_hls_output: the references are exactly the segments from 0 on.
InOrder(references) ==
  \A i \in 1..Len(references) : references[i].name = i - 1

ValidHlsOutput(p, files) ==
  /\ p.header /\ ~p.uri
  /\ p.references # <<>> /\ InOrder(p.references)
  /\ \A i \in 1..Len(p.references) : (i - 1) \in DOMAIN files

\* Faulty variant: rounded down.
BitsPerSecondDown(length, seconds) == (8 * length) \div seconds

BitsPerSecond(length, seconds) == CeilDiv(8 * length, seconds)

\* The encoder leaves out what it cannot read and takes six seconds where
\* nothing is left; a segment without a positive duration does not count.
ClaimedBandwidth(p, files) ==
  LET values == Extinfs(p)
      read == Selected(values, {i \in 1..Len(values) : values[i] # NotANumber})
      duration(i) == IF i <= Len(read) THEN read[i] ELSE 6
      counted == {i \in 1..Len(p.references) : duration(i) > 0}
  IN Max({1} \cup {BitsPerSecond(files[i - 1], duration(i)) : i \in counted})

\* The finalizer refuses every duration it cannot use.
UsableExtinfs(p, n) ==
  /\ Len(Extinfs(p)) = n
  /\ \A i \in 1..n : Extinfs(p)[i] > 0

ActualBandwidth(p, files) ==
  Max({0} \cup {CeilDiv(8 * files[i - 1], Extinfs(p)[i]) : i \in 1..Len(p.references)})

-----------------------------------------------------------------------------
(* Codecs.                                                                 *)

KnownCodecs(probe) ==
  /\ probe.video = "h264" /\ probe.profile = "known"
  /\ probe.audio # "other"

Codecs(probe) ==
  IF probe.audio = "none" THEN <<probe.video>> ELSE <<probe.video, probe.audio>>

-----------------------------------------------------------------------------
(* encode_child_with: what a child makes of its source.                    *)

\* FFmpeg writes the dimensions it is told to.
Encoded(m, w, h) ==
  [ width |-> w, height |-> h, video |-> m.picture.video,
    profile |-> m.picture.profile, audio |-> IF m.picture.audio THEN "aac" ELSE "none" ]

Upload(m, w, h) ==
  [ playlist |-> m.playlist, files |-> m.files, probe |-> Encoded(m, w, h),
    mime |-> TRUE ]

Claims(m, w, h) ==
  [ identity |-> TRUE, descriptors |-> TRUE, width |-> w, height |-> h,
    bandwidth |-> ClaimedBandwidth(m.playlist, m.files),
    codecs |-> Codecs(Encoded(m, w, h)),
    lengths |-> [i \in 1..Len(m.playlist.references) |-> m.files[i - 1]] ]

\* read_bounded; there is nothing ffprobe could say of an empty source.
SourceUsable(m) == m.length \in 1..SourceLimit

EncodeRefuses(m) ==
  \/ ~SourceUsable(m)
  \/ ~UsableDimensions(m.picture.width, m.picture.height)
  \/ ~ValidHlsOutput(m.playlist, m.files)
  \/ ~KnownCodecs(Encoded(m, 0, 0))
  \/ \E i \in 1..Len(m.playlist.references) : m.files[i - 1] = 0

EncodeChild ==
  /\ stage = "encode"
  /\ IF EncodeRefuses(media)
     THEN stage' = "failed" /\ UNCHANGED <<result, stored>>
     ELSE \E d \in ScaledDimensions(media.picture.width, media.picture.height, media.picture.rendition) :
            /\ stage' = "finalize"
            /\ result' = Claims(media, d[1], d[2])
            /\ stored' = Upload(media, d[1], d[2])
  /\ UNCHANGED <<media, intact, variant>>

DifferingResult ==
  \/ result' = [result EXCEPT !.identity = FALSE]
  \/ result' = [result EXCEPT !.descriptors = FALSE]
  \/ \E d \in Dimension : result' = [result EXCEPT !.width = d]
  \/ \E d \in Dimension : result' = [result EXCEPT !.height = d]
  \/ result' = [result EXCEPT !.bandwidth = 0]
  \/ result' = [result EXCEPT !.codecs = <<>>]
  \/ result' = [result EXCEPT !.lengths = Tail(@)]

DifferingObject ==
  \/ stored' = [stored EXCEPT !.mime = FALSE]
  \/ \E i \in DOMAIN stored.files, n \in Length :
       stored' = [stored EXCEPT !.files[i] = n]
  \/ \E d \in Dimension : stored' = [stored EXCEPT !.probe.width = d]
  \/ \E d \in Dimension : stored' = [stored EXCEPT !.probe.height = d]
  \/ \E v \in {"none", "other"} : stored' = [stored EXCEPT !.probe.video = v]
  \/ \E i \in DOMAIN stored.playlist.references, x \in Reference :
       stored' = [stored EXCEPT !.playlist.references[i] = x]

\* Something the finalizer finds is not what the encoder has uploaded.
Differ ==
  /\ stage = "finalize" /\ intact
  /\ intact' = FALSE
  /\ (DifferingResult /\ UNCHANGED stored) \/ (DifferingObject /\ UNCHANGED result)
  /\ UNCHANGED <<stage, media, variant>>

-----------------------------------------------------------------------------
(* The finalizer.                                                          *)

Fits(w, h, r) == w <= Ceiling(r)[1] /\ h <= Ceiling(r)[2]

ValidResult(x, r) ==
  /\ x.identity /\ x.descriptors
  /\ x.width > 0 /\ x.height > 0 /\ Fits(x.width, x.height, r)
  /\ x.bandwidth \in 1..U32Max      \* deserialized into a u32
  /\ x.codecs # <<>>

\* fetch: a longer object is not read.
Readable(length) == length <= ReadLimit

\* Every object is described, of its MIME type, not empty, and as long as the
\* result says.
ValidObjects(x, s) ==
  /\ s.mime
  /\ InOrder(s.playlist.references)
  /\ Len(s.playlist.references) = Len(x.lengths)
  /\ \A i \in 1..Len(x.lengths) :
       x.lengths[i] > 0 /\ (i - 1) \in DOMAIN s.files /\ s.files[i - 1] = x.lengths[i]
       /\ Readable(s.files[i - 1])

\* Faulty variant: the ceiling holds for claims only.
ActualFitsSource(p, m) == p.width <= m.picture.width /\ p.height <= m.picture.height

ActualFits(p, m) ==
  /\ Fits(p.width, p.height, m.picture.rendition)
  /\ p.width <= m.picture.width /\ p.height <= m.picture.height

\* inspect_actual_media, from the first segment.
ActualMediaValid(s, m) ==
  /\ Len(s.playlist.references) > 0
  /\ UsableDimensions(s.probe.width, s.probe.height)
  /\ KnownCodecs(s.probe)
  /\ ActualFits(s.probe, m)
  /\ UsableExtinfs(s.playlist, Len(s.playlist.references))

\* inspect_source
SourceInspected(m) ==
  /\ m.length > 0 /\ Readable(m.length)
  /\ UsableDimensions(m.picture.width, m.picture.height)

FinalizerAccepts ==
  /\ SourceInspected(media)
  /\ ValidResult(result, media.picture.rendition)
  /\ ValidObjects(result, stored)
  /\ ActualMediaValid(stored, media)

VariantOf(s) ==
  [ width |-> s.probe.width, height |-> s.probe.height,
    bandwidth |-> ActualBandwidth(s.playlist, s.files), codecs |-> Codecs(s.probe) ]

Inspect ==
  /\ stage = "finalize"
  /\ IF FinalizerAccepts
     THEN stage' = "accepted" /\ variant' = VariantOf(stored)
     ELSE stage' = "refused" /\ UNCHANGED variant
  /\ UNCHANGED <<media, result, stored, intact>>

MediaNext == EncodeChild \/ Differ \/ Inspect

MediaSpec == MediaInit /\ [][MediaNext]_mediaVars

-----------------------------------------------------------------------------
(* Properties.                                                             *)

\* FFmpeg writes what it is told to, and its playlists have one positive
\* duration per reference; what one cannot exclude is a duration it rounds to
\* zero, a rate too high for the finalizer's u32, and a segment too long for it
\* to read.
Publishable(m) ==
  /\ UsableExtinfs(m.playlist, Len(m.playlist.references))
  /\ ClaimedBandwidth(m.playlist, m.files) <= U32Max
  /\ \A i \in 1..Len(m.playlist.references) : Readable(m.files[i - 1])

\* An encoder that succeeds has not worked in vain: the finalizer refuses an
\* intact rendition for nothing but a duration of zero, a rate or a segment out
\* of range, although the two programs check and compute everything separately.
SuccessfulEncodeAccepted ==
  stage = "refused" /\ intact => ~Publishable(media)

\* What the master says of a rendition is so, whatever the result claims: the
\* dimensions are those of the stored stream, within the ceiling and never
\* more than the source has, and the bandwidth is enough for every segment.
VariantTruthful ==
  stage = "accepted" =>
    /\ variant.width = stored.probe.width /\ variant.width <= media.picture.width
    /\ variant.height = stored.probe.height /\ variant.height <= media.picture.height
    /\ Fits(variant.width, variant.height, media.picture.rendition)
    /\ \A i \in 1..Len(stored.playlist.references) :
         LET x == stored.playlist.references[i] IN
         /\ x.name = i - 1
         /\ 8 * stored.files[i - 1] <= variant.bandwidth * x.extinf

\* For an intact rendition claim and finding agree, although one is computed
\* from the local files, with defaults, and the other from the stored objects.
ClaimsConfirmed ==
  stage = "accepted" /\ intact =>
    variant = [ width |-> result.width, height |-> result.height,
                bandwidth |-> result.bandwidth, codecs |-> result.codecs ]
=============================================================================
