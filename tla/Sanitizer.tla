------------------------------ MODULE Sanitizer --------------------------------
(***************************************************************************)
(* stripExifFromJpeg and stripMetadataFromPng of the attachments module:   *)
(* the loops that walk through the segments of an uploaded image and leave *)
(* out those that hold metadata.  Bytes are numbers; the length, the type  *)
(* and the checksum of a PNG chunk take one byte each instead of four.     *)
(***************************************************************************)
EXTENDS Naturals, Sequences, FiniteSets, SequencesExt

CONSTANTS
    Jpegs,              \* images: [segments, tail], tail from the first scan on
    Pngs,               \* images: sequences of chunks
    Buffers             \* files that begin like an image and go on anyhow

VARIABLES
    image,              \* what was uploaded: [format, of]
    buffer,             \* its bytes, without the signature
    offset, pieces, wasSanitized,
    scanning, pass      \* the loop runs; 2: it runs over its own result

sanVars == <<image, buffer, offset, pieces, wasSanitized, scanning, pass>>

FF == 255
EOI == 217      SOS == 218      IEND == 73
Metadata == {225, 226, 254}             \* APP1, APP2 and COM stand for APP1..APP15 and COM
Standalone == {1, 208}                  \* TEM, RST0 for RST0..RST7
TextChunks == {101, 116}                \* eXIf, and tEXt for the others

SanitizerAssumption ==
    \A b \in Buffers : \A i \in DOMAIN b : b[i] \in 0 .. FF

(***************************************************************************)
(* The formats.                                                            *)
(***************************************************************************)
SegmentBytes(s) ==
    [i \in 1 .. s.fill + 1 |-> FF] \o <<s.marker>>
    \o (IF s.marker \in Standalone THEN <<>> ELSE <<0, Len(s.payload) + 2>> \o s.payload)
JpegBytes(segments, tail) ==
    FlattenSeq([i \in DOMAIN segments |-> SegmentBytes(segments[i])]) \o tail
ChunkBytes(c) == <<Len(c.data), c.type>> \o c.data \o <<0>>
PngBytes(chunks) == FlattenSeq([i \in DOMAIN chunks |-> ChunkBytes(chunks[i])])

BytesOf(format, of) ==
    CASE format = "jpeg" -> JpegBytes(of.segments, of.tail)
      [] format = "png"  -> PngBytes(of)
      [] OTHER           -> of

(***************************************************************************)
(* The loop over JPEG segments.                                            *)
(***************************************************************************)
Byte(i) == buffer[i + 1]
End == Len(buffer)
Sub(i, j) == SubSeq(buffer, i + 1, IF j < End THEN j ELSE End)
IsJpeg == scanning /\ image.format \in {"jpeg", "bytes"}
IsPng == scanning /\ image.format = "png"

\* Fill bytes before a marker are skipped.
MarkerAt ==
    CHOOSE i \in offset .. End :
        /\ \A j \in offset .. i - 1 : Byte(j) = FF
        /\ i < End => Byte(i) # FF
Marker == Byte(MarkerAt)
AtMarker == offset < End /\ Byte(offset) = FF /\ MarkerAt < End
Body == MarkerAt + 1
SegmentLength == 256 * Byte(Body) + Byte(Body + 1)
Keep(bytes) == pieces' = pieces \o bytes
Continue(at) == offset' = at /\ UNCHANGED <<image, buffer, scanning, pass>>
Finish == scanning' = FALSE /\ UNCHANGED <<image, buffer, offset, pass>>

EndOfImage ==
    /\ IsJpeg /\ AtMarker /\ Marker = EOI
    /\ Keep(<<FF, EOI>>) /\ Finish
    /\ UNCHANGED wasSanitized

\* What follows, the scan and all after it, is taken as it is.
StartOfScan ==
    /\ IsJpeg /\ AtMarker /\ Marker = SOS
    /\ Keep(Sub(Body - 2, End)) /\ Finish
    /\ UNCHANGED wasSanitized

StandaloneMarker ==
    /\ IsJpeg /\ AtMarker /\ Marker \in Standalone
    /\ Keep(<<FF, Marker>>) /\ Continue(Body)
    /\ UNCHANGED wasSanitized

\* Wrong: a segment is kept with the beginning of the next.
SegmentOverlapping ==
    /\ IsJpeg /\ AtMarker /\ Marker \notin Standalone \cup {EOI, SOS}
    /\ Body + 2 <= End
    /\ IF Marker \in Metadata THEN wasSanitized' = TRUE /\ UNCHANGED pieces
       ELSE Keep(Sub(Body - 2, Body + 2 + SegmentLength)) /\ UNCHANGED wasSanitized
    /\ Continue(Body + SegmentLength)

Segment ==
    /\ IsJpeg /\ AtMarker /\ Marker \notin Standalone \cup {EOI, SOS}
    /\ Body + 2 <= End
    /\ IF Marker \in Metadata THEN wasSanitized' = TRUE /\ UNCHANGED pieces
       ELSE Keep(Sub(Body - 2, Body + SegmentLength)) /\ UNCHANGED wasSanitized
    /\ Continue(Body + SegmentLength)

\* The file ends, or what comes is no marker: the rest is left out.
NoSegment ==
    /\ IsJpeg
    /\ AtMarker => Marker \notin Standalone \cup {EOI, SOS} /\ Body + 2 > End
    /\ Finish
    /\ UNCHANGED <<pieces, wasSanitized>>

(***************************************************************************)
(* The loop over PNG chunks, and the result.                               *)
(***************************************************************************)
ChunkEnd == offset + 3 + Byte(offset)
AtChunk == offset + 2 <= End /\ ChunkEnd <= End

Chunk ==
    /\ IsPng /\ AtChunk
    /\ LET type == Byte(offset + 1)
       IN  /\ IF type \in TextChunks THEN wasSanitized' = TRUE /\ UNCHANGED pieces
              ELSE Keep(Sub(offset, ChunkEnd)) /\ UNCHANGED wasSanitized
           /\ offset' = ChunkEnd
           /\ scanning' = (type # IEND)
    /\ UNCHANGED <<image, buffer, pass>>

NoChunk == IsPng /\ ~AtChunk /\ Finish /\ UNCHANGED <<pieces, wasSanitized>>

\* An image without metadata stays as it was sent.
Result == IF wasSanitized THEN pieces ELSE buffer

Again ==
    /\ ~scanning /\ pass = 1
    /\ buffer' = Result
    /\ offset' = 0 /\ pieces' = <<>> /\ wasSanitized' = FALSE /\ scanning' = TRUE /\ pass' = 2
    /\ UNCHANGED image

SanInit ==
    /\ image \in [format : {"jpeg"}, of : Jpegs] \cup [format : {"png"}, of : Pngs]
                 \cup [format : {"bytes"}, of : Buffers]
    /\ buffer = BytesOf(image.format, image.of)
    /\ offset = 0 /\ pieces = <<>> /\ wasSanitized = FALSE /\ scanning = TRUE /\ pass = 1
SanNext ==
    \/ EndOfImage \/ StartOfScan \/ StandaloneMarker \/ Segment \/ NoSegment
    \/ Chunk \/ NoChunk \/ Again
SanSpec == SanInit /\ [][SanNext]_sanVars

\* The loop runs in one turn.
FairSanSpec == SanSpec /\ WF_sanVars(SanNext)

(***************************************************************************)
(* Properties.                                                             *)
(***************************************************************************)
Scanned(n) == ~scanning /\ pass = n
Plain(s) == [s EXCEPT !.fill = 0]
Kept(segments) == SelectSeq(segments, LAMBDA s : s.marker \notin Metadata)

\* Of an image that is formed well the segments and chunks of metadata are
\* left out and every other byte is kept; where there are none it is unchanged.
MetadataLeftOut ==
    /\ Scanned(1) /\ image.format = "jpeg" =>
          LET kept == Kept(image.of.segments)
          IN  Result = IF kept = image.of.segments THEN JpegBytes(kept, image.of.tail)
                       ELSE JpegBytes([i \in DOMAIN kept |-> Plain(kept[i])], image.of.tail)
    /\ Scanned(1) /\ image.format = "png" =>
          Result = PngBytes(SelectSeq(image.of, LAMBDA c : c.type \notin TextChunks))

\* Whatever the bytes are, what is stored has no metadata that the loop finds,
\* and takes no more room than what was sent.
ResultIsClean ==
    /\ Scanned(2) => ~wasSanitized
    /\ Len(Result) <= Len(BytesOf(image.format, image.of)) \/ scanning

\* The loop ends on any bytes.
ScanEnds == <>(Scanned(2))

\* sanitizer.ts on stripExifFromJpeg: "Strips EXIF metadata segments
\* (APP1..APP15, COM) from JPEG image buffers", those between two scans too.
\* Refuted: see the README.
NoMetadataAnywhere ==
    Scanned(1) /\ image.format = "jpeg" =>
        \A i \in 1 .. Len(Result) - 1 : ~(Result[i] = FF /\ Result[i + 1] \in Metadata)
=============================================================================
