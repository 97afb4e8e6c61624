------------------------------ MODULE Multipart --------------------------------
(***************************************************************************)
(* readMultipartRequest and parseMultipartBuffer of the attachments        *)
(* module: a request body arrives in chunks and is cut into fields and     *)
(* files.  Bytes are grouped into symbols: the delimiter of the request, a *)
(* line break, two dashes, the header lines of a part and pieces of data.  *)
(***************************************************************************)
EXTENDS Naturals, Sequences, SequencesExt

CONSTANTS
    Headers,            \* header lines: [name, file] of each is given by Disposition
    Disposition,        \* the Content-Disposition of header lines
    Data,               \* the contents of parts, sequences of symbols
    MaxParts,           \* bound on the parts of a request
    MaxSize             \* the limit of a body, in symbols

VARIABLES
    parts,              \* what the client sends
    wire,               \* the body of the request
    received,           \* how much of it has arrived
    start, fields, files,
    parser              \* "reading", "parsing", "done" or "refused"

mpVars == <<parts, wire, received, start, fields, files, parser>>

MultipartAssumption ==
    /\ MaxParts \in Nat /\ MaxSize \in Nat
    /\ \A h \in Headers : Disposition[h].file \in BOOLEAN
    /\ \A d \in Data : "delimiter" \notin ToSet(d)

(***************************************************************************)
(* What a client sends (RFC 7578): its boundary is in no part.             *)
(***************************************************************************)
Part == [header : Headers, data : Data]
EncodedPart(p) == <<"delimiter", "break", p.header, "break", "break">> \o p.data \o <<"break">>
Encoded(ps) ==
    FlattenSeq([i \in DOMAIN ps |-> EncodedPart(ps[i])]) \o <<"delimiter", "dashes", "break">>

(***************************************************************************)
(* Reading.                                                                *)
(***************************************************************************)
Receive(n) ==
    /\ parser = "reading"
    /\ received' = received + n
    /\ parser' = IF received' > MaxSize THEN "refused" ELSE parser
    /\ UNCHANGED <<parts, wire, start, fields, files>>

ReadAll ==
    /\ parser = "reading"
    /\ received = Len(wire)
    /\ parser' = "parsing"
    /\ UNCHANGED <<parts, wire, received, start, fields, files>>

(***************************************************************************)
(* Parsing, one part at a time.                                            *)
(***************************************************************************)
At(i) == i \in DOMAIN wire
Occurs(pattern, i) ==
    \A k \in DOMAIN pattern : At(i + k - 1) /\ wire[i + k - 1] = pattern[k]

\* Where the pattern is next, 0 where it is not.
IndexOf(pattern, from) ==
    IF \E i \in from .. Len(wire) : Occurs(pattern, i)
    THEN CHOOSE i \in from .. Len(wire) :
            Occurs(pattern, i) /\ \A j \in from .. i - 1 : ~Occurs(pattern, j)
    ELSE 0

PartStart == IndexOf(<<"delimiter">>, start) + 1
HeadersStart == IF wire[PartStart] = "break" THEN PartStart + 1 ELSE PartStart
HeaderEnd == IndexOf(<<"break", "break">>, HeadersStart)
BodyStart == HeaderEnd + 2
BodyEnd == IndexOf(<<"delimiter">>, BodyStart)

\* A break before the delimiter belongs to the delimiter.
RealBodyEnd == IF wire[BodyEnd - 1] = "break" THEN BodyEnd - 1 ELSE BodyEnd

AnotherPart ==
    /\ start <= Len(wire) /\ PartStart > 1 /\ At(PartStart) /\ wire[PartStart] # "dashes"
    /\ HeaderEnd > 0 /\ BodyEnd > 0

Recorded ==
    LET header == SubSeq(wire, HeadersStart, HeaderEnd - 1)
        data == SubSeq(wire, BodyStart, RealBodyEnd - 1)
    IN  IF Len(header) = 1 /\ header[1] \in Headers
        THEN LET d == Disposition[header[1]]
             IN  IF d.file
                 THEN files' = Append(files, [name |-> d.name, data |-> data]) /\ UNCHANGED fields
                 ELSE fields' = [n \in DOMAIN fields \cup {d.name} |->
                                    IF n = d.name THEN data ELSE fields[n]] /\ UNCHANGED files
        ELSE UNCHANGED <<fields, files>>

ParsePart ==
    /\ parser = "parsing"
    /\ AnotherPart
    /\ Recorded
    /\ start' = BodyEnd
    /\ UNCHANGED <<parts, wire, received, parser>>

ParseEnd ==
    /\ parser = "parsing"
    /\ ~AnotherPart
    /\ parser' = "done"
    /\ UNCHANGED <<parts, wire, received, start, fields, files>>

MPInit ==
    /\ parts \in SeqOf(Part, MaxParts)
    /\ wire = Encoded(parts)
    /\ received = 0 /\ start = 1 /\ fields = <<>> /\ files = <<>> /\ parser = "reading"
MPNext ==
    \/ \E n \in 1 .. Len(wire) - received : Receive(n)
    \/ ReadAll \/ ParsePart \/ ParseEnd
MPSpec == MPInit /\ [][MPNext]_mpVars

\* The handler runs to its end once the body is there.
FairMPSpec == MPSpec /\ WF_mpVars(ParsePart \/ ParseEnd)

(***************************************************************************)
(* Properties.                                                             *)
(***************************************************************************)
FilesSent ==
    LET sent == SelectSeq(parts, LAMBDA p : Disposition[p.header].file)
    IN  [i \in DOMAIN sent |-> [name |-> Disposition[sent[i].header].name, data |-> sent[i].data]]
FieldsSent == {<<Disposition[p.header].name, p.data>> :
                  p \in {q \in ToSet(parts) : ~Disposition[q.header].file}}

\* Whatever breaks and dashes the parts hold, what has been read of the
\* request is what was sent, in order; at the end nothing is missing, and of
\* two fields of one name the last counts.
ReadAsSent ==
    /\ IsPrefix(files, FilesSent)
    /\ \A n \in DOMAIN fields : <<n, fields[n]>> \in FieldsSent
    /\ parser = "done" =>
          /\ files = FilesSent
          /\ \A i \in DOMAIN parts :
                LET d == Disposition[parts[i].header]
                IN  ~d.file /\ (\A j \in i + 1 .. Len(parts) :
                                   Disposition[parts[j].header] # d)
                    => fields[d.name] = parts[i].data

\* The parser comes to the end of every body.
ParserEnds == parser = "parsing" ~> parser = "done"
=============================================================================
