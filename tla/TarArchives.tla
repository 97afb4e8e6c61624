----------------------------- MODULE TarArchives -------------------------------
(***************************************************************************)
(* packTar and unpackTar of modules/backup/backend/tar.ts: the archive of  *)
(* a backup is written as blocks of bytes and read back.  A header is one  *)
(* byte that holds its fields and the fill of its block.                   *)
(***************************************************************************)
EXTENDS Naturals, Sequences, FiniteSets, SequencesExt

CONSTANTS
    Block,              \* bytes of a block (512)
    NameMax, PrefixMax, \* what the two fields of a path hold (100, 155)
    MaxEntries, MaxTotal,   \* the limits of unpackTar
    Paths,              \* the paths of files, sequences of characters
    Contents,           \* the contents of files, sequences of bytes
    MaxFiles            \* bound on the files of an archive

VARIABLES
    entries,            \* what was packed: [name, data]
    archive,            \* the bytes
    offset, unpacked,   \* the reader: where it is, what it has read
    tar                 \* "packing", "reading", "done" or "refused"

tarVars == <<entries, archive, offset, unpacked, tar>>
Zero == <<"zero">>
Fill == <<"fill">>

TarAssumption ==
    /\ Block \in Nat \ {0} /\ {NameMax, PrefixMax, MaxEntries, MaxTotal, MaxFiles} \subseteq Nat
    /\ \A data \in Contents : \A i \in DOMAIN data : Len(data[i]) = 1

Repeat(byte, n) == [i \in 1 .. n |-> byte]
Padding(n) == IF n % Block > 0 THEN Block - (n % Block) ELSE 0

(***************************************************************************)
(* Writing.                                                                *)
(***************************************************************************)
\* Where a long path may be cut: at a slash, so that both parts fit.
Cuts(path) ==
    {k \in 1 .. Len(path) : path[k] = "/" /\ k - 1 <= PrefixMax /\ Len(path) - k <= NameMax}
Fits(path) == Len(path) <= NameMax \/ (Len(path) <= NameMax + PrefixMax /\ Cuts(path) # {})

CreateTarHeader(path, size) ==
    LET cut == CHOOSE k \in Cuts(path) : \A j \in Cuts(path) : j <= k
    IN  IF Len(path) <= NameMax THEN <<"header", path, <<>>, size>>
        ELSE <<"header", SubSeq(path, cut + 1, Len(path)), SubSeq(path, 1, cut - 1), size>>

\* A path that does not fit ends the backup, which this leaves out.
PackEntry(path, data) ==
    /\ tar = "packing"
    /\ Len(entries) < MaxFiles
    /\ Fits(path)
    /\ entries' = Append(entries, [name |-> path, data |-> data])
    /\ archive' = archive \o <<CreateTarHeader(path, Len(data))>> \o Repeat(Fill, Block - 1)
                          \o data \o Repeat(Zero, Padding(Len(data)))
    /\ UNCHANGED <<offset, unpacked, tar>>

PackEnd ==
    /\ tar = "packing"
    /\ archive' = archive \o Repeat(Zero, 2 * Block)
    /\ tar' = "reading"
    /\ UNCHANGED <<entries, offset, unpacked>>

(***************************************************************************)
(* Reading.                                                                *)
(***************************************************************************)
Header == archive[offset + 1]
MoreBlocks ==
    /\ offset + Block <= Len(archive)
    /\ \E i \in 1 .. Block : archive[offset + i] # Zero

NameOf(header) == IF header[3] = <<>> THEN header[2] ELSE header[3] \o <<"/">> \o header[2]
Extracted == FoldLeft(LAMBDA n, e : n + Len(e.data), 0, unpacked)

Damaged == Header[1] # "header" \/ offset + Block + Header[4] > Len(archive)
AboveLimits == Len(unpacked) >= MaxEntries \/ Extracted + Header[4] > MaxTotal

UnpackEntry ==
    /\ tar = "reading"
    /\ MoreBlocks /\ ~Damaged /\ ~AboveLimits
    /\ unpacked' = Append(unpacked, [name |-> NameOf(Header),
           data |-> SubSeq(archive, offset + Block + 1, offset + Block + Header[4])])
    /\ offset' = offset + Block + Header[4] + Padding(Header[4])
    /\ UNCHANGED <<entries, archive, tar>>

Refuse ==
    /\ tar = "reading"
    /\ MoreBlocks /\ (Damaged \/ AboveLimits)
    /\ tar' = "refused"
    /\ UNCHANGED <<entries, archive, offset, unpacked>>

UnpackEnd ==
    /\ tar = "reading"
    /\ ~MoreBlocks
    /\ tar' = "done"
    /\ UNCHANGED <<entries, archive, offset, unpacked>>

TarInit == entries = <<>> /\ archive = <<>> /\ offset = 0 /\ unpacked = <<>> /\ tar = "packing"
TarNext ==
    \/ \E path \in Paths, data \in Contents : PackEntry(path, data)
    \/ PackEnd \/ UnpackEntry \/ Refuse \/ UnpackEnd
TarSpec == TarInit /\ [][TarNext]_tarVars

(***************************************************************************)
(* Properties.                                                             *)
(***************************************************************************)
\* What is read is what was written, in order and whole, wherever a path is
\* cut and however a file ends: on a block, before it, with zeros, or empty.
UnpacksWhatWasPacked ==
    /\ IsPrefix(unpacked, entries)
    /\ tar = "done" => unpacked = entries

\* Only an archive above the limits is refused.
RefusedByLimitsOnly ==
    tar = "refused" =>
        \/ Len(entries) > MaxEntries
        \/ FoldLeft(LAMBDA n, e : n + Len(e.data), 0, entries) > MaxTotal

\* service.ts on restoreFullDatabase: "Restores the full SQLite database and
\* physical media attachments from a snapshot archive": what createTarGzFile
\* packs, it unpacks.
\* Refuted: see the README.
ArchivesUnpack == tar # "refused"
=============================================================================
