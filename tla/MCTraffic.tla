------------------------------ MODULE MCTraffic -------------------------------
(***************************************************************************)
(* What comes in and what goes out, on small instances: limits of          *)
(* requests, batches, bodies and images, emails and webhooks.  A behaviour *)
(* keeps to one part:                                                      *)
(*                                                                         *)
(*   limits    a bucket of each kind; the log keeps two events             *)
(*   amenities batches with an index of names                              *)
(*   leases    batches of leases with contacts, some of them refused       *)
(*   bodies    two parts, with every content of up to two symbols          *)
(*   images    images formed well, with payloads that look like markers    *)
(*   bytes     any four bytes after a signature, and longer files          *)
(*   mails     two emails, every way to connect and log in; the server of  *)
(*             one may send three lines at once                            *)
(*   webhooks  events of two operators, and one of nobody's                *)
(***************************************************************************)
EXTENDS RateLimiter, Notifications, BulkIngestion, Integers, SequencesExt, TLC

CONSTANTS
    Parts,              \* the parts that the run looks at
    m1, m2, o1, o2, order, message, other

VARIABLES
    part,
    parts, wire, arrived, start, fields, files, parser,
    image, buffer, offset, pieces, wasSanitized, scanning, pass,
    session, log, mailing

(***************************************************************************)
(* Batches: items repeated, malformed, too many, none; leases with         *)
(* contacts of which one does not exist.                                   *)
(***************************************************************************)
It(n, fits, parties, refused) ==
    [name |-> n, fits |-> fits, parts |-> parties, refused |-> refused]
Pool == It("pool", TRUE, 0, 0)
Gym == It("gym", TRUE, 0, 0)
Nameless == It("none", FALSE, 0, 0)
Leased(refused) == It("lease", TRUE, 2, refused)

OfAmenities == {<<>>, <<Pool>>, <<Gym, Pool>>, <<Pool, Gym, Pool>>,
                <<Pool, Nameless, Nameless>>, <<Pool, Gym, Pool, Gym>>}
OfLeases == {<<Leased(0)>>, <<Leased(0), Leased(2)>>, <<Leased(0), Leased(0), Leased(1)>>}
MCBatches == OfAmenities \cup OfLeases
Amenities == INSTANCE BulkIngestion WITH Batches <- OfAmenities
Leases == INSTANCE BulkIngestion WITH Batches <- OfLeases, UniqueNames <- FALSE

Bodies == INSTANCE Multipart WITH
    Headers <- {"field", "other", "file"},
    Disposition <- [field |-> [name |-> "a", file |-> FALSE],
                    other |-> [name |-> "b", file |-> FALSE],
                    file |-> [name |-> "a", file |-> TRUE]],
    Data <- SeqOf({"break", "dashes", "x"}, 2), MaxParts <- 2, MaxSize <- 17,
    received <- arrived

(***************************************************************************)
(* Images.                                                                 *)
(***************************************************************************)
Segments ==
    [marker : {224, 225, 254}, payload : {<<>>, <<255, 225>>}, fill : {0, 1}]
    \cup [marker : {208}, payload : {<<>>}, fill : {0}]
OneScan == <<255, 218, 0, 2, 7, 255, 0, 255, 217>>
WellFormed == [segments : SeqOf(Segments, 3), tail : {OneScan, <<255, 217>>}]
Chunks == [type : {101, 116, 80}, data : {<<>>, <<101>>, <<1, 101>>}]
WithEnd == {cs \o <<[type |-> 73, data |-> <<>>]>> : cs \in SeqOf(Chunks, 3)}
Stretches == {<<255, 219, 0, 2>>, <<255, 225, 0, 2>>, <<255, 254, 0, 3>>, <<255, 218>>,
              <<255, 217>>, <<255>>, <<0, 1>>}
AnyBytes == SeqOf({0, 1, 2, 219, 225, 218, 217, 255}, 4)
            \cup {FlattenSeq(s) : s \in SeqOf(Stretches, 5)}

Images == INSTANCE Sanitizer WITH Jpegs <- WellFormed, Pngs <- WithEnd, Buffers <- {}
Bytes == INSTANCE Sanitizer WITH Jpegs <- {}, Pngs <- {}, Buffers <- AnyBytes
Signature == INSTANCE Sanitizer WITH Jpegs <- {}, Pngs <- {}, Buffers <- {<<>>}

Mails == INSTANCE SmtpMail WITH
    Mails <- {m1, m2},
    Settings <- [host : {TRUE}, secure : {FALSE}, login : BOOLEAN]
                \cup [host : BOOLEAN, secure : {TRUE}, login : {TRUE}],
    LinesAtOnce <- (m1 :> {1, 3}) @@ (m2 :> {1}),
    up <- mailing

MCOperatorOf == (order :> o1) @@ (message :> o2) @@ (other :> NoOperator)

ASSUME /\ RateAssumption /\ BulkAssumption
       /\ Bodies!MultipartAssumption /\ Bytes!SanitizerAssumption
       /\ Mails!SmtpAssumption /\ NotificationsAssumption

(***************************************************************************)
(* Behaviours.                                                             *)
(***************************************************************************)
bodyVars == <<parts, wire, arrived, start, fields, files, parser>>
imageVars == <<image, buffer, offset, pieces, wasSanitized, scanning, pass>>
mailVars == <<session, log, mailing>>

MCInit ==
    /\ part \in Parts
    /\ RLInit /\ BulkInit /\ Mails!SMInit /\ NoteInit
    /\ IF part = "bodies" THEN Bodies!MPInit
       ELSE Bodies!MPInit /\ parts = <<>>
    /\ CASE part = "images" -> Images!SanInit
         [] part = "bytes" -> Bytes!SanInit
         [] OTHER -> Signature!SanInit

MCNext ==
    /\ UNCHANGED part
    /\ \/ part = "limits" /\ RLNext
          /\ UNCHANGED <<bulkVars, bodyVars, imageVars, mailVars, noteVars>>
       \/ /\ \/ part = "amenities" /\ Amenities!BulkNext
             \/ part = "leases" /\ Leases!BulkNext
          /\ UNCHANGED <<rlVars, bodyVars, imageVars, mailVars, noteVars>>
       \/ part = "bodies" /\ Bodies!MPNext
          /\ UNCHANGED <<rlVars, bulkVars, imageVars, mailVars, noteVars>>
       \/ part \in {"images", "bytes"} /\ Images!SanNext
          /\ UNCHANGED <<rlVars, bulkVars, bodyVars, mailVars, noteVars>>
       \/ part = "mails" /\ Mails!SMNext
          /\ UNCHANGED <<rlVars, bulkVars, bodyVars, imageVars, noteVars>>
       \/ part = "webhooks" /\ NoteNext
          /\ UNCHANGED <<rlVars, bulkVars, bodyVars, imageVars, mailVars>>

\* Synchronous code runs on, time passes, and timers of calls fire.
MCSpec ==
    /\ MCInit
    /\ [][MCNext]_<<part, rlVars, bulkVars, bodyVars, imageVars, mailVars, noteVars>>
    /\ WF_rlVars(part = "limits" /\ TimePasses)
    /\ WF_bulkVars(part = "leases" /\ Leases!Handling)
    /\ WF_bodyVars(part = "bodies" /\ (Bodies!ParsePart \/ Bodies!ParseEnd))
    /\ WF_imageVars(part = "bytes" /\ Bytes!SanNext)
    /\ \A m \in {m1, m2} :
          /\ WF_mailVars(part = "mails" /\ Mails!Timeout(m))
          /\ WF_mailVars(part = "mails" /\ Mails!HandleLine(m))
    /\ \A e \in {order, message, other} :
          WF_noteVars(part = "webhooks" /\ (Answered(e) \/ FailedOrLate(e)))

(***************************************************************************)
(* Properties: those of the parts, put together.                           *)
(***************************************************************************)
\* Whatever the bytes are: what is read of a body is what was sent, in order,
\* and of an image all but the metadata is stored, of which none is left.  An
\* email that is logged as sent was accepted, events leave the process only for
\* addresses that are trusted and not before the feed has them, and passwords
\* leave it under TLS only for servers that answer in turn.  The log of refused
\* requests stays short.
TrafficAgrees ==
    /\ part = "bodies" => Bodies!ReadAsSent
    /\ part = "images" => Images!MetadataLeftOut
    /\ part = "bytes" => Bytes!ResultIsClean
    /\ part = "mails" => /\ Mails!SMTypeOK /\ Mails!SentWasAccepted
                         /\ Mails!LoginOnlyUnderTls
    /\ part = "webhooks" => NoteTypeOK /\ OnlyTrustedEndpoints /\ FeedComesFirst
    /\ part = "limits" => RLTypeOK

\* A key is not refused for ever, batches are answered, loops over bytes end,
\* and every email and webhook leaves a row, unless the process stops.
TrafficProceeds ==
    /\ (part = "limits" => RefusalEnds)
    /\ (part = "leases" => Leases!RequestsEnd)
    /\ (part = "bodies" => Bodies!ParserEnds)
    /\ (part = "bytes" => Bytes!ScanEnds)
    /\ (part = "mails" => Mails!EverySendIsLogged)
    /\ (part = "webhooks" => WebhooksAreLogged)
=============================================================================
