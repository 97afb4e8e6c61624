------------------------------ MODULE SmtpMail ------------------------------
(***************************************************************************)
(* An email of core/notifications.ts: sendEmail reads the settings of the  *)
(* operator, NativeSmtpClient.send speaks SMTP with the server, and the    *)
(* attempt ends in a row of notification_logs.  The server answers as it   *)
(* likes, or not at all; the connection breaks with an error or is closed  *)
(* without one; the certificate may be refused.                            *)
(*                                                                         *)
(* What arrives is a chunk of lines.  A server that waits for the next     *)
(* command sends one line a chunk; one that runs ahead sends several, and  *)
(* the client handles them in one loop, on the socket the chunk came over. *)
(* As another code ends the session, only the last line of a chunk may     *)
(* have one: what follows it is not read.  A line that is cut between two  *)
(* chunks counts where it ends: the buffer is kept, across STARTTLS too.   *)
(***************************************************************************)
EXTENDS Naturals, TLAPS

CONSTANTS
    Mails,              \* calls of sendEmail
    Settings,           \* [host, secure, login : BOOLEAN] of the operators
    LinesAtOnce         \* call -> numbers of lines that its server may send at once

VARIABLES
    session,            \* the session of every call
    log,                \* status of the row that each call left, or "none"
    up                  \* the process runs

mailVars == <<session, log, up>>

SmtpAssumption ==
    /\ Settings \subseteq [host : BOOLEAN, secure : BOOLEAN, login : BOOLEAN]
    /\ LinesAtOnce \in [Mails -> SUBSET (Nat \ {0})]

Codes == {"expected", "other"}

\* What the client waits for, in the order of its steps 0 to 11.
Steps == {"greeting", "ehlo", "starttls", "ehlo_over_tls", "login", "username",
          "password", "mail_from", "rcpt_to", "data", "message", "quit"}

Idle == [step |-> "idle", config |-> [host |-> FALSE, secure |-> FALSE, login |-> FALSE],
         wrapped |-> FALSE, link |-> "none", lines |-> 0, last |-> "expected",
         loop |-> "none", accepted |-> FALSE, ahead |-> FALSE, clear |-> FALSE]

SMInit == session = [m \in Mails |-> Idle] /\ log = [m \in Mails |-> "none"] /\ up = TRUE

InSession(m) == session[m].step \in Steps
Put(m, s) == session' = [session EXCEPT ![m] = s]

\* The process runs and handles no other chunk: it handles each to its end.
Free(except) == up /\ \A n \in Mails \ except : session[n].loop = "none"

\* The promise is settled: sockets and timer are gone and the row is written.
Settle(m, status) ==
    /\ Put(m, [session[m] EXCEPT !.step = "settled", !.config = Idle.config,
                                 !.link = "none", !.lines = 0, !.last = "expected",
                                 !.loop = "none"])
    /\ log' = [log EXCEPT ![m] = status]
    /\ UNCHANGED up

\* Without a host nothing is sent and the row says so.  A secure connection
\* shakes hands before the greeting.
SendEmail(m, config) ==
    /\ Free({}) /\ session[m].step = "idle"
    /\ IF ~config.host
       THEN Settle(m, "logged")
       ELSE /\ Put(m, [session[m] EXCEPT !.step = "greeting", !.config = config,
                                         !.link = "open"])
            /\ UNCHANGED <<log, up>>

\* Where the client goes when the reply has the code that the step expects.
Follow(s) ==
    CASE s.step = "greeting"      -> "ehlo"
      [] s.step = "ehlo"          -> IF ~s.config.login THEN "mail_from"
                                     ELSE IF s.config.secure THEN "login" ELSE "starttls"
      [] s.step = "starttls"      -> "ehlo_over_tls"
      [] s.step = "ehlo_over_tls" -> "login"
      [] s.step = "login"         -> "username"
      [] s.step = "username"      -> "password"
      [] s.step = "password"      -> "mail_from"
      [] s.step = "mail_from"     -> "rcpt_to"
      [] s.step = "rcpt_to"       -> "data"
      [] s.step = "data"          -> "message"
      [] s.step = "message"       -> "quit"

\* Once there is a second socket, the first one has no handler of data.
SocketOf(s) == IF s.config.secure \/ s.wrapped THEN "tls" ELSE "plain"

CodeOf(s) == IF s.lines = 1 THEN s.last ELSE "expected"

\* One turn of the loop of handleData.  A reply of another code ends the
\* session, except the last one, whose code nobody reads.  After STARTTLS there
\* is a second socket, wrapped around the first; but user, password and all that
\* follows go out over the socket that the chunk came over.
HandleLine(m) ==
    LET s == session[m]
        over == IF s.loop = "none" THEN SocketOf(s) ELSE s.loop IN
    /\ Free({m}) /\ InSession(m) /\ s.lines > 0
    /\ IF s.step = "quit" THEN Settle(m, "sent")
       ELSE IF CodeOf(s) = "other" THEN Settle(m, "failed")
       ELSE /\ Put(m, [s EXCEPT !.step = Follow(s), !.lines = @ - 1,
                                !.loop = IF s.lines = 1 THEN "none" ELSE over,
                                !.wrapped = @ \/ s.step = "starttls",
                                !.clear = @ \/ (s.step \in {"login", "username"}
                                                 /\ over = "plain")])
            /\ UNCHANGED <<log, up>>

\* The server sends what the client waits for, and may run ahead; with the
\* expected answer to a message that it has, it takes the message over.
ServerReplies(m, lines, code) ==
    LET s == session[m] IN
    /\ InSession(m) /\ s.link = "open" /\ s.lines = 0
    /\ Put(m, [s EXCEPT !.lines = lines, !.last = code,
                        !.ahead = @ \/ lines > 1,
                        !.accepted = @ \/ (s.step = "message"
                                            /\ (lines > 1 \/ code = "expected"))])
    /\ UNCHANGED <<log, up>>

\* The server closes the connection: no handler is told.
ServerCloses(m) ==
    /\ InSession(m) /\ session[m].link = "open"
    /\ Put(m, [session[m] EXCEPT !.link = "closed"])
    /\ UNCHANGED <<log, up>>

\* An error of the connection or of the handshake.  The first socket has a
\* handler for it; the one wrapped around it has none, and an error without
\* a handler ends the process.
ConnectionFails(m) ==
    /\ Free({}) /\ InSession(m) /\ session[m].link = "open"
    /\ IF session[m].wrapped
       THEN /\ up' = FALSE
            /\ session' = [n \in Mails |-> [session[n] EXCEPT
                              !.step = IF @ \in Steps THEN "lost" ELSE @]]
            /\ UNCHANGED log
       ELSE Settle(m, "failed")

\* Wrong: the timer is stopped once the message is accepted.
TimeoutBeforeQuit(m) ==
    /\ Free({}) /\ InSession(m) /\ session[m].step # "quit"
    /\ Settle(m, "failed")

\* The timer of ten seconds for the whole session.
Timeout(m) == Free({}) /\ InSession(m) /\ Settle(m, "failed")

SMNext ==
    \E m \in Mails :
       \/ \E config \in Settings : SendEmail(m, config)
       \/ \E lines \in LinesAtOnce[m], code \in Codes : ServerReplies(m, lines, code)
       \/ HandleLine(m) \/ ServerCloses(m) \/ ConnectionFails(m) \/ Timeout(m)

SMSpec == SMInit /\ [][SMNext]_mailVars

\* Timers fire and chunks are handled while the process runs.
FairSMSpec ==
    SMSpec /\ \A m \in Mails : WF_mailVars(Timeout(m)) /\ WF_mailVars(HandleLine(m))

(***************************************************************************)
(* Properties.                                                             *)
(***************************************************************************)
Sessions == [step : Steps \cup {"idle", "settled", "lost"},
             config : [host : BOOLEAN, secure : BOOLEAN, login : BOOLEAN],
             wrapped : BOOLEAN, link : {"none", "open", "closed"},
             lines : Nat, last : Codes, loop : {"none", "plain", "tls"},
             accepted : BOOLEAN, ahead : BOOLEAN, clear : BOOLEAN]
Statuses == {"none", "logged", "sent", "failed"}

\* Sessions are in a step of the client, and rows have a status.
SMTypeOK ==
    /\ session \in [Mails -> Sessions] /\ log \in [Mails -> Statuses] /\ up \in BOOLEAN

\* The dispatcher writes 'sent' only for a message that the server took, if the
\* server answers one command at a time.
SentWasAccepted ==
    \A m \in Mails : log[m] = "sent" => session[m].accepted \/ session[m].ahead

\* User and password go out without TLS only to a server that runs ahead, and
\* that has agreed to STARTTLS: one that answers in turn, or refuses, never gets
\* them in clear.
LoginOnlyUnderTls ==
    \A m \in Mails : session[m].clear => session[m].ahead /\ session[m].wrapped

\* Every call of sendEmail ends with a row, unless the process stops: a silent
\* server or a connection that is closed holds no session for ever.
EverySendIsLogged ==
    \A m \in Mails : InSession(m) ~> (log[m] # "none" \/ ~up)

\* A connection or a handshake that fails rejects the call and nothing else:
\* the process and the other sessions go on.
\* Refuted: see the README.
FailureIsContained == up

\* The same of any server.
\* Refuted: see the README.
NothingInClear == \A m \in Mails : ~session[m].clear

\* A row that says that delivery failed is about a message that the server
\* does not have.
\* Refuted: see the README.
FailedIsUndelivered == \A m \in Mails : log[m] = "failed" => ~session[m].accepted

(***************************************************************************)
(* Proofs, for any number of calls and any settings.                       *)
(***************************************************************************)
\* What the steps of a session rest on: there is TLS from the greeting on where
\* the settings ask for it, and from STARTTLS on where they do not; a loop goes on
\* with lines that came ahead; and the client says goodbye only after the server
\* has taken the message over, or has run ahead.
Sound(s) ==
    /\ s.step \in {"ehlo_over_tls", "login", "username", "password"}
          => s.config.secure \/ s.wrapped
    /\ s.loop # "none" => s.ahead
    /\ s.loop = "plain" => ~s.config.secure
    /\ s.step = "quit" => s.accepted \/ s.ahead
    /\ s.step = "message" /\ s.lines > 0 /\ CodeOf(s) = "expected" => s.accepted \/ s.ahead
    /\ s.lines > 1 => s.ahead
    /\ s.clear => s.ahead /\ s.wrapped

SMInv == SMTypeOK /\ SentWasAccepted /\ \A m \in Mails : Sound(session[m])

LEMMA SessionIs ==
    ASSUME NEW s \in Sessions
    PROVE  /\ s.step \in Steps \cup {"idle", "settled", "lost"}
           /\ s.config \in [host : BOOLEAN, secure : BOOLEAN, login : BOOLEAN]
           /\ s.config.secure \in BOOLEAN /\ s.config.login \in BOOLEAN
           /\ s.wrapped \in BOOLEAN /\ s.accepted \in BOOLEAN /\ s.ahead \in BOOLEAN
           /\ s.clear \in BOOLEAN /\ s.lines \in Nat /\ s.last \in Codes
           /\ s.loop \in {"none", "plain", "tls"} /\ s.link \in {"none", "open", "closed"}
BY DEF Sessions

\* One session moves on, and its row may be written.
SessionMoves(m, s, status) ==
    /\ s \in Sessions /\ Sound(s)
    /\ status \in Statuses /\ (status = "sent" => s.accepted \/ s.ahead)
    /\ session' = [session EXCEPT ![m] = s] /\ log' = [log EXCEPT ![m] = status]
    /\ UNCHANGED up

LEMMA MovesKeep ==
    ASSUME SMInv, NEW m \in Mails, NEW s, NEW status, SessionMoves(m, s, status)
    PROVE  SMInv'
<1>1. /\ session \in [Mails -> Sessions] /\ log \in [Mails -> Statuses] /\ up \in BOOLEAN
      /\ s \in Sessions /\ status \in Statuses /\ UNCHANGED up
      /\ session' = [session EXCEPT ![m] = s] /\ log' = [log EXCEPT ![m] = status]
  BY DEF SMInv, SMTypeOK, SessionMoves
<1>2. SMTypeOK'
  BY <1>1 DEF SMTypeOK
<1>3. /\ session'[m] = s /\ log'[m] = status
      /\ \A k \in Mails : k # m => session'[k] = session[k] /\ log'[k] = log[k]
  BY <1>1
<1>4. SentWasAccepted'
  BY <1>3 DEF SMInv, SentWasAccepted, SessionMoves
<1>5. \A k \in Mails : Sound(session'[k])
  BY <1>3 DEF SMInv, SessionMoves
<1> QED BY <1>2, <1>4, <1>5 DEF SMInv

\* The promise is settled.
LEMMA SettleStep ==
    ASSUME SMInv, NEW m \in Mails, NEW status \in Statuses, Settle(m, status),
           status = "sent" => session[m].accepted \/ session[m].ahead
    PROVE  SMInv'
<1>1. PICK s : s = [session[m] EXCEPT !.step = "settled", !.config = Idle.config,
                                      !.link = "none", !.lines = 0, !.last = "expected",
                                      !.loop = "none"]
  OBVIOUS
<1>2. session[m] \in Sessions /\ Sound(session[m])
  BY DEF SMInv, SMTypeOK
<1>3. /\ s \in Sessions /\ s.step = "settled" /\ s.lines = 0 /\ s.loop = "none"
      /\ s.accepted = session[m].accepted /\ s.ahead = session[m].ahead
      /\ s.clear = session[m].clear /\ s.wrapped = session[m].wrapped
  BY <1>1, <1>2 DEF Sessions, Idle, Codes
<1>4. Sound(s)
  BY <1>2, <1>3 DEF Sound
<1>5. SessionMoves(m, s, status)
  BY <1>1, <1>3, <1>4 DEF SessionMoves, Settle, Put
<1> QED BY <1>5, MovesKeep

\* The session moves on without a row.
LEMMA PutStep ==
    ASSUME SMInv, NEW m \in Mails, NEW s \in Sessions, Sound(s), Put(m, s),
           session[m].accepted \/ session[m].ahead => s.accepted \/ s.ahead,
           UNCHANGED <<log, up>>
    PROVE  SMInv'
<1>1. log \in [Mails -> Statuses] /\ (log[m] = "sent" => s.accepted \/ s.ahead)
  BY DEF SMInv, SMTypeOK, SentWasAccepted
<1>2. log' = [log EXCEPT ![m] = log[m]] /\ log[m] \in Statuses
  BY <1>1
<1>3. SessionMoves(m, s, log[m])
  BY <1>1, <1>2 DEF SessionMoves, Put
<1> QED BY <1>3, MovesKeep

LEMMA SendEmailStep ==
    ASSUME SMInv, SmtpAssumption, NEW m \in Mails, NEW config \in Settings, SendEmail(m, config)
    PROVE  SMInv'
<1>1. CASE ~config.host
  <2>1. Settle(m, "logged")
    BY <1>1 DEF SendEmail
  <2> QED BY <2>1, SettleStep DEF Statuses
<1>2. CASE config.host
  <2>1. PICK s : s = [session[m] EXCEPT !.step = "greeting", !.config = config,
                                        !.link = "open"]
    OBVIOUS
  <2>2. session[m] \in Sessions /\ Sound(session[m]) /\ session[m].step = "idle"
    BY DEF SMInv, SMTypeOK, SendEmail
  <2>3. config \in [host : BOOLEAN, secure : BOOLEAN, login : BOOLEAN]
    BY DEF SmtpAssumption
  <2>4. /\ s \in Sessions /\ s.step = "greeting" /\ s.accepted = session[m].accepted
        /\ s.ahead = session[m].ahead /\ s.lines = session[m].lines
        /\ s.loop = session[m].loop /\ s.clear = session[m].clear
        /\ s.wrapped = session[m].wrapped
    BY <2>1, <2>2, <2>3 DEF Sessions, Steps
  <2>5. s.loop = "none"
    BY <2>4 DEF SendEmail, Free
  <2>6. Sound(s)
    BY <2>2, <2>4, <2>5 DEF Sound
  <2>7. Put(m, s) /\ UNCHANGED <<log, up>>
    BY <1>2, <2>1 DEF SendEmail
  <2> QED BY <2>4, <2>6, <2>7, PutStep
<1> QED BY <1>1, <1>2

\* The client comes to a login through STARTTLS or with settings that ask for
\* TLS, and to the end from the message.
LEMMA FollowIs ==
    ASSUME NEW s \in Sessions, Sound(s), s.step \in Steps, s.step # "quit"
    PROVE  /\ Follow(s) \in Steps
           /\ Follow(s) \in {"login", "username", "password"}
                 => s.config.secure \/ s.wrapped
           /\ Follow(s) = "ehlo_over_tls" => s.step = "starttls"
           /\ Follow(s) = "quit" => s.step = "message"
<1>1. CASE s.step = "ehlo"
  <2>1. CASE ~s.config.login
    <3>1. Follow(s) = "mail_from"
      BY <1>1, <2>1 DEF Follow
    <3> QED BY <3>1 DEF Steps
  <2>2. CASE s.config.login /\ s.config.secure
    <3>1. Follow(s) = "login"
      BY <1>1, <2>2 DEF Follow
    <3> QED BY <2>2, <3>1 DEF Steps
  <2>3. CASE s.config.login /\ ~s.config.secure
    <3>1. Follow(s) = "starttls"
      BY <1>1, <2>3 DEF Follow
    <3> QED BY <3>1 DEF Steps
  <2> QED BY <2>1, <2>2, <2>3
<1>2. CASE s.step \in {"ehlo_over_tls", "login", "username"}
  <2>1. Follow(s) \in {"login", "username", "password"}
    BY <1>2 DEF Follow
  <2>2. s.config.secure \/ s.wrapped
    BY <1>2 DEF Sound
  <2> QED BY <2>1, <2>2 DEF Steps
<1>3. CASE s.step \in {"greeting", "password", "mail_from", "rcpt_to", "data"}
  <2>1. Follow(s) \in {"ehlo", "mail_from", "rcpt_to", "data", "message"}
    BY <1>3 DEF Follow
  <2> QED BY <2>1 DEF Steps
<1>4. CASE s.step = "starttls" \/ s.step = "message"
  <2>1. Follow(s) = IF s.step = "starttls" THEN "ehlo_over_tls" ELSE "quit"
    BY <1>4 DEF Follow
  <2> QED BY <1>4, <2>1 DEF Steps
<1> QED BY <1>1, <1>2, <1>3, <1>4 DEF Steps

\* One line of a chunk.  The first line finds TLS where a login is under way, so
\* what goes out in clear goes out for a line that came ahead.
LEMMA HandleLineStep ==
    ASSUME SMInv, NEW m \in Mails, HandleLine(m)
    PROVE  SMInv'
<1> DEFINE t == session[m]
           over == IF t.loop = "none" THEN SocketOf(t) ELSE t.loop
<1>1. /\ t \in Sessions /\ Sound(t) /\ t.step \in Steps /\ t.lines > 0
  BY DEF SMInv, SMTypeOK, HandleLine, InSession
<1>2. CASE t.step = "quit"
  <2>1. Settle(m, "sent")
    BY <1>2 DEF HandleLine
  <2>2. t.accepted \/ t.ahead
    BY <1>1, <1>2 DEF Sound
  <2> QED BY <2>1, <2>2, SettleStep DEF Statuses
<1>3. CASE t.step # "quit" /\ CodeOf(t) = "other"
  <2>1. Settle(m, "failed")
    BY <1>3 DEF HandleLine
  <2> QED BY <2>1, SettleStep DEF Statuses
<1>4. CASE t.step # "quit" /\ CodeOf(t) # "other"
  <2>1. PICK s : s = [t EXCEPT !.step = Follow(t), !.lines = @ - 1,
                               !.loop = IF t.lines = 1 THEN "none" ELSE over,
                               !.wrapped = @ \/ t.step = "starttls",
                               !.clear = @ \/ (t.step \in {"login", "username"}
                                                /\ over = "plain")]
    OBVIOUS
  <2>2. Put(m, s) /\ UNCHANGED <<log, up>>
    BY <1>4, <2>1 DEF HandleLine
  <2>3. PICK next \in Steps : next = Follow(t)
    BY <1>1, <1>4, FollowIs
  <2>4. /\ next \in {"login", "username", "password"} => t.config.secure \/ t.wrapped
        /\ next = "ehlo_over_tls" => t.step = "starttls"
        /\ next = "quit" => t.step = "message"
    BY <1>1, <1>4, <2>3, FollowIs
  <2>5. PICK o \in {"plain", "tls"} : o = over
    BY <1>1, SessionIs DEF SocketOf
  <2>6. o = "plain" => /\ ~t.config.secure
                       /\ t.loop = "none" => ~t.wrapped
                       /\ t.loop # "none" => t.ahead
    BY <1>1, <2>5 DEF SocketOf, Sound
  <2>7. t.lines \in Nat /\ t.wrapped \in BOOLEAN /\ t.clear \in BOOLEAN
    BY <1>1, SessionIs
  <2>8. PICK w \in BOOLEAN : w = (t.wrapped \/ t.step = "starttls")
    OBVIOUS
  <2>9. PICK c \in BOOLEAN : c = (t.clear \/ (t.step \in {"login", "username"} /\ over = "plain"))
    OBVIOUS
  <2>10. PICK l \in {"none", "plain", "tls"} : l = IF t.lines = 1 THEN "none" ELSE o
    OBVIOUS
  <2>11. t.lines - 1 \in Nat
    BY <1>1, <2>7
  <2>12. s = [t EXCEPT !.step = next, !.lines = t.lines - 1, !.loop = l, !.wrapped = w, !.clear = c]
    BY <2>1, <2>3, <2>5, <2>8, <2>9, <2>10
  <2> HIDE DEF over
  <2>13. /\ s \in Sessions /\ s.step = next /\ s.config = t.config /\ s.lines = t.lines - 1
         /\ s.loop = l /\ s.wrapped = w /\ s.clear = c
         /\ s.accepted = t.accepted /\ s.ahead = t.ahead
    BY <1>1, <2>11, <2>12 DEF Sessions
  <2>14. /\ s.loop = (IF t.lines = 1 THEN "none" ELSE o)
         /\ s.wrapped = (t.wrapped \/ t.step = "starttls")
         /\ s.clear = (t.clear \/ (t.step \in {"login", "username"} /\ o = "plain"))
    BY <2>5, <2>8, <2>9, <2>10, <2>13
  <2>15. CodeOf(t) = "expected"
    BY <1>1, <1>4, SessionIs DEF CodeOf, Codes
  <2> HIDE DEF t
  <2>16. s.clear => s.ahead /\ s.wrapped
    BY <1>1, <2>6, <2>13, <2>14 DEF Sound
  <2>17. s.step = "quit" => s.accepted \/ s.ahead
    BY <1>1, <2>4, <2>13, <2>15 DEF Sound
  <2>18. /\ s.loop # "none" => s.ahead
         /\ s.lines > 0 => s.ahead
         /\ s.loop = "plain" => ~s.config.secure
    BY <1>1, <2>6, <2>7, <2>13, <2>14 DEF Sound
  <2>19. s.lines > 1 => s.ahead
    BY <2>7, <2>13, <2>18
  <2>20. Sound(s)
    BY <2>4, <2>13, <2>14, <2>16, <2>17, <2>18, <2>19 DEF Sound
  <2> QED BY <2>2, <2>13, <2>20, PutStep DEF t
<1> QED BY <1>2, <1>3, <1>4

LEMMA ServerRepliesStep ==
    ASSUME SMInv, NEW m \in Mails, NEW lines \in Nat \ {0}, NEW code \in Codes,
           ServerReplies(m, lines, code)
    PROVE  SMInv'
<1> DEFINE t == session[m]
<1>1. t \in Sessions /\ Sound(t)
  BY DEF SMInv, SMTypeOK
<1>2. PICK s : s = [t EXCEPT !.lines = lines, !.last = code, !.ahead = @ \/ lines > 1,
                             !.accepted = @ \/ (t.step = "message"
                                                 /\ (lines > 1 \/ code = "expected"))]
  OBVIOUS
<1>3. Put(m, s) /\ UNCHANGED <<log, up>>
  BY <1>2 DEF ServerReplies
<1>4. /\ s \in Sessions /\ s.step = t.step /\ s.config = t.config
      /\ s.lines = lines /\ s.last = code /\ s.loop = t.loop
      /\ s.wrapped = t.wrapped /\ s.clear = t.clear
      /\ s.ahead = (t.ahead \/ lines > 1)
      /\ s.accepted = (t.accepted \/ (t.step = "message" /\ (lines > 1 \/ code = "expected")))
  BY <1>1, <1>2 DEF Sessions
<1> HIDE DEF t
<1>5. CASE lines = 1
  <2>1. CodeOf(s) = code
    BY <1>4, <1>5 DEF CodeOf
  <2>2. Sound(s)
    BY <1>1, <1>4, <1>5, <2>1 DEF Sound
  <2> QED BY <1>3, <1>4, <2>2, PutStep DEF t
<1>6. CASE lines # 1
  <2>1. lines > 1
    BY <1>6
  <2>2. s.ahead /\ s.loop = t.loop /\ s.wrapped = t.wrapped /\ s.clear = t.clear
    BY <1>4, <2>1
  <2>3. Sound(s)
    BY <1>1, <1>4, <2>2 DEF Sound
  <2> QED BY <1>3, <1>4, <2>3, PutStep DEF t
<1> QED BY <1>5, <1>6

LEMMA ServerClosesStep ==
    ASSUME SMInv, NEW m \in Mails, ServerCloses(m)
    PROVE  SMInv'
<1> DEFINE t == session[m]
<1>1. t \in Sessions /\ Sound(t)
  BY DEF SMInv, SMTypeOK
<1>2. PICK s : s = [t EXCEPT !.link = "closed"]
  OBVIOUS
<1>3. Put(m, s) /\ UNCHANGED <<log, up>>
  BY <1>2 DEF ServerCloses
<1>4. /\ s \in Sessions /\ s.step = t.step /\ s.config = t.config
      /\ s.lines = t.lines /\ s.last = t.last /\ s.loop = t.loop /\ s.wrapped = t.wrapped
      /\ s.clear = t.clear /\ s.ahead = t.ahead /\ s.accepted = t.accepted
  BY <1>1, <1>2 DEF Sessions
<1> HIDE DEF t
<1>5. Sound(s)
  BY <1>1, <1>4 DEF Sound, CodeOf
<1> QED BY <1>3, <1>4, <1>5, PutStep DEF t

\* A connection that fails settles its session, or ends them all.
LEMMA ConnectionFailsStep ==
    ASSUME SMInv, NEW m \in Mails, ConnectionFails(m)
    PROVE  SMInv'
<1>1. CASE ~session[m].wrapped
  <2>1. Settle(m, "failed")
    BY <1>1 DEF ConnectionFails
  <2> QED BY <2>1, SettleStep DEF Statuses
<1>2. CASE session[m].wrapped
  <2>1. /\ up' = FALSE /\ UNCHANGED log
        /\ session' = [n \in Mails |-> [session[n] EXCEPT
                           !.step = IF @ \in Steps THEN "lost" ELSE @]]
    BY <1>2 DEF ConnectionFails
  <2>2. ASSUME NEW n \in Mails
        PROVE  /\ session'[n] \in Sessions /\ session'[n].accepted = session[n].accepted
               /\ session'[n].ahead = session[n].ahead /\ Sound(session'[n])
    <3>1. session[n] \in Sessions /\ Sound(session[n]) /\ session[n].loop = "none"
      BY DEF SMInv, SMTypeOK, ConnectionFails, Free
    <3>2. PICK s : s = [session[n] EXCEPT !.step = IF @ \in Steps THEN "lost" ELSE @]
      OBVIOUS
    <3>3. /\ s \in Sessions /\ s.step \notin Steps /\ s.loop = "none"
          /\ s.accepted = session[n].accepted /\ s.ahead = session[n].ahead
          /\ s.clear = session[n].clear /\ s.wrapped = session[n].wrapped
          /\ s.lines = session[n].lines
      BY <3>1, <3>2 DEF Sessions, Steps
    <3>4. Sound(s)
      BY <3>1, <3>3 DEF Sound, Steps
    <3> QED BY <2>1, <3>2, <3>3, <3>4
  <2>3. SMTypeOK'
    BY <2>1, <2>2 DEF SMInv, SMTypeOK
  <2>4. SentWasAccepted'
    BY <2>1, <2>2 DEF SMInv, SentWasAccepted
  <2>5. \A n \in Mails : Sound(session'[n])
    BY <2>2
  <2> QED BY <2>3, <2>4, <2>5 DEF SMInv
<1> QED BY <1>1, <1>2

LEMMA SMStep == SmtpAssumption /\ SMInv /\ [SMNext]_mailVars => SMInv'
<1> SUFFICES ASSUME SmtpAssumption, SMInv, [SMNext]_mailVars PROVE SMInv'
  OBVIOUS
<1>1. CASE UNCHANGED mailVars
  BY <1>1 DEF mailVars, SMInv, SMTypeOK, SentWasAccepted
<1>2. ASSUME NEW m \in Mails, Timeout(m) PROVE SMInv'
  BY <1>2, SettleStep DEF Timeout, Statuses
<1>3. ASSUME NEW m \in Mails,
             \/ \E config \in Settings : SendEmail(m, config)
             \/ HandleLine(m) \/ ServerCloses(m) \/ ConnectionFails(m)
      PROVE  SMInv'
  BY <1>3, SendEmailStep, HandleLineStep, ServerClosesStep, ConnectionFailsStep
<1>4. ASSUME NEW m \in Mails, NEW lines \in LinesAtOnce[m], NEW code \in Codes,
             ServerReplies(m, lines, code)
      PROVE  SMInv'
  <2>1. lines \in Nat \ {0}
    BY DEF SmtpAssumption
  <2> QED BY <1>4, <2>1, ServerRepliesStep
<1> QED BY <1>1, <1>2, <1>3, <1>4 DEF SMNext

\* Whatever servers answer and wherever connections break, with any number of
\* emails on their way at once: with a server that answers one command at a time
\* a row says 'sent' only of a message that the server took, and the password
\* goes out under TLS only; a server that refuses STARTTLS never gets it
\* (NativeSmtpClient.send and sendEmail of core/notifications.ts).
THEOREM MailsSound ==
    SmtpAssumption /\ SMSpec => [](SMTypeOK /\ SentWasAccepted /\ LoginOnlyUnderTls)
<1> SUFFICES ASSUME SmtpAssumption
             PROVE  SMSpec => [](SMTypeOK /\ SentWasAccepted /\ LoginOnlyUnderTls)
  OBVIOUS
<1>1. SMInit => SMInv
  <2> SUFFICES ASSUME SMInit PROVE SMInv
    OBVIOUS
  <2>1. Idle \in Sessions /\ Sound(Idle)
    BY DEF Idle, Sessions, Sound, Steps, Codes
  <2>2. session = [m \in Mails |-> Idle] /\ log = [m \in Mails |-> "none"] /\ up = TRUE
    BY DEF SMInit
  <2> QED BY <2>1, <2>2 DEF SMInv, SMTypeOK, SentWasAccepted, Statuses
<1>2. SMInv => SMTypeOK /\ SentWasAccepted /\ LoginOnlyUnderTls
  <2> SUFFICES ASSUME SMInv PROVE LoginOnlyUnderTls
    BY DEF SMInv
  <2>1. \A m \in Mails : Sound(session[m])
    BY DEF SMInv
  <2> QED BY <2>1 DEF Sound, LoginOnlyUnderTls
<1>3. SMInv /\ [SMNext]_mailVars => SMInv'
  BY SMStep
<1> QED BY <1>1, <1>2, <1>3, PTL DEF SMSpec
=============================================================================
