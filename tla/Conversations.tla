---------------------------- MODULE Conversations ----------------------------
(***************************************************************************)
(* Threads, their participants and messages: the repository of             *)
(* modules/conversations and its routes.  The routes act for the staff;    *)
(* the repository also answers external contacts, who see the threads they *)
(* take part in and no internal notes.  The routes share one repository,   *)
(* made when the server starts with the database handle of that moment.    *)
(***************************************************************************)
EXTENDS Naturals, FiniteSets

CONSTANTS
    Threads, Staff, Contacts,
    NoOne,
    MaxMessages         \* bound on the number of messages

VARIABLES
    thread,             \* conversations, with the participants of each
    messages,           \* conversation_messages
    announced,          \* threads and messages for which an event was published
    configured,         \* somebody can log in
    open                \* the handle of the repository is open

convVars == <<thread, messages, announced, configured, open>>

ConversationsAssumption ==
    /\ Staff \cap Contacts = {} /\ NoOne \notin Staff \cup Contacts
    /\ MaxMessages \in Nat
    /\ Threads \cap Nat = {}           \* announced tells threads from messages

People == Staff \cup Contacts
Absent == [state |-> "absent", private |-> FALSE, creator |-> NoOne, participants |-> {}]

CVInit ==
    /\ thread = [t \in Threads |-> Absent]
    /\ messages = {} /\ announced = {}
    /\ configured = FALSE /\ open = TRUE

\* getConversation answers the staff; a contact must take part in the thread,
\* and the thread must not be private.
Visible(t, who) ==
    /\ thread[t].state = "live"
    /\ who \in Contacts => /\ ~thread[t].private
                           /\ thread[t].creator = who \/ who \in thread[t].participants

\* listConversations states the same rule in its own query.
Listed(who) ==
    LET live == {t \in Threads : thread[t].state = "live"} IN
    IF who \in Staff THEN live
    ELSE {t \in live : ~thread[t].private}
           \cap ({t \in Threads : thread[t].creator = who}
                   \cup {t \in Threads : who \in thread[t].participants})

Ids == {m.id : m \in messages}
Message(t, who) == [id |-> Cardinality(messages) + 1, thread |-> t, author |-> who, live |-> TRUE]
Able == configured /\ open

\* The thread, its participants and its first message are one transaction.
\* The thread is then read back for its creator; a contact who asked for a
\* private one gets an error, and nothing is announced.
CreateConversation(t, who, private, others, first) ==
    /\ Able /\ thread[t] = Absent
    /\ first => Cardinality(messages) < MaxMessages
    /\ thread' = [thread EXCEPT ![t] =
          [state |-> "live", private |-> private, creator |-> who,
           participants |-> others \cup {who}]]
    /\ messages' = IF first THEN messages \cup {Message(t, who)} ELSE messages
    /\ announced' = IF who \in Contacts /\ private THEN announced ELSE announced \cup {t}
    /\ UNCHANGED <<configured, open>>

\* Wrong: the author does not become a participant.
AddMessageAsGuest(t, who) ==
    /\ Able /\ Visible(t, who) /\ Cardinality(messages) < MaxMessages
    /\ messages' = messages \cup {Message(t, who)}
    /\ announced' = announced \cup {Message(t, who).id}
    /\ UNCHANGED <<thread, configured, open>>

\* The author becomes a participant, in the transaction of the message.
AddMessage(t, who) ==
    /\ Able /\ Visible(t, who) /\ Cardinality(messages) < MaxMessages
    /\ messages' = messages \cup {Message(t, who)}
    /\ thread' = [thread EXCEPT ![t].participants = @ \cup {who}]
    /\ announced' = announced \cup {Message(t, who).id}
    /\ UNCHANGED <<configured, open>>

\* The thread and its messages are marked together.
DeleteConversation(t, who) ==
    /\ Able /\ Visible(t, who)
    /\ thread' = [thread EXCEPT ![t].state = "deleted"]
    /\ messages' = {IF m.thread = t THEN [m EXCEPT !.live = FALSE] ELSE m : m \in messages}
    /\ UNCHANGED <<announced, configured, open>>

\* The system gets its first user: by the setup, or by a restore of a backup,
\* which closes the handle of the process and opens another one.
FirstUser == ~configured /\ configured' = TRUE /\ UNCHANGED <<thread, messages, announced, open>>
Restore ==
    /\ ~configured /\ configured' = TRUE /\ open' = FALSE
    /\ UNCHANGED <<thread, messages, announced>>

\* The server starts again and makes a new repository.
Restart == open' = TRUE /\ UNCHANGED <<thread, messages, announced, configured>>

\* Requests about a thread that there is, by its own path or by that of what it
\* is about.
UseThread(t, who) == AddMessage(t, who) \/ DeleteConversation(t, who)

CVNext ==
    \/ \E t \in Threads, who \in People :
          \/ \E private, first \in BOOLEAN, others \in SUBSET People :
                CreateConversation(t, who, private, others, first)
          \/ UseThread(t, who)
    \/ FirstUser \/ Restore \/ Restart

CVSpec == CVInit /\ [][CVNext]_convVars

(***************************************************************************)
(* Properties.                                                             *)
(***************************************************************************)
\* Threads have a creator and participants; messages have threads.
CVTypeOK ==
    /\ thread \in [Threads -> [state : {"absent", "live", "deleted"}, private : BOOLEAN,
                               creator : People \cup {NoOne}, participants : SUBSET People]]
    /\ messages \subseteq [id : 1 .. MaxMessages, thread : Threads, author : People, live : BOOLEAN]
    /\ \A m \in messages : thread[m.thread].state # "absent"
    /\ \A m, n \in messages : m.id = n.id => m = n
    /\ announced \subseteq Threads \cup Ids
    /\ configured \in BOOLEAN /\ open \in BOOLEAN

\* The list and the single thread are shown by the same rule: nobody is shown
\* a thread that cannot be opened, and none that can is missing.
ListAgreesWithGet == \A who \in People : Listed(who) = {t \in Threads : Visible(t, who)}

\* The messages of a deleted thread are gone, and none comes after.
DeletedThreadsAreSilent ==
    \A m \in messages : thread[m.thread].state = "deleted" => ~m.live

\* Who wrote into a thread goes on seeing it as long as it lives, except a
\* contact whose own thread was asked to be private.
AuthorsKeepAccess ==
    \A m \in messages :
       LET t == thread[m.thread] IN
       t.state = "live" =>
          /\ m.author \in t.participants
          /\ Visible(m.thread, m.author) \/ (t.private /\ t.creator \in Contacts)

\* An internal note of the staff has no message of a contact, though contacts
\* may be named as its participants.
NotesStayInternal ==
    \A m \in messages :
       m.author \in Contacts =>
          LET t == thread[m.thread] IN
          t.private => t.creator \in Contacts

\* Threads are announced, except those that their creator could not read back.
ThreadsAreAnnounced ==
    \A t \in Threads :
       thread[t].state # "absent" =>
          (t \in announced <=> ~(thread[t].private /\ thread[t].creator \in Contacts))

\* All of these.
ThreadsAgree ==
    /\ CVTypeOK /\ ListAgreesWithGet /\ DeletedThreadsAreSilent /\ AuthorsKeepAccess
    /\ NotesStayInternal /\ ThreadsAreAnnounced

\* Every message is announced to the subscribers that tell the operator.
\* Refuted: see the README.
MessagesAreAnnounced == Ids \subseteq announced

\* A system that somebody can log in to serves its threads.
\* Refuted: see the README.
ThreadsAreServed == configured => open
=============================================================================
