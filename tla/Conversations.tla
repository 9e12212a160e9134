--------------------------- MODULE Conversations ---------------------------
(***************************************************************************)
(* The conversation of one resident with the dispatchers (chat.service.ts): *)
(* the resident writes, the staff opens it, answers and resolves it.       *)
(*                                                                         *)
(* A call is a handler in flight; each action is its code from one await   *)
(* to the next.  Time is counted in messages: a time stamp is the number   *)
(* of messages there are, and a message is dated by its insertion.  An     *)
(* update carries the clock of the moment it was issued, which may be long *)
(* before it commits.  lastReadByResidentAt is left out: nothing in the    *)
(* program reads it.                                                       *)
(***************************************************************************)
EXTENDS Naturals, Sequences, FiniteSetsExt

CONSTANTS
    Calls,          \* handlers that can be in flight at the same time
    Window,         \* how many messages an answer carries: 100 in the code
    MaxMessages     \* bound on the messages of the conversation

ConversationAssumption == Window \in Nat \ {0} /\ MaxMessages \in Nat

VARIABLES
    conv,       \* the row of table conversations
    messages,   \* who sent each message, oldest first
    shown,      \* history: messages some employee was answered
    excused,    \* history: the last mark not followed by an answer
    orphans,    \* history: messages of handlers that died before reopening
    crossed,    \* history: messages reopened under a resolution on its way
    call        \* call[c]: the handler running in slot c

vars == <<conv, messages, shown, excused, orphans, crossed, call>>

\* stamp: the message a sender inserted, or the clock an update carries.
Idle == [at |-> "idle", stamp |-> 0]

Init ==
    /\ conv = [exists |-> FALSE, resolved |-> FALSE, resolvedAt |-> 0,
               staffRead |-> 0]
    /\ messages = <<>>
    /\ shown = {}
    /\ excused = 0
    /\ orphans = {}
    /\ crossed = {}
    /\ call = [c \in Calls |-> Idle]

Now == Len(messages)

Go(c, at, stamp) == call' = [call EXCEPT ![c] = [at |-> at, stamp |-> stamp]]

-----------------------------------------------------------------------------
(* sendResidentMessage.                                                    *)

SendRead(c) ==
    /\ call[c].at = "idle"
    /\ Go(c, IF conv.exists THEN "sending" ELSE "creating", 0)
    /\ UNCHANGED <<conv, messages, shown, excused, orphans, crossed>>

\* One of two creations fails on the unique index and reads the other's row.
\* getMyConversation creates the row in the same way.
Create(c) ==
    /\ call[c].at = "creating"
    /\ conv' = [conv EXCEPT !.exists = TRUE]
    /\ Go(c, "sending", 0)
    /\ UNCHANGED <<messages, shown, excused, orphans, crossed>>

InsertFromResident(c) ==
    /\ call[c].at = "sending"
    /\ Now < MaxMessages
    /\ messages' = Append(messages, "resident")
    /\ Go(c, "reopening", Now + 1)
    /\ UNCHANGED <<conv, shown, excused, orphans, crossed>>

\* Mutant: a message leaves a resolved conversation resolved.
Reopened_Not(c) == conv

Reopened(c) == [conv EXCEPT !.resolved = FALSE, !.resolvedAt = 0]

\* A resolution dated before message i is still to commit.
OlderResolution(i) ==
    \E d \in Calls : call[d].at = "resolving" /\ call[d].stamp < i

Reopen(c) ==
    /\ call[c].at = "reopening"
    /\ conv' = Reopened(c)
    /\ crossed' = crossed \cup {i \in {call[c].stamp} : OlderResolution(i)}
    /\ Go(c, "idle", 0)
    /\ UNCHANGED <<messages, shown, excused, orphans>>

-----------------------------------------------------------------------------
(* getConversationMessages, sendStaffMessage, resolveConversation.         *)

\* What is read is that the row exists, which stays true: the clock for the
\* update may as well be read in the same step (so too in ResolveRead).
OpenRead(c) ==
    /\ call[c].at = "idle"
    /\ conv.exists
    /\ Go(c, "opening", Now)
    /\ UNCHANGED <<conv, messages, shown, excused, orphans, crossed>>

\* Opening a conversation marks everything as read, then lists.
MarkRead(c) ==
    /\ call[c].at = "opening"
    /\ conv' = [conv EXCEPT !.staffRead = call[c].stamp]
    /\ Go(c, "listing", call[c].stamp)
    /\ UNCHANGED <<messages, shown, excused, orphans, crossed>>

\* Mutant: only what came after the mark is listed.
Listed_New(c) == call[c].stamp + 1 .. Now

\* The oldest messages, up to the window.
Listed(c) == 1 .. Min({Now, Window})

List(c) ==
    /\ call[c].at = "listing"
    /\ shown' = shown \cup Listed(c)
    /\ Go(c, "idle", 0)
    /\ UNCHANGED <<conv, messages, excused, orphans, crossed>>

InsertFromStaff(c) ==
    /\ call[c].at = "idle"
    /\ conv.exists
    /\ Now < MaxMessages
    /\ messages' = Append(messages, "staff")
    /\ Go(c, "acknowledging", Now + 1)
    /\ UNCHANGED <<conv, shown, excused, orphans, crossed>>

\* A reply marks everything as read, seen or not, up to the clock read at some
\* moment since it was inserted.
Acknowledge(c) ==
    /\ call[c].at = "acknowledging"
    /\ excused' \in call[c].stamp .. Now
    /\ conv' = [conv EXCEPT !.staffRead = excused']
    /\ Go(c, "idle", 0)
    /\ UNCHANGED <<messages, shown, orphans, crossed>>

ResolveRead(c) ==
    /\ call[c].at = "idle"
    /\ conv.exists
    /\ Go(c, "resolving", Now)
    /\ UNCHANGED <<conv, messages, shown, excused, orphans, crossed>>

\* Nothing is compared: messages may have come, and reopened the conversation,
\* since the clock was read.
ResolveCommit(c) ==
    /\ call[c].at = "resolving"
    /\ conv' = [conv EXCEPT !.resolved = TRUE, !.resolvedAt = call[c].stamp]
    /\ Go(c, "idle", 0)
    /\ UNCHANGED <<messages, shown, excused, orphans, crossed>>

-----------------------------------------------------------------------------
\* The process dies, or a statement fails.
Abandon(c) ==
    LET q == call[c]
    IN  /\ q.at # "idle"
        /\ orphans' = IF q.at = "reopening" THEN orphans \cup {q.stamp} ELSE orphans
        /\ excused' = IF q.at = "listing" THEN Max({excused, q.stamp}) ELSE excused
        /\ Go(c, "idle", 0)
        /\ UNCHANGED <<conv, messages, shown, crossed>>

Send(c) == SendRead(c) \/ Create(c) \/ InsertFromResident(c) \/ Reopen(c)

Answer(c) ==
    OpenRead(c) \/ MarkRead(c) \/ List(c) \/ InsertFromStaff(c) \/ Acknowledge(c)

Next == \E c \in Calls :
    Send(c) \/ Answer(c) \/ ResolveRead(c) \/ ResolveCommit(c) \/ Abandon(c)

Spec == Init /\ [][Next]_vars

-----------------------------------------------------------------------------
(* Properties.                                                             *)

Times == 0 .. MaxMessages

\* The row, the messages and the handlers have the shape the code gives them,
\* and nothing is dated or marked ahead of the messages there are.
TypeOK ==
    /\ messages \in Seq({"resident", "staff"}) /\ Now \in Times
    /\ conv \in [exists : BOOLEAN, resolved : BOOLEAN,
                 resolvedAt : 0 .. Now, staffRead : 0 .. Now]
    /\ shown \subseteq 1 .. Now
    /\ excused \in 0 .. Now
    /\ orphans \subseteq 1 .. Now
    /\ crossed \subseteq 1 .. Now
    /\ call \in [Calls ->
         [at : {"idle", "creating", "sending", "reopening", "opening",
                "listing", "acknowledging", "resolving"},
          stamp : 0 .. Now]]

Pending(i) == \E c \in Calls : call[c].at = "reopening" /\ call[c].stamp = i

\* A resolved conversation hides no newer message of the resident, unless the
\* handler of that message is still to reopen it, or died before it could, or
\* reopened it while a resolution dated earlier was on its way: then the
\* message stays hidden, which tasks/0068:22-29 set out to prevent
\* (lines 291-302, 589-597).
NothingNewIsHidden ==
    conv.resolved =>
        \A i \in conv.resolvedAt + 1 .. Now :
            messages[i] = "resident" =>
                i \in orphans \/ Pending(i) \/ i \in crossed

\* What the staff is told it has read, it was shown: all but messages past the
\* window, before a reply, or of an opening that has yet to answer or died
\* (lines 460-479: the mark comes before the list).
ReadWasShown ==
    \A i \in 1 .. conv.staffRead :
        \/ i \in shown
        \/ i > Window
        \/ i <= excused
        \/ \E c \in Calls : call[c].at = "listing" /\ i <= call[c].stamp

\* Opening a conversation shows its most recent messages
\* (tasks/0012-dispatcher-chat.md:123-124).  The query takes the oldest; see
\* the run chat_window.
LatestIsShown ==
    [][\A c \in Calls : List(c) /\ Now > 0 => Now \in shown']_vars
=============================================================================
