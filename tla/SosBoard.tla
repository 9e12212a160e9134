------------------------------ MODULE SosBoard ------------------------------
(***************************************************************************)
(* The SOS page of one employee (frontend-web sos/page.tsx), fed by the    *)
(* service of SosAlerts over two channels nothing orders: the websocket    *)
(* room of the housing complex (realtime.gateway.ts) and the HTTP list of  *)
(* alerts, which replaces the whole board when its answer arrives.  The     *)
(* answer to the employee's own acceptance comes by HTTP as well.          *)
(*                                                                         *)
(* Events are emitted after the commit, with the row the handler holds.    *)
(* A socket delivers in order what was emitted while it was in the room.   *)
(***************************************************************************)
EXTENDS SosAlerts

CONSTANT MaxChannel     \* bound: events under way to the page

ASSUME ChannelAssumption == MaxChannel \in Nat

VARIABLES
    link,       \* "down", "up" (connected) or "joined" (in the SOS room)
    channel,    \* events emitted to the room and not yet received
    load,       \* the request of loadAlerts under way
    answer,     \* the answer to an acceptance on its way to the page
    board       \* board[a]: the row the page shows for a; Unborn: none

pageVars == <<link, channel, load, answer, board>>

boardVars ==
    <<alert, handover, audit, request, link, channel, load, answer, board>>

Event == [kind : {"triggered", "updated"}, row : Alerts, shown : AlertRow]

NoRows == [a \in Alerts |-> Unborn]

NoLoad == [at |-> "none", rows |-> NoRows]

AskedLoad == [at |-> "asked", rows |-> NoRows]

NoAnswer == [row |-> Nobody, shown |-> Unborn]

\* The page loads the list as it mounts, before its socket connects.
BoardInit ==
    /\ Init
    /\ link = "down"
    /\ channel = <<>>
    /\ load = AskedLoad
    /\ answer = NoAnswer
    /\ board = NoRows

\* Mutant: the event goes to two rooms that the page has joined.
Relay_ToTwoRooms(event) ==
    /\ Len(channel) < MaxChannel
    /\ channel' = IF link = "joined" THEN channel \o <<event, event>> ELSE channel
    /\ UNCHANGED <<link, load, board>>

\* The gateway relays an event to the sockets that are in the room.
Relay(event) ==
    /\ Len(channel) < MaxChannel
    /\ channel' = IF link = "joined" THEN Append(channel, event) ELSE channel
    /\ UNCHANGED <<link, load, board>>

RelayTriggered(r) ==
    /\ TriggerAnnounce(r)
    /\ Relay([kind |-> "triggered", row |-> request[r].row,
              shown |-> request[r].seen])
    /\ UNCHANGED answer

\* The caller of accept gets the row that the event carries.
RelayUpdated(r) ==
    /\ NotifyUpdated(r)
    /\ Relay([kind |-> "updated", row |-> request[r].row,
              shown |-> request[r].seen])
    /\ \/ UNCHANGED answer
       \/ /\ request[r].seen.status = "ACTIVE" /\ answer = NoAnswer
          /\ answer' = [row |-> request[r].row, shown |-> request[r].seen]

\* A repeated acceptance by the taker, answered with what the row is now.
AcceptAgain(a) ==
    /\ alert[a].acceptedBy # Nobody
    /\ answer = NoAnswer
    /\ answer' = [row |-> a, shown |-> alert[a]]
    /\ UNCHANGED <<link, channel, load, board>>

\* The answer replaces a row that the board has.
ShowAnswer ==
    /\ answer # NoAnswer
    /\ board' = IF board[answer.row] # Unborn
                  THEN [board EXCEPT ![answer.row] = answer.shown]
                  ELSE board
    /\ answer' = NoAnswer
    /\ UNCHANGED <<link, channel, load>>

Connect ==
    /\ link = "down"
    /\ link' = "up"
    /\ load' = AskedLoad
    /\ UNCHANGED <<channel, board, answer>>

JoinRoom ==
    /\ link = "up"
    /\ link' = "joined"
    /\ UNCHANGED <<channel, load, board, answer>>

Disconnect ==
    /\ link # "down"
    /\ link' = "down"
    /\ channel' = <<>>
    /\ UNCHANGED <<load, board, answer>>

\* The refresh button; it aborts the request under way.
Refresh ==
    /\ load' = AskedLoad
    /\ UNCHANGED <<link, channel, board, answer>>

\* The server evaluates the list.
AnswerLoad ==
    /\ load.at = "asked"
    /\ load' = [at |-> "answered", rows |-> alert]
    /\ UNCHANGED <<link, channel, board, answer>>

ShowLoad ==
    /\ load.at = "answered"
    /\ board' = load.rows
    /\ load' = NoLoad
    /\ UNCHANGED <<link, channel, answer>>

\* The request failed: the page keeps its rows and says so until the next load.
FailLoad ==
    /\ load.at \in {"asked", "answered"}
    /\ load' = [NoLoad EXCEPT !.at = "failed"]
    /\ UNCHANGED <<link, channel, board, answer>>

\* Mutant: a triggered alert too only replaces a row of the board.
Shows_KnownOnly(event) == board[event.row] # Unborn

\* A triggered alert replaces its row or is put on the board; an updated one
\* only replaces a row the board already has.
Shows(event) == event.kind = "triggered" \/ board[event.row] # Unborn

Receive ==
    /\ channel # <<>>
    /\ board' = IF Shows(Head(channel))
                  THEN [board EXCEPT ![Head(channel).row] = Head(channel).shown]
                  ELSE board
    /\ channel' = Tail(channel)
    /\ UNCHANGED <<link, load, answer>>

PageStep ==
    \/ Connect \/ JoinRoom \/ Disconnect
    \/ Refresh \/ AnswerLoad \/ ShowLoad \/ FailLoad
    \/ \E a \in Alerts : AcceptAgain(a)
    \/ ShowAnswer
    \/ Receive

BoardNext ==
    \/ \E r \in Requests :
         \/ Silent(r) /\ UNCHANGED pageVars
         \/ RelayTriggered(r)
         \/ RelayUpdated(r)
    \/ PageStep /\ UNCHANGED vars

\* The browser's event loop hands over every received event in the end.
\* People and networks owe nothing.
BoardSpec ==
    BoardInit /\ [][BoardNext]_boardVars /\ WF_boardVars(Receive /\ UNCHANGED vars)

-----------------------------------------------------------------------------
(* Properties.                                                             *)

\* The page's state has the shape the code gives it.
BoardTypeOK ==
    /\ TypeOK
    /\ link \in {"down", "up", "joined"}
    /\ channel \in Seq(Event) /\ Len(channel) <= MaxChannel
    /\ load \in [at : {"none", "asked", "answered", "failed"},
                rows : [Alerts -> AlertRow]]
    /\ answer \in [row : Alerts \cup {Nobody}, shown : AlertRow]
    /\ board \in [Alerts -> AlertRow]

\* However late the events, the answers and the lists are, the page never names
\* a wrong employee as responsible and never shows a closure that did not
\* happen: what it says of these is what the database says now.
BoardNeverAhead ==
    \A a \in Alerts :
        /\ board[a] # Unborn => board[a].triggeredBy = alert[a].triggeredBy
        /\ board[a].acceptedBy # Nobody =>
               board[a].acceptedBy = alert[a].acceptedBy
        /\ board[a].status \in Outcome => board[a] = alert[a]

\* An alert announced to the page appears on it unless the connection breaks,
\* whatever events are queued before it and whatever lists arrive meanwhile.
AnnouncedAlertAppears ==
    \A a \in Alerts :
        (\E i \in DOMAIN channel :
             channel[i].kind = "triggered" /\ channel[i].row = a)
            ~> (board[a] # Unborn \/ link = "down")

\* Nothing is under way between the service and a connected page.
Quiet ==
    /\ \A r \in Requests : request[r].at = "idle"
    /\ link = "joined" /\ channel = <<>> /\ load.at = "none"
    /\ answer = NoAnswer

\* An alert on the board is shown as active as long as it is, whenever nothing
\* is under way to a connected page (tasks/0010-sos-button.md:215).  A list read
\* before the alert was raised, and shown after its event, takes it off; see
\* the run sos_board_loses_alert.
QuietBoardKeepsActive ==
    [][\A a \in Alerts :
         board[a].status = "ACTIVE" /\ Active(a)' /\ Quiet'
             => board'[a].status = "ACTIVE"]_boardVars
=============================================================================
