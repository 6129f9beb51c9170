---------------------------- MODULE TerminalPane -----------------------------
(***************************************************************************)
(* A terminal's pane in one browser (XtermPane.tsx) with the terminal it   *)
(* shows: the socket it loses and opens anew, the fits of the xterm to its *)
(* container, and the resize frames these send.  Other clients resize and  *)
(* attach to the same terminal.                                            *)
(*                                                                         *)
(* Frames are resizes; replies are snapshots and exits.  The four timers   *)
(* of a settled fit are one, which may be set again at any time; how long  *)
(* a timer waits is left out, the doubling delay of a reconnect included.  *)
(***************************************************************************)
EXTENDS TerminalSize, Sequences

CONSTANTS
    Containers,     \* the sizes that fit the pane's container
    MaxTurns,       \* bound: what happens outside of the pane and the server
    MaxFrames       \* bound: frames on their way, one way

ASSUME PaneAssumption ==
    /\ Containers \subseteq [cols : Requests, rows : Requests]
    /\ \A size \in Containers : size.cols > 0 /\ size.rows > 0
    /\ MaxTurns \in Nat /\ MaxFrames \in Nat \ {0}

VARIABLES
    conn,           \* the pane's socket: "opening", "open", "waiting", "closed"
    link,           \* the server's: "none", "checking", "attaching", "sending",
                    \* "attached"
    frames, replies,
    container,      \* the size that fits, now
    shown,          \* the size of the xterm
    reported,       \* lastReportedSizeRef
    fits, parsing,  \* a fit is scheduled; a snapshot is being written
    visible,        \* the document is
    strayed,        \* history: a frame was lost or another client resized since
    turns

socketVars == <<conn, link, frames, replies>>
viewVars == <<container, shown, reported, fits, parsing, visible>>
paneVars == <<vars, socketVars, viewVars, strayed, turns>>

NoSize == Size(0, 0)
Clamped(s) == Size(Clamp(s.cols, MaxCols), Clamp(s.rows, MaxRows))

PaneInit ==
    /\ Init
    /\ conn = "opening" /\ link = "none" /\ frames = <<>> /\ replies = <<>>
    /\ container \in Containers
    /\ shown = NoSize /\ reported = NoSize
    /\ fits = TRUE /\ parsing = FALSE /\ visible = TRUE
    /\ strayed = FALSE /\ turns = 0

-----------------------------------------------------------------------------
(* The socket.                                                              *)

Disconnects(state) ==
    conn' = state /\ link' = "none" /\ frames' = <<>> /\ replies' = <<>>

\* connect, from its timer.
PaneConnects ==
    /\ conn = "waiting"
    /\ conn' = "opening"
    /\ UNCHANGED <<vars, link, frames, replies, viewVars, strayed>>

\* A hidden document schedules no fit.
Schedules == fits' = (fits \/ visible)

SocketOpens ==
    /\ conn = "opening"
    /\ conn' = "open" /\ link' = "checking"
    /\ Schedules
    /\ UNCHANGED <<vars, frames, replies, container, shown, reported, parsing, visible, strayed>>

\* A close that is no refusal sets the timer.  (Mutant: only that of a socket
\* that was open.)
AfterDrop_WasOpen == IF conn = "open" THEN "waiting" ELSE "dropped"
AfterDrop == "waiting"
SocketDrops ==
    /\ conn \in {"opening", "open"}
    /\ Disconnects(AfterDrop)
    /\ strayed' = (strayed \/ frames # <<>>)
    /\ UNCHANGED <<vars, viewVars>>

\* Closed with 1008: the session has ended.
SessionEnds ==
    /\ conn \in {"opening", "open"}
    /\ Disconnects("closed")
    /\ UNCHANGED <<vars, viewVars, strayed>>

\* Before the session is checked nobody listens to the socket's frames; from
\* then on they wait for the attach.
ServerMisses ==
    /\ link = "checking" /\ frames # <<>>
    /\ frames' = Tail(frames)
    /\ strayed' = TRUE
    /\ UNCHANGED <<vars, conn, link, replies, viewVars>>

ServerListens ==
    /\ link = "checking"
    /\ link' = "attaching"
    /\ UNCHANGED <<vars, conn, frames, replies, viewVars, strayed>>

\* attachTerminal finds the terminal, or the socket is closed with 1008.  The
\* snapshot has the size from before the frames that waited for it.
ServerAttaches ==
    /\ link = "attaching"
    /\ IF status = "closed" THEN Disconnects("closed")
       ELSE /\ link' = "sending"
            /\ replies' = Append(replies, [type |-> "snapshot", status |-> status, size |-> Size(cols, rows)])
            /\ UNCHANGED <<conn, frames>>
    /\ UNCHANGED <<vars, viewVars, strayed>>

\* nudgeTerminal, after these frames and the snapshot: a nudge, unless there
\* is one already or none to be.
NoNudgeNow == status # "running" \/ rows < 2 \/ nudge.inFlight
ServerNudges ==
    /\ link = "sending"
    /\ link' = "attached"
    /\ Nudge \/ (NoNudgeNow /\ UNCHANGED vars)
    /\ UNCHANGED <<conn, frames, replies, viewVars, strayed>>

ServerResizes ==
    /\ link \in {"sending", "attached"} /\ frames # <<>>
    /\ frames' = Tail(frames)
    /\ IF status = "running" THEN Resize(Head(frames).cols, Head(frames).rows) ELSE UNCHANGED vars
    /\ strayed' = FALSE
    /\ UNCHANGED <<conn, link, replies, viewVars>>

-----------------------------------------------------------------------------
(* The pane.                                                                *)

\* handleServerMessage: a snapshot has the xterm take the server's size and
\* forget the fits that were scheduled; the exit of the shell ends it.
PaneHears ==
    /\ conn = "open" /\ replies # <<>>
    /\ LET m == Head(replies) IN
       IF m.type = "exit" \/ m.status = "exited"
       THEN Disconnects("closed") /\ UNCHANGED viewVars
       ELSE /\ shown' = m.size /\ fits' = FALSE /\ parsing' = TRUE
            /\ replies' = Tail(replies)
            /\ UNCHANGED <<conn, link, frames, container, reported, visible>>
    /\ UNCHANGED <<vars, strayed>>

\* The snapshot is written: fit again.
PaneParsed ==
    /\ parsing
    /\ parsing' = FALSE
    /\ Schedules
    /\ UNCHANGED <<vars, socketVars, container, shown, reported, visible, strayed>>

\* fitAndReportSize: a size is reported where it is not the one reported
\* last, and counts as reported when it was sent.  (Mutant: in any case.)
IsSent_Always == TRUE
IsSent == conn = "open"
PaneFits ==
    /\ fits /\ Len(frames) < MaxFrames
    /\ fits' = FALSE
    /\ IF ~visible THEN UNCHANGED <<shown, reported, frames>>
       ELSE /\ shown' = container
            /\ IF reported # container /\ IsSent
               THEN reported' = container /\ frames' = IF conn = "open" THEN Append(frames, container) ELSE frames
               ELSE UNCHANGED <<reported, frames>>
    /\ UNCHANGED <<vars, conn, link, replies, container, parsing, visible, strayed>>

-----------------------------------------------------------------------------
(* What happens otherwise.                                                  *)

\* The ResizeObserver's callback.
ContainerChanges ==
    /\ container' \in Containers \ {container}
    /\ Schedules
    /\ UNCHANGED <<vars, socketVars, shown, reported, parsing, visible, strayed>>

\* The page is hidden; it is shown again, or its viewport scrolls.
PageHides ==
    /\ visible
    /\ visible' = FALSE
    /\ UNCHANGED <<vars, socketVars, container, shown, reported, fits, parsing, strayed>>

PageShows ==
    /\ visible' = TRUE /\ fits' = TRUE
    /\ UNCHANGED <<vars, socketVars, container, shown, reported, parsing, strayed>>

OtherResizes ==
    /\ \E c, r \in Requests : Resize(c, r)
    /\ strayed' = TRUE
    /\ UNCHANGED <<socketVars, viewVars>>

OtherAttaches == Nudge /\ UNCHANGED <<socketVars, viewVars, strayed>>

ShellExits ==
    /\ PtyExits
    /\ replies' = IF link \in {"sending", "attached"} THEN Append(replies, [type |-> "exit"]) ELSE replies
    /\ UNCHANGED <<conn, link, frames, viewVars, strayed>>

\* The subscribers are dropped without a word.
OtherCloses == CloseTerminal /\ UNCHANGED <<socketVars, viewVars, strayed>>

Turn ==
    /\ turns < MaxTurns /\ turns' = turns + 1
    /\ \/ SocketDrops \/ SessionEnds
       \/ ContainerChanges \/ PageHides \/ PageShows
       \/ OtherResizes \/ OtherAttaches \/ ShellExits \/ OtherCloses

PaneStep ==
    /\ \/ PaneConnects \/ SocketOpens
       \/ ServerMisses \/ ServerListens \/ ServerAttaches \/ ServerNudges \/ ServerResizes
       \/ PaneHears \/ PaneParsed \/ PaneFits
    /\ UNCHANGED turns

TimerFires == NudgeTimer /\ UNCHANGED <<socketVars, viewVars, strayed, turns>>

PaneNext == Turn \/ PaneStep \/ TimerFires

\* Timers fire, frames arrive and are handled, snapshots get written.
PaneSpec == PaneInit /\ [][PaneNext]_paneVars /\ WF_paneVars(PaneStep) /\ WF_paneVars(TimerFires)

-----------------------------------------------------------------------------
Settled ==
    /\ conn = "open" /\ link = "attached" /\ frames = <<>> /\ replies = <<>>
    /\ visible /\ ~fits /\ ~parsing
    /\ status = "running" /\ ~nudge.inFlight

\* A pane with nothing left to do shows what fits its container, and the
\* terminal has that size, or the row more of a nudge that met the report:
\* whatever was hidden, cut off or in the middle of a snapshot meanwhile.  Not
\* so when the last report was lost, with its socket or while the session was
\* checked, or another client resized: the pane does not send again what it
\* reported (terminalWebSocket.ts:105).
PaneAgrees ==
    Settled =>
        /\ shown = container
        /\ strayed \/ Size(cols, rows) = Clamped(shown) \/ Size(cols, rows - 1) = Clamped(shown)

\* A pane that lost its socket opens another one, unless it was refused.
PaneComesBack == conn \notin {"open", "closed"} ~> conn \in {"open", "closed"}
=============================================================================
