------------------------- MODULE TerminalPaneProofs -------------------------
(***************************************************************************)
(* Theorems about TerminalSize, for every clamp and every set of requests, *)
(* and about TerminalPane, for every set of container sizes and any number *)
(* of turns and frames too.                                                *)
(***************************************************************************)
EXTENDS TerminalPane, SequenceTheorems, TLAPS

-----------------------------------------------------------------------------
(* The size of a terminal.                                                  *)

\* Whatever integer is clamped, the result is a size.
LEMMA ClampInRange ==
    ASSUME NEW value \in Int, NEW max \in Nat \ {0}
    PROVE  Clamp(value, max) \in 1..max
BY DEF Clamp

\* A size that is one already is left alone.
LEMMA ClampIdempotent ==
    ASSUME NEW max \in Nat \ {0}, NEW value \in 1..max
    PROVE  Clamp(value, max) = value
BY DEF Clamp

\* How far the size may be from what clients were told and asked for.  A
\* terminal is a row short only of an untouched nudge, which will add the
\* row; it is a row over only after a nudge was restored.
DriftInv ==
    status = "running" =>
        LET short == nudge.inFlight /\ cols = nudge.cols /\ rows = nudge.rows - 1
            MayDiffer(size) ==
                /\ size.cols = cols
                /\ \/ size.rows = rows
                   \/ ~nudge.inFlight /\ size.rows = rows - 1
                   \/ short /\ size.rows = rows + 1
        IN  MayDiffer(announced) /\ MayDiffer(wanted)

IInv == TypeOK /\ DriftInv

\* A new terminal, of any requested size, satisfies the invariant.
LEMMA InitIInv == Init => IInv
<1>. SUFFICES ASSUME Init PROVE IInv
  OBVIOUS
<1>1. PICK c \in Requests, r \in Requests :
        /\ cols = Clamp(Normalize(c, 80), MaxCols)
        /\ rows = Clamp(Normalize(r, 24), MaxRows)
  BY DEF Init
<1>2. Normalize(c, 80) \in Int /\ Normalize(r, 24) \in Int
  BY RequestsAssumption DEF Normalize
<1>3. cols \in 1..MaxCols /\ rows \in 1..MaxRows
  BY <1>1, <1>2, ClampInRange, MaxAssumption
<1>4. TypeOK
  BY <1>3, MaxAssumption DEF Init, TypeOK, NoNudge, Size, Sizes
<1>5. DriftInv
  BY DEF Init, DriftInv, Size
<1>. QED BY <1>4, <1>5 DEF IInv

\* Every resize, nudge, restore, exit and close keeps the invariant.
LEMMA NextIInv == IInv /\ [Next]_vars => IInv'
<1>. SUFFICES ASSUME IInv, [Next]_vars PROVE IInv'
  OBVIOUS
<1>. USE MaxAssumption
<1>1. ASSUME NEW c \in Requests, NEW r \in Requests, Resize(c, r) PROVE IInv'
  <2>. DEFINE nc == Clamp(Normalize(c, cols), MaxCols)
              nr == Clamp(Normalize(r, rows), MaxRows)
  <2>1. Normalize(c, cols) \in Int /\ Normalize(r, rows) \in Int
    BY RequestsAssumption DEF Normalize, IInv, TypeOK, Size, Sizes
  <2>2. nc \in 1..MaxCols /\ nr \in 1..MaxRows
    BY <2>1, ClampInRange
  <2>3. /\ cols' = nc /\ rows' = nr
        /\ announced' = IF cols # nc \/ rows # nr THEN Size(nc, nr) ELSE announced
        /\ wanted' = Size(nc, nr)
        /\ UNCHANGED <<status, nudge>>
    BY <1>1 DEF Resize, ApplySize, Announce, Changes
  <2>. HIDE DEF nc, nr
  <2>4. TypeOK'
    BY <2>2, <2>3 DEF IInv, TypeOK, Size, Sizes
  <2>5. DriftInv'
    BY <2>2, <2>3 DEF IInv, TypeOK, DriftInv, Size, Sizes
  <2>. QED BY <2>4, <2>5 DEF IInv
<1>2. CASE Nudge
  <2>1. cols \in 1..MaxCols /\ rows \in 2..MaxRows
    BY <1>2 DEF Nudge, IInv, TypeOK, Size, Sizes
  <2>2. cols' = cols /\ rows' = rows - 1
    BY <1>2, <2>1, ClampIdempotent DEF Nudge, ApplySize, Changes
  <2>3. TypeOK'
    BY <1>2, <2>1, <2>2 DEF Nudge, IInv, TypeOK, Size, Sizes
  <2>4. DriftInv'
    BY <1>2, <2>1, <2>2 DEF Nudge, IInv, TypeOK, DriftInv, Size, Sizes
  <2>. QED BY <2>3, <2>4 DEF IInv
<1>3. CASE NudgeTimer
  <2>1. nudge.cols \in 1..MaxCols /\ nudge.rows \in 1..MaxRows
    BY DEF IInv, TypeOK
  <2>2. IF RestoreApplies THEN cols' = nudge.cols /\ rows' = nudge.rows
                          ELSE cols' = cols /\ rows' = rows
    BY <1>3, <2>1, ClampIdempotent DEF NudgeTimer, ApplySize, Changes
  <2>3. TypeOK'
    BY <1>3, <2>1, <2>2 DEF NudgeTimer, NoNudge, IInv, TypeOK, Size, Sizes
  <2>4. DriftInv'
    BY <1>3, <2>1, <2>2
       DEF NudgeTimer, NoNudge, RestoreApplies, IInv, TypeOK, DriftInv, Size, Sizes
  <2>. QED BY <2>3, <2>4 DEF IInv
<1>4. CASE PtyExits
  BY <1>4 DEF PtyExits, IInv, TypeOK, DriftInv, Size, Sizes
<1>5. CASE CloseTerminal
  BY <1>5 DEF CloseTerminal, IInv, TypeOK, DriftInv, Size, Sizes
<1>6. CASE UNCHANGED vars
  BY <1>6 DEF vars, IInv, TypeOK, DriftInv, Size, Sizes
<1>. QED BY <1>1, <1>2, <1>3, <1>4, <1>5, <1>6 DEF Next

\* The invariant holds in every reachable state.
LEMMA SpecIInv == Spec => []IInv
BY InitIInv, NextIInv, PTL DEF Spec

\* Every size, and every size captured by a nudge or told to a client, is
\* within the clamps, for any integers in resize frames.
THEOREM SizeTypeCorrect == Spec => []TypeOK
<1>1. IInv => TypeOK
  BY DEF IInv
<1>. QED BY <1>1, SpecIInv, PTL

\* No sequence of resizes and nudges takes a running terminal more than a row
\* from the size its clients were told.
THEOREM DriftStaysBounded == Spec => []DriftIsBounded
<1>1. IInv => DriftIsBounded
  BY DEF IInv, TypeOK, DriftInv, DriftIsBounded, Size, Sizes
<1>. QED BY <1>1, SpecIInv, PTL

\* When no nudge is pending the size asked for last stands, but for the one
\* row a restore adds to a request that met the nudge.
THEOREM LastRequestIsKept == Spec => []LastRequestStandsOrMetNudge
<1>1. IInv => LastRequestStandsOrMetNudge
  BY DEF IInv, TypeOK, DriftInv, LastRequestStandsOrMetNudge, Size, Sizes
<1>. QED BY <1>1, SpecIInv, PTL

-----------------------------------------------------------------------------
(* The pane.                                                                *)

\* What the pane's steps keep.  A report waits for the server behind those
\* before it, and it is the size asked for last once none is left, unless it
\* was lost or overruled.  The refs of a visible pane without a scheduled fit
\* are up to date.
FramesInv ==
    /\ frames \in Seq(Containers)
    /\ frames # <<>> => frames[Len(frames)] = reported
    /\ conn # "open" => frames = <<>>

ReportInv ==
    status = "running" /\ ~strayed /\ conn # "closed" /\ frames = <<>> /\ reported # NoSize =>
        wanted = Clamped(reported)

FitInv ==
    /\ container \in Containers
    /\ reported \in Containers \union {NoSize}
    /\ conn = "open" /\ visible /\ ~fits /\ ~parsing => shown = container /\ reported = container

PaneInv == FramesInv /\ ReportInv /\ FitInv

-----------------------------------------------------------------------------
\* No container is of the size that stands for none.
LEMMA ContainerSizes ==
    ASSUME NEW size \in Containers
    PROVE  /\ size.cols \in Requests /\ size.rows \in Requests
           /\ size.cols \in Nat \ {0} /\ size.rows \in Nat \ {0}
           /\ size # NoSize
<1>1. size \in [cols : Requests, rows : Requests] /\ size.cols > 0 /\ size.rows > 0
  BY PaneAssumption
<1>2. size.cols \in Int /\ size.rows \in Int
  BY <1>1, RequestsAssumption, Zenon
<1>3. NoSize.cols = 0
  BY DEF NoSize, Size
<1>. QED BY <1>1, <1>2, <1>3

\* Taking the first of the frames leaves the last one last.
LEMMA TailKeepsLast ==
    ASSUME NEW S, NEW seq \in Seq(S), seq # <<>>
    PROVE  /\ Head(seq) \in S /\ Tail(seq) \in Seq(S)
           /\ Tail(seq) # <<>> => Tail(seq)[Len(Tail(seq))] = seq[Len(seq)]
           /\ Tail(seq) = <<>> => Head(seq) = seq[Len(seq)]
<1>1. Len(seq) \in Nat \ {0} /\ Head(seq) = seq[1]
  OBVIOUS
<1>2. /\ Head(seq) \in S /\ Tail(seq) \in Seq(S)
      /\ Len(Tail(seq)) = Len(seq) - 1
      /\ \A i \in 1..Len(Tail(seq)) : Tail(seq)[i] = seq[i + 1]
  BY HeadTailProperties
<1>3. Tail(seq) = <<>> <=> Len(seq) = 1
  BY <1>1, <1>2, EmptySeq
<1>4. ASSUME Len(seq) # 1 PROVE Tail(seq)[Len(Tail(seq))] = seq[Len(seq)]
  <2>1. Len(Tail(seq)) \in 1..Len(Tail(seq)) /\ Len(Tail(seq)) + 1 = Len(seq)
    BY <1>1, <1>2, <1>4
  <2>. QED BY <1>2, <2>1
<1>. QED BY <1>1, <1>2, <1>3, <1>4

\* A frame that is appended is last.
LEMMA AppendedIsLast ==
    ASSUME NEW S, NEW seq \in Seq(S), NEW e \in S
    PROVE  /\ Append(seq, e) \in Seq(S) /\ Append(seq, e) # <<>>
           /\ Append(seq, e)[Len(Append(seq, e))] = e
OBVIOUS

-----------------------------------------------------------------------------
\* A step of the pane is a step of TerminalSize, or changes nothing there: a
\* pane asks for sizes that fit containers, and these are requests.
LEMMA PaneStepIsSizeStep == FramesInv /\ [PaneNext]_paneVars => [Next]_vars
<1>. SUFFICES ASSUME FramesInv, [PaneNext]_paneVars PROVE [Next]_vars
  OBVIOUS
<1>1. CASE ServerResizes
  <2>1. Head(frames) \in Containers
    BY <1>1, TailKeepsLast DEF ServerResizes, FramesInv
  <2>2. Head(frames).cols \in Requests /\ Head(frames).rows \in Requests
    BY <2>1, ContainerSizes
  <2>3. Resize(Head(frames).cols, Head(frames).rows) \/ UNCHANGED vars
    BY <1>1 DEF ServerResizes
  <2>. QED BY <2>2, <2>3 DEF Next
<1>2. CASE PaneStep /\ ~ServerResizes
  BY <1>2 DEF PaneStep, PaneConnects, SocketOpens, ServerMisses, ServerListens,
      ServerAttaches, ServerNudges, PaneHears, PaneParsed, PaneFits, Next
<1>3. CASE Turn
  BY <1>3 DEF Turn, SocketDrops, SessionEnds, ContainerChanges, PageHides, PageShows,
      OtherResizes, OtherAttaches, ShellExits, OtherCloses, Next
<1>4. CASE TimerFires
  BY <1>4 DEF TimerFires, Next
<1>5. CASE UNCHANGED paneVars
  BY <1>5 DEF paneVars
<1>6. PaneStep => ServerResizes \/ (PaneStep /\ ~ServerResizes)
  OBVIOUS
<1>. QED BY <1>1, <1>2, <1>3, <1>4, <1>5, <1>6 DEF PaneNext

-----------------------------------------------------------------------------
\* A pane that was mounted just now has reported nothing and is to be fitted.
LEMMA InitPaneInv == PaneInit => PaneInv
BY DEF PaneInit, PaneInv, FramesInv, ReportInv, FitInv

\* Steps of the terminal alone, which no client asked for.
LEMMA QuietStepPaneInv ==
    ASSUME PaneInv, UNCHANGED <<socketVars, viewVars, strayed>>,
           wanted' = wanted, status' # "running" \/ status' = status
    PROVE  PaneInv'
BY DEF PaneInv, FramesInv, ReportInv, FitInv, socketVars, viewVars, Clamped

\* Without a nudge of the size its request stands.
LEMMA ResizeWants ==
    ASSUME NEW size \in Containers, Resize(size.cols, size.rows)
    PROVE  wanted' = Clamped(size)
BY ContainerSizes DEF Resize, Normalize, Clamped

\* The socket's steps.
LEMMA SocketStepPaneInv ==
    ASSUME PaneInv, PaneConnects \/ SocketOpens \/ SocketDrops \/ SessionEnds
    PROVE  PaneInv'
<1>1. CASE PaneConnects
  BY <1>1 DEF PaneConnects, PaneInv, FramesInv, ReportInv, FitInv, vars, viewVars, Clamped
<1>2. CASE SocketOpens
  BY <1>2 DEF SocketOpens, Schedules, PaneInv, FramesInv, ReportInv, FitInv, vars, Clamped
<1>3. CASE SocketDrops
  <2>1. /\ frames' = <<>> /\ conn' = "waiting" /\ conn # "closed"
        /\ ~strayed' => ~strayed /\ frames = <<>>
        /\ UNCHANGED <<status, wanted, container, reported>>
    BY <1>3 DEF SocketDrops, AfterDrop, Disconnects, vars, viewVars
  <2>. QED BY <2>1 DEF PaneInv, FramesInv, ReportInv, FitInv, Clamped
<1>4. CASE SessionEnds
  BY <1>4 DEF SessionEnds, Disconnects, PaneInv, FramesInv, ReportInv, FitInv, vars, viewVars, Clamped
<1>. QED BY <1>1, <1>2, <1>3, <1>4

\* The server's steps.
LEMMA ServerStepPaneInv ==
    ASSUME PaneInv,
           \/ ServerMisses \/ ServerListens \/ ServerAttaches \/ ServerNudges \/ ServerResizes
    PROVE  PaneInv'
<1>1. CASE ServerMisses
  <2>1. /\ frames' \in Seq(Containers)
        /\ frames' # <<>> => frames'[Len(frames')] = reported
    BY <1>1, TailKeepsLast DEF ServerMisses, PaneInv, FramesInv
  <2>2. conn = "open"
    BY <1>1 DEF ServerMisses, PaneInv, FramesInv
  <2>. QED
    BY <1>1, <2>1, <2>2 DEF ServerMisses, PaneInv, FramesInv, ReportInv, FitInv, vars, viewVars
<1>2. CASE ServerListens
  BY <1>2 DEF ServerListens, PaneInv, FramesInv, ReportInv, FitInv, vars, viewVars, Clamped
<1>3. CASE ServerAttaches
  <2>1. /\ UNCHANGED <<conn, frames>> \/ (conn' = "closed" /\ frames' = <<>>)
        /\ UNCHANGED <<status, wanted, strayed, viewVars>>
    BY <1>3 DEF ServerAttaches, Disconnects, vars
  <2>2. CASE UNCHANGED <<conn, frames>>
    BY <2>1, <2>2 DEF PaneInv, FramesInv, ReportInv, FitInv, viewVars, Clamped
  <2>3. CASE conn' = "closed" /\ frames' = <<>>
    BY <2>1, <2>3 DEF PaneInv, FramesInv, ReportInv, FitInv, viewVars, Clamped
  <2>. QED BY <2>1, <2>2, <2>3
<1>4. CASE ServerNudges
  <2>1. wanted' = wanted /\ status' = status
    BY <1>4 DEF ServerNudges, Nudge, vars
  <2>. QED
    BY <1>4, <2>1 DEF ServerNudges, PaneInv, FramesInv, ReportInv, FitInv, viewVars, Clamped
<1>5. CASE ServerResizes
  <2>1. /\ Head(frames) \in Containers
        /\ frames' \in Seq(Containers)
        /\ frames' # <<>> => frames'[Len(frames')] = reported
        /\ frames' = <<>> => Head(frames) = reported
    BY <1>5, TailKeepsLast DEF ServerResizes, PaneInv, FramesInv
  <2>2. conn' = conn /\ conn = "open"
    BY <1>5 DEF ServerResizes, PaneInv, FramesInv
  <2>3. FramesInv'
    BY <1>5, <2>1, <2>2 DEF ServerResizes, FramesInv, viewVars
  <2>4. status' = "running" => wanted' = Clamped(Head(frames))
    BY <1>5, <2>1, ResizeWants DEF ServerResizes, Resize, vars
  <2>5. ReportInv'
    BY <1>5, <2>1, <2>4 DEF ServerResizes, ReportInv, viewVars, Clamped
  <2>6. FitInv'
    BY <1>5, <2>2 DEF ServerResizes, PaneInv, FitInv, viewVars
  <2>. QED BY <2>3, <2>5, <2>6 DEF PaneInv
<1>. QED BY <1>1, <1>2, <1>3, <1>4, <1>5

\* The pane's own steps, and what its page does.
LEMMA ViewStepPaneInv ==
    ASSUME PaneInv,
           \/ PaneHears \/ PaneParsed \/ PaneFits
           \/ ContainerChanges \/ PageHides \/ PageShows
    PROVE  PaneInv'
<1>1. CASE PaneHears
  <2>1. UNCHANGED <<status, wanted, strayed, container, reported>>
    BY <1>1 DEF PaneHears, vars, viewVars
  <2>2. \/ conn' = "closed" /\ frames' = <<>>
        \/ UNCHANGED <<conn, frames>> /\ parsing'
    BY <1>1 DEF PaneHears, Disconnects
  <2>3. CASE conn' = "closed" /\ frames' = <<>>
    BY <2>1, <2>3 DEF PaneInv, FramesInv, ReportInv, FitInv, Clamped
  <2>4. CASE UNCHANGED <<conn, frames>> /\ parsing'
    BY <2>1, <2>4 DEF PaneInv, FramesInv, ReportInv, FitInv, Clamped
  <2>. QED BY <2>2, <2>3, <2>4
<1>2. CASE PaneParsed
  BY <1>2 DEF PaneParsed, Schedules, PaneInv, FramesInv, ReportInv, FitInv, vars, socketVars, Clamped
<1>3. CASE PaneFits
  <2>1. CASE visible /\ reported # container /\ conn = "open"
    <3>1. /\ frames' = Append(frames, container) /\ reported' = container /\ shown' = container
          /\ UNCHANGED <<conn, container>>
      BY <1>3, <2>1 DEF PaneFits, IsSent
    <3>2. /\ frames' \in Seq(Containers) /\ frames' # <<>>
          /\ frames'[Len(frames')] = container
      BY <3>1, AppendedIsLast DEF PaneInv, FramesInv, FitInv
    <3>. QED BY <2>1, <3>1, <3>2 DEF PaneInv, FramesInv, ReportInv, FitInv
  <2>2. CASE ~(visible /\ reported # container /\ conn = "open")
    <3>1. /\ UNCHANGED <<conn, frames, reported, container, visible, parsing, strayed, status, wanted>>
          /\ visible => shown' = container
      BY <1>3, <2>2 DEF PaneFits, IsSent, vars
    <3>. QED BY <2>2, <3>1 DEF PaneInv, FramesInv, ReportInv, FitInv, Clamped
  <2>. QED BY <2>1, <2>2
<1>4. CASE ContainerChanges
  BY <1>4 DEF ContainerChanges, Schedules, PaneInv, FramesInv, ReportInv, FitInv, vars, socketVars, Clamped
<1>5. CASE PageHides
  BY <1>5 DEF PageHides, PaneInv, FramesInv, ReportInv, FitInv, vars, socketVars, Clamped
<1>6. CASE PageShows
  BY <1>6 DEF PageShows, PaneInv, FramesInv, ReportInv, FitInv, vars, socketVars, Clamped
<1>. QED BY <1>1, <1>2, <1>3, <1>4, <1>5, <1>6

\* What others do to the terminal.
LEMMA OtherStepPaneInv ==
    ASSUME PaneInv,
           \/ OtherResizes \/ OtherAttaches \/ ShellExits \/ OtherCloses \/ TimerFires
    PROVE  PaneInv'
<1>1. CASE OtherResizes
  BY <1>1 DEF OtherResizes, PaneInv, FramesInv, ReportInv, FitInv, socketVars, viewVars
<1>2. CASE OtherAttaches
  BY <1>2, QuietStepPaneInv DEF OtherAttaches, Nudge
<1>3. CASE ShellExits
  BY <1>3 DEF ShellExits, PtyExits, PaneInv, FramesInv, ReportInv, FitInv, viewVars
<1>4. CASE OtherCloses
  BY <1>4, QuietStepPaneInv DEF OtherCloses, CloseTerminal
<1>5. CASE TimerFires
  BY <1>5, QuietStepPaneInv DEF TimerFires, NudgeTimer
<1>. QED BY <1>1, <1>2, <1>3, <1>4, <1>5

\* Every step keeps the invariant.
LEMMA NextPaneInv == PaneInv /\ [PaneNext]_paneVars => PaneInv'
<1>. SUFFICES ASSUME PaneInv, [PaneNext]_paneVars PROVE PaneInv'
  OBVIOUS
<1>1. CASE UNCHANGED paneVars
  BY <1>1, QuietStepPaneInv DEF paneVars, vars
<1>2. CASE Turn
  BY <1>2, SocketStepPaneInv, ViewStepPaneInv, OtherStepPaneInv DEF Turn
<1>3. CASE PaneStep
  BY <1>3, SocketStepPaneInv, ServerStepPaneInv, ViewStepPaneInv DEF PaneStep
<1>4. CASE TimerFires
  BY <1>4, OtherStepPaneInv
<1>. QED BY <1>1, <1>2, <1>3, <1>4 DEF PaneNext

LEMMA SpecPaneInv == PaneSpec => []PaneInv
BY InitPaneInv, NextPaneInv, PTL DEF PaneSpec

-----------------------------------------------------------------------------
\* A terminal with a pane is one of TerminalSize, whatever the pane and its
\* socket do; so all that is proved of sizes holds with the pane.
THEOREM PaneImplementsSize == PaneSpec => Spec
<1>1. PaneInit => Init
  BY DEF PaneInit
<1>2. PaneInv => FramesInv
  BY DEF PaneInv
<1>. QED BY <1>1, <1>2, SpecPaneInv, PaneStepIsSizeStep, PTL DEF PaneSpec, Spec

\* A pane at rest shows what fits its container and agrees with the terminal,
\* through any number of cuts, fits, snapshots and resizes.
THEOREM PaneAgreesAlways == PaneSpec => []PaneAgrees
<1>1. PaneInv /\ LastRequestStandsOrMetNudge => PaneAgrees
  <2>. SUFFICES ASSUME PaneInv, LastRequestStandsOrMetNudge, Settled
                PROVE  /\ shown = container
                       /\ \/ strayed \/ Size(cols, rows) = Clamped(shown)
                          \/ Size(cols, rows - 1) = Clamped(shown)
    BY DEF PaneAgrees
  <2>1. shown = container /\ reported = container /\ container \in Containers
    BY DEF PaneInv, FitInv, Settled
  <2>2. strayed \/ wanted = Clamped(shown)
    BY <2>1, ContainerSizes DEF PaneInv, ReportInv, Settled
  <2>. QED BY <2>1, <2>2 DEF LastRequestStandsOrMetNudge, Settled
<1>. QED BY <1>1, SpecPaneInv, PaneImplementsSize, LastRequestIsKept, PTL
=============================================================================
