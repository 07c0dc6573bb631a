---------------------------- MODULE FrameStream ----------------------------
(***************************************************************************)
(* runtime/gfx.rs, gfx_stream.rs and bin/axgfx_render.rs: a program that   *)
(* hands frames to a renderer in another process and polls its events.     *)
(* Every gfx_open connects to a renderer of its own, for one session.      *)
(*                                                                         *)
(* A frame is [seq, kind]: it draws, is empty, or does not parse.  What    *)
(* the connection carries is a sequence of records each way.  An event is  *)
(* <<c, what>>; "gone" is the "close" that the sim's side makes itself     *)
(* when the connection ends, "close" whatever a renderer's window sends.   *)
(* Sizes, and the order and number of equal events, are left out.          *)
(***************************************************************************)
EXTENDS Naturals, Sequences, SequencesExt

CONSTANTS Overlap,      \* is a renderer started while another still runs?
          MaxOpens, MaxSeq, MaxSubmits     \* bounds

Conns == 1..MaxOpens
Frames == [seq : 1..MaxSeq, kind : {"draw", "empty"}] \union [seq : {1}, kind : {"bad"}]
None == 0
OpenRecord == [seq |-> 0, kind |-> "open"]

VARIABLES
    opens, submits,
    sink, last_seq, dead,   \* State of the sim; sink is a connection
    simpc,                  \* "closing" between the two steps of gfx_close
    events, polled,         \* not yet polled; ghost: "gone" events polled
    closing, reader,        \* of each connection: what its reader thread is at
    pipe, lines,            \* records and lines under way
    cut,                    \* who ended the connection
    window, last, slot, slotDone, drawing, forward, rstate,     \* the renderer
    acceptedFrames, received, drawn     \* ghosts: frames accepted, the last received, drawn

svars == <<sink, last_seq, dead, simpc>>
rvars == <<window, last, slot, slotDone, drawing, rstate, received, drawn>>
gvars == <<opens, submits, svars, events, polled, closing, reader, pipe, lines,
           cut, rvars, forward, acceptedFrames>>

Set(f, c, v) == [f EXCEPT ![c] = v]
Tell(c, what) == events' = events \union {<<c, what>>}
Unlocked == simpc = "idle"      \* the state's mutex is free

(***************************************************************************)
(* The sim.                                                                *)
(***************************************************************************)
\* A sink there was is dropped without close: its reader holds the connection.
gfx_open(connected) ==
    LET c == opens + 1 IN
    /\ Unlocked /\ opens < MaxOpens /\ opens' = c
    /\ Overlap \/ \A d \in Conns : rstate[d] \notin {"running", "exited"}
    /\ last_seq' = 0 /\ dead' = FALSE
    /\ IF connected
       THEN /\ sink' = c
            /\ pipe' = Set(pipe, c, <<OpenRecord>>)
            /\ cut' = Set(cut, c, "up")
            /\ reader' = Set(reader, c, "reading")
            /\ rstate' = Set(rstate, c, "running")
            /\ UNCHANGED events
       ELSE /\ sink' = None
            /\ Tell(None, "refused")
            /\ UNCHANGED <<pipe, cut, reader, rstate>>
    /\ UNCHANGED <<submits, simpc, polled, closing, lines, window, last, slot, slotDone,
                   drawing, received, drawn, forward, acceptedFrames>>

parse_frame(f) == f.kind # "bad"

\* StreamSink::accept: a write to a renderer that is gone may still succeed.
Accept(f) ==
    \/ /\ dead
       /\ UNCHANGED <<pipe, dead, events>>
    \/ /\ ~dead
       /\ pipe' = IF cut[sink] = "up" THEN Set(pipe, sink, Append(pipe[sink], f)) ELSE pipe
       /\ UNCHANGED <<dead, events>>
    \/ /\ ~dead /\ cut[sink] # "up"
       /\ dead' = TRUE
       /\ Tell(sink, "gone")
       /\ UNCHANGED pipe

gfx_submit(f) ==
    /\ Unlocked /\ submits < MaxSubmits /\ submits' = submits + 1
    /\ IF sink = None \/ ~parse_frame(f) \/ f.seq <= last_seq
       THEN Tell(None, "refused") /\ UNCHANGED <<last_seq, pipe, dead, acceptedFrames>>
       ELSE /\ last_seq' = f.seq
            /\ acceptedFrames' = acceptedFrames \union {<<sink, f>>}
            /\ Accept(f)
    /\ UNCHANGED <<opens, sink, simpc, polled, closing, reader, lines, cut, rvars, forward>>

gfx_poll ==
    /\ Unlocked /\ events # {}
    /\ polled' = polled \union {e \in events : e[2] = "gone"} /\ events' = {}
    /\ UNCHANGED <<opens, submits, svars, closing, reader, pipe, lines, cut, rvars,
                   forward, acceptedFrames>>

\* gfx_close and StreamSink::close, under the mutex: say so, then shut down.
MarkClosing == closing' = Set(closing, sink, TRUE) /\ UNCHANGED cut
Shutdown == cut' = Set(cut, sink, IF cut[sink] = "up" THEN "sim" ELSE cut[sink]) /\ UNCHANGED closing
\* Slip: the connection is shut down before the reader could know why.
CloseStepsSwapped == IF simpc = "idle" THEN Shutdown ELSE MarkClosing
CloseSteps == IF simpc = "idle" THEN MarkClosing ELSE Shutdown
gfx_close ==
    /\ sink # None
    /\ CloseSteps
    /\ IF simpc = "idle" THEN simpc' = "closing" /\ UNCHANGED <<sink, last_seq>>
       ELSE simpc' = "idle" /\ sink' = None /\ last_seq' = 0
    /\ UNCHANGED <<opens, submits, dead, events, polled, reader, pipe, lines, rvars,
                   forward, acceptedFrames>>

\* The thread that turns lines into events; at the end, why did it end?
ReaderLine(c) ==
    /\ reader[c] = "reading" /\ lines[c] # <<>> /\ Unlocked
    /\ lines' = Set(lines, c, Tail(lines[c]))
    /\ Tell(c, Head(lines[c]))
    /\ UNCHANGED <<opens, submits, svars, polled, closing, reader, pipe, cut, rvars,
                   forward, acceptedFrames>>
ReaderEof(c) ==
    /\ reader[c] = "reading" /\ lines[c] = <<>> /\ cut[c] # "up"
    /\ reader' = Set(reader, c, IF closing[c] THEN "ended" ELSE "report")
    /\ UNCHANGED <<opens, submits, svars, events, polled, closing, pipe, lines, cut,
                   rvars, forward, acceptedFrames>>
ReaderReport(c) ==
    /\ reader[c] = "report" /\ Unlocked
    /\ reader' = Set(reader, c, "ended")
    /\ Tell(c, "gone")
    /\ UNCHANGED <<opens, submits, svars, polled, closing, pipe, lines, cut, rvars,
                   forward, acceptedFrames>>

(***************************************************************************)
(* The renderer: receive thread, draw loop, event thread.                  *)
(***************************************************************************)
Receiving(c) == rstate[c] = "running" /\ ~slotDone[c]
RendererOnly == UNCHANGED <<opens, submits, svars, events, polled, closing, reader, acceptedFrames>>
Say(c, what) == forward' = Set(forward, c, Append(forward[c], what))

ReceiveOpen(c, shown) ==
    /\ Receiving(c) /\ pipe[c] # <<>> /\ Head(pipe[c]) = OpenRecord
    /\ pipe' = Set(pipe, c, Tail(pipe[c]))
    /\ window' = Set(window, c, shown)
    /\ IF shown THEN UNCHANGED forward ELSE Say(c, "close")
    /\ RendererOnly /\ UNCHANGED <<lines, cut, last, slot, slotDone, drawing, rstate, received, drawn>>

\* Only the newest frame is kept.
ReceiveFrame(c) ==
    /\ Receiving(c) /\ pipe[c] # <<>> /\ Head(pipe[c]) # OpenRecord
    /\ LET f == Head(pipe[c]) IN
       IF ~parse_frame(f) \/ f.seq <= last[c]
       THEN Say(c, "refused") /\ UNCHANGED <<last, slot, received>>
       ELSE /\ last' = Set(last, c, f.seq)
            /\ slot' = Set(slot, c, <<f>>)
            /\ received' = Set(received, c, <<f>>)
            /\ UNCHANGED forward
    /\ pipe' = Set(pipe, c, Tail(pipe[c]))
    /\ RendererOnly /\ UNCHANGED <<lines, cut, window, slotDone, drawing, rstate, drawn>>

\* The end of the stream; a reset takes what was still under way.
ReceiveEnd(c) ==
    /\ Receiving(c) /\ cut[c] # "up"
    /\ slotDone' = Set(slotDone, c, TRUE)
    /\ pipe' = Set(pipe, c, <<>>)
    /\ RendererOnly
    /\ UNCHANGED <<lines, cut, window, last, slot, drawing, rstate, received, drawn, forward>>

\* Slip: the loop ends on done, though a frame waits.
FrameWaitsUnlessDone(c) == slot[c] # <<>> /\ ~slotDone[c]
FrameWaits(c) == slot[c] # <<>>
DrawLoop(c) ==
    /\ rstate[c] = "running" /\ drawing[c] = <<>>
    /\ \/ /\ FrameWaits(c)
          /\ drawing' = Set(drawing, c, slot[c])
          /\ slot' = Set(slot, c, <<>>)
          /\ UNCHANGED rstate
       \/ /\ ~FrameWaits(c) /\ slotDone[c]
          /\ rstate' = Set(rstate, c, "exited")
          /\ UNCHANGED <<drawing, slot>>
    /\ RendererOnly /\ UNCHANGED <<pipe, lines, cut, window, last, slotDone, received, drawn, forward>>

\* The window may have an event to report, such as a key.
Draw(c, event) ==
    /\ rstate[c] = "running" /\ drawing[c] # <<>>
    /\ drawing' = Set(drawing, c, <<>>)
    /\ LET shown == drawing[c][1].kind = "draw" /\ window[c] IN
       /\ drawn' = IF shown THEN Set(drawn, c, drawn[c] \o drawing[c]) ELSE drawn
       /\ event => shown
       /\ IF event THEN Say(c, "close") ELSE UNCHANGED forward
    /\ RendererOnly /\ UNCHANGED <<pipe, lines, cut, window, last, slot, slotDone, rstate, received>>

\* The event thread, which is joined before the process ends.
Forward(c) ==
    /\ rstate[c] \in {"running", "exited"} /\ forward[c] # <<>>
    /\ lines' = Set(lines, c, lines[c] \o forward[c])
    /\ forward' = Set(forward, c, <<>>)
    /\ RendererOnly /\ UNCHANGED <<pipe, cut, rvars>>

\* The process ends, or is killed at any moment, and its memory is gone.
RendererGone(c) ==
    /\ rstate[c] \in {"running", "exited"}
    /\ rstate[c] = "exited" => forward[c] = <<>>
    /\ rstate' = Set(rstate, c, "gone")
    /\ cut' = Set(cut, c, IF cut[c] = "up" THEN "renderer" ELSE cut[c])
    /\ pipe' = Set(pipe, c, <<>>) /\ forward' = Set(forward, c, <<>>)
    /\ slot' = Set(slot, c, <<>>) /\ drawing' = Set(drawing, c, <<>>)
    /\ window' = Set(window, c, FALSE) /\ last' = Set(last, c, 0) /\ slotDone' = Set(slotDone, c, FALSE)
    /\ received' = Set(received, c, <<>>) /\ drawn' = Set(drawn, c, <<>>)
    /\ UNCHANGED <<opens, submits, svars, events, polled, closing, reader, lines, acceptedFrames>>

All(v) == [c \in Conns |-> v]
GInit ==
    /\ opens = 0 /\ submits = 0
    /\ sink = None /\ last_seq = 0 /\ dead = FALSE /\ simpc = "idle"
    /\ events = {} /\ polled = {}
    /\ closing = All(FALSE) /\ reader = All("none") /\ pipe = All(<<>>) /\ lines = All(<<>>)
    /\ cut = All("none") /\ window = All(FALSE) /\ last = All(0) /\ slot = All(<<>>)
    /\ slotDone = All(FALSE) /\ drawing = All(<<>>) /\ forward = All(<<>>) /\ rstate = All("none")
    /\ acceptedFrames = {} /\ received = All(<<>>) /\ drawn = All(<<>>)

GNext ==
    \/ \E b \in BOOLEAN : gfx_open(b)
    \/ \E f \in Frames : gfx_submit(f)
    \/ gfx_poll \/ gfx_close
    \/ \E c \in Conns :
        \/ ReaderLine(c) \/ ReaderEof(c) \/ ReaderReport(c)
        \/ \E b \in BOOLEAN : ReceiveOpen(c, b)
        \/ ReceiveFrame(c) \/ ReceiveEnd(c) \/ DrawLoop(c)
        \/ \E b \in BOOLEAN : Draw(c, b)
        \/ Forward(c) \/ RendererGone(c)

GSpec == GInit /\ [][GNext]_gvars

Told(c, what) == <<c, what>> \in polled \union events

\* What a program that draws through a renderer process relies on.  The frames
\* drawn are frames it had accepted, each newer than the one before; the
\* renderer, which judges them again, never refuses one; and a renderer that
\* leaves has drawn the last frame it received, if that draws at all.  A
\* renderer that is gone is reported, and a connection the program itself shut
\* down is not.
FramesAreFollowed ==
    \A c \in Conns :
        /\ \A f \in ToSet(drawn[c]) : f.kind = "draw" /\ <<c, f>> \in acceptedFrames
        /\ \A i \in 1..Len(drawn[c]) - 1 : drawn[c][i].seq < drawn[c][i + 1].seq
        /\ "refused" \notin ToSet(forward[c] \o lines[c])
        /\ rstate[c] = "exited" /\ window[c] /\ received[c] # <<>> /\ received[c][1].kind = "draw"
             => drawn[c] # <<>> /\ Last(drawn[c]) = received[c][1]
        /\ reader[c] = "ended" /\ ~closing[c] => Told(c, "gone")
        /\ Told(c, "gone") => cut[c] = "renderer"
=============================================================================
