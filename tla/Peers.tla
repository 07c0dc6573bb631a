------------------------------- MODULE Peers --------------------------------
(***************************************************************************)
(* What a program meets outside its process: connections (runtime/net.rs), *)
(* programs behind a pseudo-terminal (pty.rs), and the switch that records *)
(* and replays its effects (world.rs).                                     *)
(***************************************************************************)
EXTENDS Integers, Sequences, FiniteSets, SequencesExt

-----------------------------------------------------------------------------
(***************************************************************************)
(* runtime/net.rs under a pool of workers: all take the one shared         *)
(* listener, and each accepts a connection, serves it on its own thread    *)
(* and closes it.  Streams live in a thread-local table under small        *)
(* positive handles that repeat from thread to thread, listeners in the    *)
(* shared registry (conns) under negative ones; with                       *)
(* AXVERITY_NET_REGISTRY=shared everything is in the registry.  The        *)
(* coalescing of responses is switched off in the code (slab_to_wire_on    *)
(* is false) and left out.                                                 *)
(***************************************************************************)

CONSTANTS
    Workers, Clients,
    Rows,           \* rows in the answer to a request
    MaxRequests,    \* per client
    NoSock

\* A pool of finitely many workers; clients, the listener and no socket differ.
ASSUME PoolAssumption ==
    /\ IsFiniteSet(Workers) /\ Rows \in Nat
    /\ {NoSock, "listener"} \intersect Clients = {} /\ NoSock \notin Int

VARIABLES
    shared,     \* AXVERITY_NET_REGISTRY=shared
    conns,      \* handle -> socket
    counter,    \* COUNTER of next_handle
    tl,         \* worker -> TL_STREAMS
    tlNext,     \* worker -> TL_NEXT
    listeners,  \* shared_listeners: the handle for the port, NoSock before
    conn,       \* client -> none, backlog, open, gone (vanished) or closed
    inbox,      \* client -> requests sent and not read
    sent,       \* client -> requests sent
    got,        \* client -> frames that reached it
    spc,        \* worker -> [at, lh, h, rows]
    accepted,   \* ghost: worker -> the client it accepted
    erred       \* ghost: workers that met an error outside peer_gone's list

svars == <<shared, conns, counter, tl, tlNext, listeners, conn, inbox, sent, got, spc, accepted, erred>>

Put(f, k, v) == [j \in DOMAIN f \union {k} |-> IF j = k THEN v ELSE f[j]]
Without(f, k) == [j \in DOMAIN f \ {k} |-> f[j]]

SInit ==
    /\ shared \in BOOLEAN
    /\ conns = <<>> /\ counter = 1
    /\ tl = [w \in Workers |-> <<>>] /\ tlNext = [w \in Workers |-> 1]
    /\ listeners = NoSock
    /\ conn = [c \in Clients |-> "none"] /\ inbox = [c \in Clients |-> 0]
    /\ sent = [c \in Clients |-> 0] /\ got = [c \in Clients |-> <<>>]
    /\ spc = [w \in Workers |-> [at |-> "start", lh |-> 0, h |-> 0, rows |-> 0]]
    /\ accepted = [w \in Workers |-> NoSock] /\ erred = {}

peers == <<conn, inbox, sent, got>>
tables == <<conns, counter, tl, tlNext>>

\* get_sock and remove_sock: a positive handle is the thread's own unless
\* everything is shared; an unknown handle panics, which no state here does
Table(w, h) == IF ~shared /\ h > 0 THEN tl[w] ELSE conns
Knows(w, h) == h \in DOMAIN Table(w, h)
get_sock(w, h) == Table(w, h)[h]
RemoveSock(w, h) ==
    IF ~shared /\ h > 0
    THEN tl' = [tl EXCEPT ![w] = Without(@, h)] /\ UNCHANGED conns
    ELSE conns' = Without(conns, h) /\ UNCHANGED tl

\* insert_stream: the thread's next handle, or the global one
InsertStream(w, s) ==
    IF ~shared
    THEN /\ tl' = [tl EXCEPT ![w] = Put(@, tlNext[w], s)] /\ tlNext' = [tlNext EXCEPT ![w] = @ + 1]
         /\ UNCHANGED <<conns, counter>>
    ELSE /\ conns' = Put(conns, counter, s) /\ counter' = counter + 1
         /\ UNCHANGED <<tl, tlNext>>
NewHandle(w) == IF ~shared THEN tlNext[w] ELSE counter

\* tcp_listen_shared: the first caller binds and registers under the lock of
\* the per-port map, the others get the same handle
ListenShared(w) ==
    /\ spc[w].at = "start"
    /\ IF listeners # NoSock
       THEN /\ spc' = [spc EXCEPT ![w].at = "accept", ![w].lh = listeners]
            /\ UNCHANGED <<listeners, conns, counter>>
       ELSE LET h == IF shared THEN counter ELSE -counter
            IN  /\ conns' = Put(conns, h, "listener") /\ counter' = counter + 1
                /\ listeners' = h /\ spc' = [spc EXCEPT ![w].at = "accept", ![w].lh = h]
    /\ UNCHANGED <<shared, tl, tlNext, peers, accepted, erred>>

\* tcp_accept: the kernel gives a waiting connection to one blocked worker; a
\* peer that has already gone is accepted all the same
Accept(w, c) ==
    /\ spc[w].at = "accept" /\ Knows(w, spc[w].lh) /\ get_sock(w, spc[w].lh) = "listener"
    /\ conn[c] = "backlog"
    /\ \E s \in {"open", "gone"} : conn' = [conn EXCEPT ![c] = s]
    /\ InsertStream(w, c)
    /\ spc' = [spc EXCEPT ![w].at = "read", ![w].h = NewHandle(w)]
    /\ accepted' = [accepted EXCEPT ![w] = c]
    /\ UNCHANGED <<shared, listeners, inbox, sent, got, erred>>

\* tcp_read: a request, or zero bytes when the peer is gone (end of stream or
\* a reset) or the read timeout passes; the serve loop takes zero bytes as
\* the end of the conversation
Read(w) ==
    LET c == get_sock(w, spc[w].h)
    IN  /\ spc[w].at = "read" /\ Knows(w, spc[w].h)
        /\ \/ /\ inbox[c] > 0
              /\ inbox' = [inbox EXCEPT ![c] = @ - 1]
              /\ spc' = [spc EXCEPT ![w].at = "write", ![w].rows = Rows]
           \/ /\ inbox[c] = 0
              /\ spc' = [spc EXCEPT ![w].at = "close"] /\ UNCHANGED inbox
        /\ UNCHANGED <<shared, tables, listeners, conn, sent, got, accepted, erred>>

Delivered(w) ==
    LET c == get_sock(w, spc[w].h)
    IN  got' = IF conn[c] = "open" THEN [got EXCEPT ![c] = Append(@, spc[w].rows)] ELSE got
Answered(w) == IF spc[w].rows = 0 THEN "read" ELSE "write"

\* slip: a broken pipe panics as well
WritePanics(w) ==
    /\ spc[w].at = "write" /\ Knows(w, spc[w].h)
    /\ Delivered(w)
    /\ spc' = [spc EXCEPT ![w].at = IF conn[get_sock(w, spc[w].h)] = "gone" THEN "faulted" ELSE Answered(w),
                          ![w].rows = IF @ = 0 THEN 0 ELSE @ - 1]
    /\ UNCHANGED <<shared, tables, listeners, conn, inbox, sent, accepted, erred>>

\* raw_write of the next frame: pg_stream_rows writes one frame per row and
\* the last frame (row 0 here) completes the answer.  A vanished peer takes
\* nothing and is not an error (peer_gone); any other error is Unexpected.
Write(w) ==
    /\ spc[w].at = "write" /\ Knows(w, spc[w].h)
    /\ Delivered(w)
    /\ spc' = [spc EXCEPT ![w].at = Answered(w), ![w].rows = IF @ = 0 THEN 0 ELSE @ - 1]
    /\ UNCHANGED <<shared, tables, listeners, conn, inbox, sent, accepted, erred>>

\* tcp_close, and back to tcp_accept
Close(w) ==
    /\ spc[w].at = "close" /\ Knows(w, spc[w].h)
    /\ conn' = [conn EXCEPT ![get_sock(w, spc[w].h)] = "closed"]
    /\ RemoveSock(w, spc[w].h)
    /\ spc' = [spc EXCEPT ![w].at = "accept", ![w].h = 0]
    /\ accepted' = [accepted EXCEPT ![w] = NoSock]
    /\ UNCHANGED <<shared, counter, tlNext, listeners, inbox, sent, got, erred>>

\* Any error outside peer_gone's list panics: a bind that is refused, an
\* accept that is out of descriptors, a read or write that fails otherwise
\* (its frame does not arrive).  fault::guard_run catches the panic and marks
\* the thread FAULTED, and from then on every effectful builtin of the thread
\* returns the Unknown unrun, tcp_accept and tcp_close among them.
Unexpected(w) ==
    /\ spc[w].at \in {"start", "accept", "read", "write"} /\ (spc[w].at = "start" => listeners = NoSock)
    /\ spc' = [spc EXCEPT ![w].at = "faulted"] /\ erred' = erred \union {w}
    /\ UNCHANGED <<shared, tables, listeners, peers, accepted>>

\* The faulted thread runs to its end.  Its own table goes with it, and the
\* connection in it is closed; one in the shared registry stays there.
EndFaulted(w) ==
    /\ spc[w].at = "faulted" /\ spc' = [spc EXCEPT ![w].at = "out"]
    /\ IF shared \/ accepted[w] = NoSock THEN UNCHANGED <<tl, conn, accepted>>
       ELSE /\ tl' = [tl EXCEPT ![w] = <<>>]
            /\ conn' = [conn EXCEPT ![accepted[w]] = "closed"]
            /\ accepted' = [accepted EXCEPT ![w] = NoSock]
    /\ UNCHANGED <<shared, conns, counter, tlNext, listeners, inbox, sent, got, erred>>

\* the peers: connect (through the backlog), ask, vanish
PeerConnect(c) ==
    /\ conn[c] = "none" /\ listeners # NoSock
    /\ conn' = [conn EXCEPT ![c] = "backlog"]
    /\ UNCHANGED <<shared, tables, listeners, inbox, sent, got, spc, accepted, erred>>
PeerAsk(c) ==
    /\ conn[c] \in {"backlog", "open"} /\ sent[c] < MaxRequests
    /\ inbox' = [inbox EXCEPT ![c] = @ + 1] /\ sent' = [sent EXCEPT ![c] = @ + 1]
    /\ UNCHANGED <<shared, tables, listeners, conn, got, spc, accepted, erred>>
PeerVanish(c) ==
    /\ conn[c] = "open" /\ conn' = [conn EXCEPT ![c] = "gone"]
    /\ inbox' = [inbox EXCEPT ![c] = 0]
    /\ UNCHANGED <<shared, tables, listeners, sent, got, spc, accepted, erred>>

SNext ==
    \/ \E w \in Workers : \/ ListenShared(w) \/ Read(w) \/ Write(w) \/ Close(w)
                          \/ Unexpected(w) \/ EndFaulted(w)
                          \/ \E c \in Clients : Accept(w, c)
    \/ \E c \in Clients : PeerConnect(c) \/ PeerAsk(c) \/ PeerVanish(c)
SSpec == SInit /\ [][SNext]_svars

\* The pool survives its clients: whatever peers do, only a worker that met an
\* error of another kind leaves service, and it harms no other; those in
\* service stand on one listener, the handle a worker holds is the connection
\* it accepted though other threads use the same number, no connection is
\* served twice, the tables hold one entry for each connection taken and not
\* closed, and a client receives whole answers to its own requests in order,
\* cut short only by its going or by its worker's error.
PoolServes ==
    /\ \A w \in Workers :
        /\ spc[w].at \in {"faulted", "out"} => w \in erred
        /\ spc[w].at \in {"accept", "read", "write", "close"} => spc[w].lh = listeners
        /\ spc[w].at \in {"read", "write", "close"} =>
            Knows(w, spc[w].h) /\ get_sock(w, spc[w].h) = accepted[w]
    /\ \A w, x \in Workers : w # x /\ accepted[w] # NoSock => accepted[w] # accepted[x]
    /\ \A c \in Clients :
        /\ \A i \in DOMAIN got[c] : got[c][i] = Rows - ((i - 1) % (Rows + 1))
        /\ Len(got[c]) <= (Rows + 1) * sent[c]
        /\ conn[c] = "open" <=> \E w \in Workers : accepted[w] = c /\ conn[c] # "gone"
    /\ Cardinality(DOMAIN conns) + Cardinality({w \in Workers : tl[w] # <<>>})
         = Cardinality({w \in Workers : accepted[w] # NoSock}) + (IF listeners = NoSock THEN 0 ELSE 1)

-----------------------------------------------------------------------------
(***************************************************************************)
(* runtime/pty.rs, with the status bands of runtime/process.rs: programs   *)
(* driven over a pseudo-terminal.  Several threads may use one handle; a   *)
(* call clones the entry out of the table, so it may outlive a close.      *)
(***************************************************************************)

CONSTANTS
    Users,          \* threads calling pty_* on the handle
    MaxOut,         \* chunks the child writes
    Reuse           \* whether the system may give a reaped pid to a stranger
                    \* while another thread is between its poll and its kill

NO_START == -256
PTY_RUNNING == -258
ExitCodes == {0, 1}             \* 0 .. 255
SIGHUP == 1
SIGKILL == 9
None == 1000                    \* stands for no status yet
Regressed == -999               \* ghost: "running" said after a final status

VARIABLES
    table,      \* whether the handle is in the table
    child,      \* [state, status]; state absent, running, zombie, reaped
    pidFree,    \* the child's pid has been handed to another process group
    ended,      \* the entry's cached status, None before
    out,        \* output in the pty not yet read
    written,    \* chunks written so far
    read,       \* ghost: chunks read so far
    upc,        \* user -> [at, op, s]
    answers,    \* ghost: statuses that pty_status and pty_close have given
    strangers   \* ghost: signals sent to a group that is not the child's

pvars == <<table, child, pidFree, ended, out, written, read, upc, answers, strangers>>

UIdle == [at |-> "idle", op |-> "none", s |-> None]

PInit ==
    /\ table = FALSE /\ child = [state |-> "absent", status |-> None] /\ pidFree = FALSE
    /\ ended = None /\ out = 0 /\ written = 0 /\ read = 0
    /\ upc = [u \in Users |-> UIdle] /\ answers = {} /\ strangers = 0

process == <<child, pidFree, out, written>>

\* pty_open: spawn fails to NO_START and leaves nothing behind, or the entry
\* goes into the table under a handle never used before
pty_open ==
    /\ child.state = "absent" /\ NO_START \notin answers
    /\ \/ /\ child' = [state |-> "running", status |-> None] /\ table' = TRUE /\ UNCHANGED answers
       \/ /\ answers' = answers \union {NO_START} /\ UNCHANGED <<child, table>>
    /\ UNCHANGED <<pidFree, ended, out, written, read, upc, strangers>>

\* the child: writes, and ends by itself (a signal ends it in Signal)
ChildWrites ==
    /\ child.state = "running" /\ written < MaxOut
    /\ out' = out + 1 /\ written' = written + 1
    /\ UNCHANGED <<table, child, pidFree, ended, read, upc, answers, strangers>>
ChildExits ==
    /\ child.state = "running"
    /\ \E c \in ExitCodes : child' = [state |-> "zombie", status |-> c]
    /\ UNCHANGED <<table, pidFree, ended, out, written, read, upc, answers, strangers>>

\* get: the entry is cloned out; pty_close removes it, so one close wins and
\* later calls panic on the unknown handle
Call(u, op) ==
    /\ upc[u].at = "idle" /\ table
    /\ upc' = [upc EXCEPT ![u] = [at |-> IF op = "read" THEN "read" ELSE "poll", op |-> op, s |-> None]]
    /\ table' = (op # "close")
    /\ UNCHANGED <<process, ended, read, answers, strangers>>

\* pty_read: what is there, in order and to the last chunk even of an ended
\* child; nothing within the timeout, or a closed far side, is empty
pty_read(u) ==
    /\ upc[u].at = "read"
    /\ out' = 0 /\ read' = read + out
    /\ upc' = [upc EXCEPT ![u] = UIdle]
    /\ UNCHANGED <<table, child, pidFree, ended, written, answers, strangers>>

\* status_of and terminating_signal: an exit code as it is, a signal negated
status_of(c) == c.status

Finish(u, s) ==
    /\ upc' = [upc EXCEPT ![u] = UIdle]
    /\ answers' = answers \union {IF s = PTY_RUNNING /\ answers \ {PTY_RUNNING} # {} THEN Regressed ELSE s}
\* reaping releases the pid
Reap == /\ child' = IF child.state = "zombie" THEN [child EXCEPT !.state = "reaped"] ELSE child
        /\ pidFree' \in IF child.state = "zombie" THEN {FALSE, Reuse} ELSE {pidFree}

\* slip: the status is not kept, and a reaped child has none to ask for
PollForgets(u) ==
    LET s == IF child.state = "zombie" THEN status_of(child) ELSE PTY_RUNNING
    IN  /\ upc[u].at \in {"poll", "grace"}
        /\ Reap
        /\ IF upc[u].op = "status" \/ s # PTY_RUNNING
           THEN Finish(u, s)
           ELSE /\ upc' = [upc EXCEPT ![u].at = IF upc[u].at = "poll" THEN "hangup" ELSE "kill"]
                /\ UNCHANGED answers
        /\ UNCHANGED <<table, ended, out, written, read, strangers>>

\* poll_status, under the lock of `ended`: the cached status, or try_wait,
\* which reaps; pty_close polls before the hangup and again after the grace
poll_status(u) ==
    LET s == IF ended # None THEN ended
             ELSE IF child.state \in {"zombie", "reaped"} THEN status_of(child) ELSE PTY_RUNNING
    IN  /\ upc[u].at \in {"poll", "grace"}
        /\ ended' = IF s = PTY_RUNNING THEN None ELSE s
        /\ Reap
        /\ IF upc[u].op = "status" \/ s # PTY_RUNNING
           THEN Finish(u, s)
           ELSE /\ upc' = [upc EXCEPT ![u].at = IF upc[u].at = "poll" THEN "hangup" ELSE "kill"]
                /\ UNCHANGED answers
        /\ UNCHANGED <<table, out, written, read, strangers>>

\* killpg(pid): the child's group, or whoever has the pid by then
Signal(sig, dies) ==
    /\ child' = IF child.state = "running" /\ dies THEN [state |-> "zombie", status |-> -sig] ELSE child
    /\ strangers' = IF pidFree THEN strangers + 1 ELSE strangers

\* the hangup; a child may ignore it
CloseHangup(u) ==
    /\ upc[u].at = "hangup"
    /\ \E dies \in BOOLEAN : Signal(SIGHUP, dies)
    /\ upc' = [upc EXCEPT ![u].at = "grace"]
    /\ UNCHANGED <<table, pidFree, ended, out, written, read, answers>>

\* the grace has passed: SIGKILL, then wait for the child under its lock
CloseKill(u) ==
    /\ upc[u].at = "kill" /\ Signal(SIGKILL, TRUE)
    /\ upc' = [upc EXCEPT ![u].at = "wait"]
    /\ UNCHANGED <<table, pidFree, ended, out, written, read, answers>>
CloseWait(u) ==
    /\ upc[u].at = "wait" /\ child.state \in {"zombie", "reaped"}
    /\ Reap
    /\ upc' = [upc EXCEPT ![u].at = "store", ![u].s = status_of(child)]
    /\ UNCHANGED <<table, ended, out, written, read, answers, strangers>>
CloseStore(u) ==
    /\ upc[u].at = "store" /\ ended' = upc[u].s /\ Finish(u, upc[u].s)
    /\ UNCHANGED <<table, process, read, strangers>>

PNext ==
    \/ pty_open \/ ChildWrites \/ ChildExits
    \/ \E u \in Users :
        \/ \E op \in {"read", "status", "close"} : Call(u, op)
        \/ pty_read(u) \/ poll_status(u) \/ CloseHangup(u) \/ CloseKill(u) \/ CloseWait(u) \/ CloseStore(u)
PSpec == PInit /\ [][PNext]_pvars

\* Status answers agree for good: every answer but "running" is the one status
\* the child ended with (or that it never started), whichever threads asked
\* and however a close raced them; a close never answers "running" and leaves
\* the child reaped and its handle dead; output is read in order to the last
\* chunk; and no signal goes to a process that is not the child.
StatusIsFinal ==
    /\ Cardinality(answers \ {PTY_RUNNING}) <= 1
    /\ \A s \in answers \ {PTY_RUNNING, NO_START} : child.state = "reaped" /\ s = child.status
    /\ ended # None => child.state = "reaped" /\ ended = child.status
    /\ (~table /\ child.state # "absent" /\ \A u \in Users : upc[u].op # "close")
        => child.state = "reaped"
    /\ read + out = written
    /\ strangers = 0

-----------------------------------------------------------------------------
(***************************************************************************)
(* runtime/world.rs: every effect of a program goes through one switch.    *)
(* A recording run performs each call and appends fn, args and result to a *)
(* trace; a replay answers the same calls from the trace and touches       *)
(* nothing.  The model records a run of arbitrary calls, then replays it.  *)
(***************************************************************************)

CONSTANTS
    Paths,
    Contents,       \* texts, as sequences of the characters the trace treats
                    \* differently: "x", "\n", "\r" and "\\"
    MaxCalls, MaxOutside

Absent == <<"absent">>
Miss == <<"miss">>          \* Err:replay_miss
Denied == <<"denied">>
Ok == <<"ok">>              \* a write's "Ok:"
No == <<"no">>  Yes == <<"yes">>

VARIABLES
    phase,      \* record or replay
    fs,         \* path -> content or Absent
    trace,      \* lines: [key, result]
    asked,      \* ghost: the program's calls, the answers it saw, and whether
                \* the file was then what the program had made of it
    replayed,   \* ghost: the answers of the replay
    usedUp,     \* used: key -> answers given
    overlay,    \* path -> content written during the replay, Absent if none
    outs,       \* <trace>.out
    meddled,    \* ghost: paths whose content is not what the program's last
                \* w_write and its appends since say
    outside     \* changes made by others

worldvars == <<phase, fs, trace, asked, replayed, usedUp, overlay, outs, meddled, outside>>

WInit ==
    /\ phase = "record" /\ fs \in [Paths -> {Absent} \union Contents]
    /\ trace = <<>> /\ asked = <<>> /\ replayed = <<>> /\ usedUp = <<>>
    /\ overlay = [p \in Paths |-> Absent] /\ outs = <<>>
    /\ meddled = {} /\ outside = 0

\* slip: a backslash is not escaped, so that one before an n reads as a line end
EscPlain(s) == FlattenSeq([k \in DOMAIN s |-> IF s[k] = "\n" THEN <<"\\", "n">> ELSE <<s[k]>>])

\* esc and unesc of a field, and the loss of str::lines: a line's last
\* carriage return goes with its line end
esc(s) == FlattenSeq([k \in DOMAIN s |->
            CASE s[k] = "\\" -> <<"\\", "\\">> [] s[k] = "\n" -> <<"\\", "n">> [] OTHER -> <<s[k]>>])
\* left to right: a backslash takes the next character with it
Escaped(s, k) == \E run \in 1 .. k - 1 : /\ run % 2 = 1
                                         /\ \A b \in k - run .. k - 1 : s[b] = "\\"
                                         /\ (k - run = 1 \/ s[k - run - 1] # "\\")
unesc(s) == FlattenSeq([k \in DOMAIN s |->
            IF Escaped(s, k) THEN <<IF s[k] = "n" THEN "\n" ELSE s[k]>>
            ELSE IF s[k] = "\\" /\ k < Len(s) THEN <<>> ELSE <<s[k]>>])
Line(s) == IF s # <<>> /\ Last(s) = "\r" THEN Front(s) ELSE s
Loaded(result) == unesc(Line(esc(result)))

\* w_run stands for every read the overlay never answers: w_list, w_args,
\* w_env and w_now as well
Reads == {"w_read", "w_exists", "w_run"}
Calls == [fn : Reads, path : Paths, content : {<<>>}] \union [fn : {"w_write", "w_append"}, path : Paths, content : Contents]

\* what the outer world answers, and what it is afterwards
RealAnswer(c) ==
    CASE c.fn \in {"w_read", "w_run"} -> fs[c.path]
      [] c.fn = "w_exists" -> IF fs[c.path] = Absent THEN No ELSE Yes
      [] OTHER -> Ok
RealFs(c) ==
    CASE c.fn = "w_write" -> [fs EXCEPT ![c.path] = c.content]
      [] c.fn = "w_append" -> [fs EXCEPT ![c.path] = IF @ = Absent THEN c.content ELSE @ \o c.content]
      [] OTHER -> fs

\* slot in Mode::Record: perform, then append the line; a write may fail
Record(c) ==
    /\ phase = "record" /\ Len(asked) < MaxCalls
    /\ \E fails \in IF c.fn \in Reads THEN {FALSE} ELSE BOOLEAN :
        LET r == IF fails THEN Denied ELSE RealAnswer(c)
        IN  /\ fs' = IF fails THEN fs ELSE RealFs(c)
            /\ asked' = Append(asked, [call |-> c, answer |-> r, own |-> c.path \notin meddled])
            /\ trace' = Append(trace, [key |-> c, result |-> Loaded(r)])
            /\ meddled' = IF fails THEN meddled \union {c.path}
                          ELSE IF c.fn = "w_write" THEN meddled \ {c.path} ELSE meddled
    /\ UNCHANGED <<phase, replayed, usedUp, overlay, outs, outside>>

\* another process changes a file, or a command run by the program does
Outside(p, x) ==
    /\ phase = "record" /\ outside < MaxOutside /\ outside' = outside + 1
    /\ fs[p] # x /\ fs' = [fs EXCEPT ![p] = x]
    /\ meddled' = meddled \union {p}
    /\ UNCHANGED <<phase, trace, asked, replayed, usedUp, overlay, outs>>

\* world_set_mode / AX_WORLD=replay: the trace is loaded, the .out emptied
Load ==
    /\ phase = "record" /\ phase' = "replay" /\ outs' = <<>>
    /\ UNCHANGED <<fs, trace, asked, replayed, usedUp, overlay, meddled, outside>>

\* slot in Mode::Replay: the k-th identical call gets the k-th answer
UsedOf(c) == IF c \in DOMAIN usedUp THEN usedUp[c] ELSE 0
Recorded(c) == LET all == SelectSeq(trace, LAMBDA l : l.key = c)
               IN  IF UsedOf(c) < Len(all) THEN all[UsedOf(c) + 1].result
                   ELSE IF c.fn = "w_exists" THEN No ELSE IF c.fn \in Reads THEN Miss ELSE Ok
Overlaid(c) == overlay[c.path] # Absent /\ c.fn \in {"w_read", "w_exists"}
ReplayAnswer(c) ==
    IF ~Overlaid(c) THEN Recorded(c)
    ELSE IF c.fn = "w_read" THEN overlay[c.path] ELSE Yes

\* w_write puts an overlay, w_append extends one that is there; reads of an
\* overlaid path never reach the trace
Replay ==
    LET c == asked[Len(replayed) + 1].call
    IN  /\ phase = "replay" /\ Len(replayed) < Len(asked)
        /\ replayed' = Append(replayed, ReplayAnswer(c))
        /\ overlay' = CASE c.fn = "w_write" -> [overlay EXCEPT ![c.path] = c.content]
                        [] c.fn = "w_append" /\ overlay[c.path] # Absent -> [overlay EXCEPT ![c.path] = @ \o c.content]
                        [] OTHER -> overlay
        /\ usedUp' = IF Overlaid(c) THEN usedUp
                     ELSE [k \in DOMAIN usedUp \union {c} |-> UsedOf(k) + (IF k = c THEN 1 ELSE 0)]
        /\ outs' = IF c.fn \in Reads THEN outs ELSE Append(outs, c)
        /\ UNCHANGED <<phase, fs, trace, asked, meddled, outside>>

WNext == \/ \E c \in Calls : Record(c)
         \/ \E p \in Paths, x \in Contents \union {Absent} : Outside(p, x)
         \/ Load \/ Replay
WSpec == WInit /\ [][WNext]_worldvars

\* A call the replay answers from its own writes: an earlier w_write put an
\* overlay on the path, whether or not that write had succeeded.
Covered(k) ==
    /\ asked[k].call.fn \in {"w_read", "w_exists"}
    /\ \E j \in 1 .. k - 1 : asked[j].call.fn = "w_write" /\ asked[j].call.path = asked[k].call.path

\* A replay answers every call with what the recording of that very call saw,
\* though the world has changed since, less a carriage return at the end of
\* the recorded result, which str::lines takes for part of the line end.  A
\* read of a file the program has written is answered by its writes, exactly,
\* and that is what the recording saw unless a write of that file had failed
\* or somebody else had changed it since the program's last w_write.  The
\* replay logs exactly the run's writes in their order.
ReplayFollowsRecord ==
    /\ \A k \in DOMAIN replayed :
        IF Covered(k) THEN asked[k].own => replayed[k] = asked[k].answer
        ELSE replayed[k] = Line(asked[k].answer)
    /\ outs = SelectSeq([k \in DOMAIN replayed |-> asked[k].call], LAMBDA c : c.fn \notin Reads)

\* "replay answers what record saw", said of every run.
ReplayAnswersWhatRecordSaw ==
    \A k \in DOMAIN replayed : replayed[k] = asked[k].answer
=============================================================================
