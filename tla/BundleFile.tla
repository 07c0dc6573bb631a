----------------------------- MODULE BundleFile -----------------------------
(***************************************************************************)
(* The .coreir file format and the constant payloads                       *)
(* (core_ir_05/mod.rs): serialize_axbi, the strict reader behind           *)
(* parse_axbi, and the payload codecs; and the second reader, axbi_parse,  *)
(* that gives a file to an M1 program (runtime/axbi.rs).  The reader meets *)
(* every file within the bounds: the file is chosen one byte at a time, as *)
(* it is read.                                                             *)
(*                                                                         *)
(* A byte has DigitBits value bits and a continuation bit, a varint holds  *)
(* Width bits: 7 and 64 in the code.  As there, the last digit of a varint *)
(* has room for one bit.  A hash is one opaque byte.  The block rules that *)
(* deserialize_canonical applies at the end are in Emitter.                *)
(*                                                                         *)
(* The second part is the other input of the compiler, registry documents, *)
(* and the line scanners that read them (emit/rust_05.rs).                 *)
(***************************************************************************)
EXTENDS Integers, Sequences, SequencesExt, FiniteSets, TLC

CONSTANTS DigitBits, Width,
          MaxBytes, MaxCount    \* longest file, largest count or length in it

VARIABLES given,     \* the integer whose encodings are checked, or the whole file
          bytes,     \* the bytes read so far, after the header
          need,      \* the items the reader still expects
          num,       \* the varint being read
          pool, nodeList, resultRef,
          state

fvars == <<given, bytes, need, num, pool, nodeList, resultRef, state>>

Digit == 2 ^ DigitBits
Bits(b) == b % Digit
More(b) == b >= Digit
File == -(2 ^ Width)            \* given when a file is read
Err == [v |-> 0, shift |-> 0, done |-> FALSE, ok |-> FALSE]
Start == [v |-> 0, shift |-> 0, done |-> FALSE, ok |-> TRUE]

(***************************************************************************)
(* Varints.                                                                *)
(***************************************************************************)
RECURSIVE write_varint(_)
write_varint(v) == IF v < Digit THEN <<v>>
                   ELSE <<(v % Digit) + Digit>> \o write_varint(v \div Digit)

Accumulate(n, b) == (n.v + Bits(b) * 2 ^ n.shift) % 2 ^ Width

\* CanonReader::varint: one byte of a number in minimal form that fits.
varint_padded(n, b) ==
    IF n.shift >= Width \/ (n.shift = Width - 1 /\ Bits(b) > 1) THEN Err
    ELSE [v |-> Accumulate(n, b), shift |-> n.shift + DigitBits, done |-> ~More(b), ok |-> TRUE]
varint(n, b) ==
    IF n.shift >= Width \/ (n.shift = Width - 1 /\ Bits(b) > 1) THEN Err
    ELSE IF b = 0 /\ n.shift > 0 THEN Err
    ELSE [v |-> Accumulate(n, b), shift |-> n.shift + DigitBits, done |-> ~More(b), ok |-> TRUE]

\* The payload decoders stop at the first last digit and drop what overflows.
decode_unsigned_varint(n, b) ==
    IF n.done \/ ~n.ok THEN n
    ELSE IF More(b) /\ n.shift + DigitBits >= Width THEN Err
    ELSE [v |-> Accumulate(n, b), shift |-> n.shift + DigitBits, done |-> ~More(b), ok |-> TRUE]

\* encode_int_payload and decode_int_payload: zig-zag around an unsigned varint.
encode_int_payload(i) == write_varint(IF i >= 0 THEN 2 * i ELSE -2 * i - 1)
decode_int_payload(bs) ==
    LET n == FoldLeft(decode_unsigned_varint, Start, bs)
    IN IF ~n.done THEN <<>>
       ELSE <<IF n.v % 2 = 0 THEN n.v \div 2 ELSE -(n.v \div 2) - 1>>

\* A text or bytes payload: its length, then its bytes; what follows is ignored.
encode_bytes_payload(bs) == write_varint(Len(bs)) \o bs
decode_bytes_payload(bs) ==
    LET n == FoldLeft(decode_unsigned_varint, Start, bs)
        pos == n.shift \div DigitBits
    IN IF ~n.done \/ pos + n.v > Len(bs) THEN <<>>
       ELSE <<SubSeq(bs, pos + 1, pos + n.v)>>

(***************************************************************************)
(* Writing a bundle.                                                       *)
(***************************************************************************)
write_noderef(r) == write_varint(2 * r.idx + (IF r.in = "pool" THEN 1 ELSE 0))
Each(s, Op(_)) == FlattenSeq([i \in DOMAIN s |-> Op(s[i])])
WriteEntry(en) == <<en.hash>> \o encode_bytes_payload(en.payload)
WriteNode(nd) ==
    write_varint(nd.kind)
    \o (IF nd.kind = 0
        THEN encode_bytes_payload(nd.name) \o <<nd.id>> \o write_varint(Len(nd.refs))
        ELSE <<>>)
    \o Each(nd.refs, write_noderef)
serialize_canonical ==
    write_varint(Len(pool)) \o Each(pool, WriteEntry)
    \o write_varint(Len(nodeList)) \o Each(nodeList, WriteNode) \o write_noderef(resultRef)

(***************************************************************************)
(* Reading one.                                                            *)
(***************************************************************************)
Copies(n, items) == FlattenSeq([i \in 1..n |-> items])
Refuse == state' = "refused" /\ UNCHANGED <<need, pool, nodeList, resultRef>>
Expect(items) == need' = items \o Tail(need) /\ UNCHANGED state
Reading == state = "reading" /\ need # <<>> /\ Len(bytes) < MaxBytes

\* The header: "AXCI", then 0 and 6; a 0.5 file has a refusal of its own.
parse_axbi(header) ==
    /\ state = "header"
    /\ state' = IF header = <<"AXCI", 0, 6>> THEN "reading" ELSE "refused"
    /\ UNCHANGED <<given, bytes, need, num, pool, nodeList, resultRef>>

noderef(v) == [in |-> IF v % 2 = 1 THEN "pool" ELSE "node", idx |-> v \div 2]
InRange(r, before) == r.idx < (IF r.in = "pool" THEN Len(pool) ELSE before)

\* A complete number, for the item that is expected.
TakeNumber(v) ==
    LET item == Head(need) last == Len(nodeList) IN
    CASE item = "pools" -> Expect(Copies(v, <<"hash", "length">>)) /\ UNCHANGED <<pool, nodeList, resultRef>>
      [] item = "length" -> Expect(Copies(v, <<"payload">>)) /\ UNCHANGED <<pool, nodeList, resultRef>>
      [] item = "nodes" -> Expect(Copies(v, <<"kind">>) \o <<"result">>) /\ UNCHANGED <<pool, nodeList, resultRef>>
      [] item = "kind" ->
           IF v > 4 THEN Refuse
           ELSE /\ Expect(CASE v = 0 -> <<"name", "id", "args">>
                            [] v = 1 -> <<"ref", "ref", "ref">>
                            [] v = 4 -> <<"ref">>
                            [] OTHER -> <<>>)
                /\ nodeList' = Append(nodeList, [kind |-> v, name |-> <<>>, id |-> 0, refs |-> <<>>])
                /\ UNCHANGED <<pool, resultRef>>
      [] item = "name" -> Expect(Copies(v, <<"letter">>)) /\ UNCHANGED <<pool, nodeList, resultRef>>
      [] item = "args" -> Expect(Copies(v, <<"ref">>)) /\ UNCHANGED <<pool, nodeList, resultRef>>
      [] item = "ref" ->
           IF ~InRange(noderef(v), last - 1) THEN Refuse
           ELSE /\ Expect(<<>>)
                /\ nodeList' = [nodeList EXCEPT ![last].refs = Append(@, noderef(v))]
                /\ UNCHANGED <<pool, resultRef>>
      [] item = "result" ->
           IF ~InRange(noderef(v), last) THEN Refuse
           ELSE Expect(<<>>) /\ resultRef' = noderef(v) /\ UNCHANGED <<pool, nodeList>>

Numbers == {"pools", "length", "nodes", "kind", "name", "args", "ref", "result"}
ReadDigit(b) ==
    /\ Reading /\ Head(need) \in Numbers
    /\ LET n == varint(num, b) IN
       /\ n.done /\ Head(need) \notin {"kind", "ref", "result"} => n.v <= MaxCount
       /\ bytes' = Append(bytes, b)
       /\ num' = IF n.done THEN Start ELSE n
       /\ IF ~n.ok THEN Refuse
          ELSE IF n.done THEN TakeNumber(n.v)
          ELSE UNCHANGED <<need, pool, nodeList, resultRef, state>>
    /\ UNCHANGED given

ReadRaw(b) ==
    /\ Reading /\ Head(need) \notin Numbers
    /\ bytes' = Append(bytes, b)
    /\ Expect(<<>>)
    /\ LET item == Head(need) p == Len(pool) last == Len(nodeList) IN
       /\ pool' = CASE item = "hash" -> Append(pool, [hash |-> b, payload |-> <<>>])
                    [] item = "payload" -> [pool EXCEPT ![p].payload = Append(@, b)]
                    [] OTHER -> pool
       /\ nodeList' = CASE item = "letter" -> [nodeList EXCEPT ![last].name = Append(@, b)]
                     [] item = "id" -> [nodeList EXCEPT ![last].id = b]
                     [] OTHER -> nodeList
    /\ UNCHANGED <<given, num, resultRef>>

\* The file ends: too early, with bytes left over, or just there.
EndOfFile(trailing) ==
    /\ state = "reading"
    /\ trailing => need = <<>>
    /\ state' = IF need = <<>> /\ ~trailing THEN "read" ELSE "refused"
    /\ UNCHANGED <<given, bytes, need, num, pool, nodeList, resultRef>>

FInit ==
    /\ given \in {File} \union -(2 ^ (Width - 1))..(2 ^ (Width - 1) - 1)
    /\ bytes = <<>> /\ need = <<"pools", "nodes">> /\ num = Start
    /\ pool = <<>> /\ nodeList = <<>> /\ resultRef = [in |-> "pool", idx |-> 0]
    /\ state = IF given = File THEN "header" ELSE "payload"
FNext ==
    \/ \E h \in {<<"AXCI", 0, 6>>, <<"AXCI", 0, 5>>, <<"AXBI", 0, 6>>} : parse_axbi(h)
    \/ \E b \in 0..2 * Digit - 1 : ReadDigit(b)
    \/ \E b \in {0, 1} : ReadRaw(b)
    \/ \E t \in BOOLEAN : EndOfFile(t)
FSpec == FInit /\ [][FNext]_fvars

(***************************************************************************)
(* axbi_parse: what is read at pos, and where it ends, or a hard_fail.     *)
(***************************************************************************)
Got(ok, val, pos) == [ok |-> ok, val |-> val, pos |-> pos]
hard_fail == Got(FALSE, 0, 0)
Then(r, Op(_, _)) == IF r.ok THEN Op(r.val, r.pos) ELSE hard_fail
Many(n, pos, One(_, _)) ==
    FoldLeft(LAMBDA got, i : Then(got, LAMBDA vs, p :
                 Then(One(p, i), LAMBDA v, q : Got(TRUE, Append(vs, v), q))),
             Got(TRUE, <<>>, pos), [i \in 1..n |-> i])

read_varint(data, pos) ==
    LET n == FoldLeft(LAMBDA m, b : IF m.done \/ ~m.ok THEN m ELSE varint(m, b),
                      Start, SubSeq(data, pos, Len(data)))
    IN Got(n.done, n.v, pos + n.shift \div DigitBits)

ReadBytes(data, pos, n) ==
    IF pos + n > Len(data) + 1 THEN hard_fail ELSE Got(TRUE, SubSeq(data, pos, pos + n - 1), pos + n)
ReadBlob(data, pos) == Then(read_varint(data, pos), LAMBDA n, p : ReadBytes(data, p, n))

\* The index is cut to half the width of a number (u32) before it is compared.
read_edge(data, pos, node_idx, pool_len) ==
    Then(read_varint(data, pos), LAMBDA tagged, p :
        LET r == [noderef(tagged) EXCEPT !.idx = @ % 2 ^ (Width \div 2)]
        IN Got(r.idx < (IF r.in = "pool" THEN pool_len ELSE node_idx), r, p))

ReadEntry(data, pos) ==
    Then(ReadBytes(data, pos, 1), LAMBDA hash, p :
    Then(ReadBlob(data, p), LAMBDA payload, q :
    Got(TRUE, [hash |-> hash[1], payload |-> payload], q)))

\* Slip: the node kinds of IR 0.5, before blocks.
KnownKinds05 == 0..2
KnownKinds == 0..4
ReadNode(data, pos, node_idx, pool_len) ==
    LET Edges(n, p) == Many(n, p, LAMBDA q, i : read_edge(data, q, node_idx, pool_len))
        Node(kind, name, id, refs) == [kind |-> kind, name |-> name, id |-> id, refs |-> refs]
    IN Then(read_varint(data, pos), LAMBDA kind, p :
         IF kind \notin KnownKinds THEN hard_fail
         ELSE IF kind = 0
         THEN Then(ReadBlob(data, p), LAMBDA name, q :
              Then(ReadBytes(data, q, 1), LAMBDA id, s :
              Then(read_varint(data, s), LAMBDA arg_count, t :
              Then(Edges(arg_count, t), LAMBDA args, u : Got(TRUE, Node(0, name, id[1], args), u)))))
         ELSE Then(Edges(CASE kind = 1 -> 3 [] kind = 4 -> 1 [] OTHER -> 0, p),
                   LAMBDA refs, q : Got(TRUE, Node(kind, <<>>, 0, refs), q)))

parse_canonical(data) ==
    Then(read_varint(data, 1), LAMBDA pool_count, p :
    Then(Many(pool_count, p, LAMBDA q, i : ReadEntry(data, q)), LAMBDA entries, q :
    Then(read_varint(data, q), LAMBDA node_count, s :
    Then(Many(node_count, s, LAMBDA t, i : ReadNode(data, t, i - 1, pool_count)), LAMBDA ns, t :
    Then(read_edge(data, t, node_count, pool_count), LAMBDA res, u :
    Got(TRUE, [pool |-> entries, nodes |-> ns, result |-> res], u))))))

axbi_parse(header, data) == IF header = <<"AXCI", 0, 6>> THEN parse_canonical(data) ELSE hard_fail

\* A bundle that was read from a .coreir file and is written back has the very
\* bytes, and so the identity, it came with: two files are never one bundle
\* (deserialize_canonical, serialize_canonical).  An M1 program that reads the
\* file with axbi_parse finds the same bundle in it.  And a constant of any
\* value, the least integer included, survives its payload encoding.
FilesAreCanonical ==
    /\ state = "read" =>
         /\ serialize_canonical = bytes
         /\ LET got == axbi_parse(<<"AXCI", 0, 6>>, bytes)
            IN got.ok /\ got.val = [pool |-> pool, nodes |-> nodeList, result |-> resultRef]
    /\ given # File =>
         LET unsigned == given + 2 ^ (Width - 1)
             strict == FoldLeft(varint, Start, write_varint(unsigned))
             blob == encode_int_payload(given)
         IN  /\ decode_int_payload(blob) = <<given>>
             /\ strict.done /\ strict.v = unsigned
             /\ decode_bytes_payload(encode_bytes_payload(blob)) = <<blob>>

-----------------------------------------------------------------------------
(***************************************************************************)
(* The five line scanners over --reg files (emit/rust_05.rs), each a state *)
(* machine of its own that no parser is shared by (BRIDGE_SCAN_INDEPENDENT)*)
(* run over a registry document written line by line.  An fn block may     *)
(* hold a bridge_contract block, and both close with a bare `end`.         *)
(***************************************************************************)

CONSTANTS
  Fns,             \* fn names of the document
  Chans,           \* channel names of the document
  MaxLines,        \* bound on the lines of a document
  AfterContract    \* may identity and `in` lines follow the contract?

VARIABLES
  block,           \* where the document is: <<"top">>, <<"fn", n>>, ...
  closed,          \* has the current fn's contract been written?
  facts,           \* what the document declares of the current fn
  declared,        \* ... and of every fn closed so far
  opened,          \* channels declared so far
  scanId, scanBody, scanPure, scanIn, scanAsync,    \* the scanners' locals
  names, bodies, pureDet, ins, background, channels, \* their results
  written          \* lines so far

docvars == <<block, closed, facts, declared, opened>>
scanners == <<scanId, scanBody, scanPure, scanIn, scanAsync>>
results == <<names, bodies, pureDet, ins, background, channels>>
gvars == <<docvars, scanners, results, written>>

None == <<"none">>
NoName == "none"
Sha(n) == <<"name", n>>

\* A line is <<keyword, argument>>.
FnLines(n) == {<<"identity", <<"minted", n>>>>, <<"identity", None>>, <<"body", <<"content", n>>>>,
               <<"pure", TRUE>>, <<"pure", FALSE>>, <<"deterministic", TRUE>>, <<"in", <<"TextList", n>>>>}

GInit ==
  /\ block = <<"top">> /\ closed = FALSE /\ facts = None /\ declared = {} /\ opened = {}
  /\ scanId = [name |-> NoName, id |-> None]
  /\ scanBody = [id |-> None, body |-> None, inContract |-> FALSE]
  /\ scanPure = [id |-> None, pure |-> FALSE, det |-> FALSE, inContract |-> FALSE]
  /\ scanIn = [id |-> None]
  /\ scanAsync = [fn |-> NoName, inContract |-> FALSE, chan |-> NoName]
  /\ names = {} /\ bodies = {} /\ pureDet = {} /\ ins = {} /\ background = {} /\ channels = {}
  /\ written = 0

\* load_registry_identity_map: `end` of any block emits the entry.
load_registry_identity_map(l) ==
  CASE l[1] = "fn" -> scanId' = [name |-> l[2], id |-> Sha(l[2])] /\ UNCHANGED names
    [] l[1] = "identity" /\ l[2] # None -> scanId' = [scanId EXCEPT !.id = l[2]] /\ UNCHANGED names
    [] l[1] = "end" -> /\ names' = IF scanId.name # NoName /\ scanId.id # None
                                   THEN {p \in names : p[1] # scanId.id} \cup {<<scanId.id, scanId.name>>} ELSE names
                       /\ scanId' = [name |-> NoName, id |-> None]
    [] OTHER -> UNCHANGED <<scanId, names>>

\* load_registry_composite_bodies: the end of an fn emits its body, the end of a
\* bridge_contract does not.
CloseBody ==
  /\ bodies' = IF scanBody.id # None /\ scanBody.body # None
               THEN bodies \cup {<<scanBody.id, scanBody.body>>} ELSE bodies
  /\ scanBody' = [scanBody EXCEPT !.id = None, !.body = None]
BodyEnd ==
  IF scanBody.inContract THEN scanBody' = [scanBody EXCEPT !.inContract = FALSE] /\ UNCHANGED bodies
  ELSE CloseBody
load_registry_composite_bodies(l) ==
  CASE l[1] = "fn" -> scanBody' = [id |-> Sha(l[2]), body |-> None, inContract |-> FALSE] /\ UNCHANGED bodies
    [] l[1] = "identity" /\ l[2] # None -> scanBody' = [scanBody EXCEPT !.id = l[2]] /\ UNCHANGED bodies
    [] l[1] = "body" -> scanBody' = [scanBody EXCEPT !.body = l[2]] /\ UNCHANGED bodies
    [] l[1] = "bridge_contract" -> scanBody' = [scanBody EXCEPT !.inContract = TRUE] /\ UNCHANGED bodies
    [] l[1] = "end" -> BodyEnd
    [] OTHER -> UNCHANGED <<scanBody, bodies>>

\* load_registry_pure_det
load_registry_pure_det(l) ==
  CASE l[1] = "fn" -> scanPure' = [id |-> Sha(l[2]), pure |-> FALSE, det |-> FALSE, inContract |-> FALSE] /\ UNCHANGED pureDet
    [] l[1] = "identity" /\ l[2] # None -> scanPure' = [scanPure EXCEPT !.id = l[2]] /\ UNCHANGED pureDet
    [] l[1] = "pure" -> scanPure' = [scanPure EXCEPT !.pure = l[2]] /\ UNCHANGED pureDet
    [] l[1] = "deterministic" -> scanPure' = [scanPure EXCEPT !.det = l[2]] /\ UNCHANGED pureDet
    [] l[1] = "bridge_contract" -> scanPure' = [scanPure EXCEPT !.inContract = TRUE] /\ UNCHANGED pureDet
    [] l[1] = "end" /\ scanPure.inContract -> scanPure' = [scanPure EXCEPT !.inContract = FALSE] /\ UNCHANGED pureDet
    [] l[1] = "end" /\ ~scanPure.inContract ->
         /\ pureDet' = pureDet \cup IF scanPure.id # None /\ scanPure.pure /\ scanPure.det THEN {scanPure.id} ELSE {}
         /\ scanPure' = [scanPure EXCEPT !.id = None]
    [] OTHER -> UNCHANGED <<scanPure, pureDet>>

\* load_registry_in_map: `end` of any block forgets the identity.
load_registry_in_map(l) ==
  CASE l[1] = "fn" -> scanIn' = [id |-> Sha(l[2])] /\ UNCHANGED ins
    [] l[1] = "identity" /\ l[2] # None -> scanIn' = [id |-> l[2]] /\ UNCHANGED ins
    [] l[1] = "in" -> ins' = ins \cup (IF scanIn.id = None THEN {} ELSE {<<scanIn.id, l[2]>>}) /\ UNCHANGED scanIn
    [] l[1] = "end" -> scanIn' = [id |-> None] /\ UNCHANGED ins
    [] OTHER -> UNCHANGED <<scanIn, ins>>

\* scan_bridge_async_str: `end` closes a channel, then a contract, then an fn.
scan_bridge_async_str(l) ==
  LET keep == UNCHANGED <<background, channels>> IN
  CASE l[1] = "fn" -> scanAsync' = [scanAsync EXCEPT !.fn = l[2], !.inContract = FALSE] /\ keep
    [] l[1] = "channel" -> scanAsync' = [scanAsync EXCEPT !.chan = l[2]] /\ keep
    [] l[1] = "bridge_contract" -> scanAsync' = [scanAsync EXCEPT !.inContract = TRUE] /\ keep
    [] l[1] = "background" ->
         /\ background' = background \cup (IF scanAsync.inContract /\ scanAsync.fn # NoName THEN {scanAsync.fn} ELSE {})
         /\ UNCHANGED <<scanAsync, channels>>
    [] l[1] = "end" /\ scanAsync.chan # NoName ->
         channels' = channels \cup {scanAsync.chan} /\ scanAsync' = [scanAsync EXCEPT !.chan = NoName] /\ UNCHANGED background
    [] l[1] = "end" /\ scanAsync.chan = NoName ->
         /\ scanAsync' = IF scanAsync.inContract THEN [scanAsync EXCEPT !.inContract = FALSE] ELSE [scanAsync EXCEPT !.fn = NoName]
         /\ keep
    [] OTHER -> UNCHANGED scanAsync /\ keep

\* Every scanner reads every line.
Scan(l) ==
  /\ written < MaxLines /\ written' = written + 1
  /\ load_registry_identity_map(l) /\ load_registry_composite_bodies(l) /\ load_registry_pure_det(l)
  /\ load_registry_in_map(l) /\ scan_bridge_async_str(l)

\* The document: its blocks, and what each line declares.
NewFacts(n) == [name |-> n, id |-> Sha(n), body |-> None, pure |-> FALSE, det |-> FALSE, in |-> {}, bg |-> FALSE]
WriteFn(n) ==
  /\ block = <<"top">> /\ n \notin {d.name : d \in declared} /\ Scan(<<"fn", n>>)
  /\ block' = <<"fn", n>> /\ closed' = FALSE /\ facts' = NewFacts(n) /\ UNCHANGED <<declared, opened>>
WriteLine(l) ==
  /\ block[1] = "fn" /\ (closed /\ ~AfterContract => l[1] \notin {"identity", "in"})
  /\ l[1] \in {"in", "identity"} => facts.in = {}    \* one `in` line, after the identity
  /\ Scan(l)
  /\ facts' = CASE l[1] = "identity" -> IF l[2] = None THEN facts ELSE [facts EXCEPT !.id = l[2]]
                [] l[1] = "body" -> [facts EXCEPT !.body = l[2]]
                [] l[1] = "pure" -> [facts EXCEPT !.pure = l[2]]
                [] l[1] = "deterministic" -> [facts EXCEPT !.det = l[2]]
                [] l[1] = "in" -> [facts EXCEPT !.in = {<<facts.id, l[2]>>}]
  /\ UNCHANGED <<block, closed, declared, opened>>
WriteContract ==
  /\ block[1] = "fn" /\ ~closed /\ Scan(<<"bridge_contract">>)
  /\ block' = <<"contract", block[2]>> /\ UNCHANGED <<closed, facts, declared, opened>>
WriteBackground ==
  /\ block[1] \in {"fn", "contract"} /\ Scan(<<"background">>)
  /\ facts' = [facts EXCEPT !.bg = @ \/ block[1] = "contract"]
  /\ UNCHANGED <<block, closed, declared, opened>>
WriteChannel(c) ==
  /\ block = <<"top">> /\ c \notin opened /\ Scan(<<"channel", c>>)
  /\ block' = <<"channel", c>> /\ UNCHANGED <<closed, facts, declared, opened>>
WriteEnd ==
  /\ block # <<"top">> /\ Scan(<<"end">>)
  /\ block' = IF block[1] = "contract" THEN <<"fn", block[2]>> ELSE <<"top">>
  /\ closed' = (closed \/ block[1] = "contract")
  /\ declared' = IF block[1] = "fn" THEN declared \cup {facts} ELSE declared
  /\ opened' = IF block[1] = "channel" THEN opened \cup {block[2]} ELSE opened
  /\ UNCHANGED facts

GNext ==
  \/ \E n \in Fns : WriteFn(n) \/ \E l \in FnLines(n) : block = <<"fn", n>> /\ WriteLine(l)
  \/ WriteContract \/ WriteBackground \/ WriteEnd
  \/ \E c \in Chans : WriteChannel(c)
GSpec == GInit /\ [][GNext]_gvars

\* Between two blocks, the five scanners' tables are exactly what the document
\* declares, under one identity per fn: a contract's `end` neither closes its
\* fn early nor leaks into the next, and a malformed identity line leaves the
\* sha256(name) default in all of them.
ScannersAgree ==
  block = <<"top">> =>
    /\ names = {<<d.id, d.name>> : d \in declared}
    /\ bodies = {<<d.id, d.body>> : d \in {d \in declared : d.body # None}}
    /\ pureDet = {d.id : d \in {d \in declared : d.pure /\ d.det}}
    /\ ins = UNION {d.in : d \in declared}
    /\ background = {d.name : d \in {d \in declared : d.bg}}
    /\ channels = opened
=============================================================================
