----------------------------- MODULE BuildCache -----------------------------
(***************************************************************************)
(* The content-addressed rustc cache of the build command (rustc_jobs.rs), *)
(* shared by builds that run at the same time.  A job compiles one source  *)
(* file, which includes a second file that only rustc's dep-info names.    *)
(* The content of a file is a version number and its hash is that number;  *)
(* what rustc makes is the pair of contents it read.  Files may change     *)
(* while builds run: an author edits them, or a build of the same bundle   *)
(* truncates and rewrites the source it generates (main.rs).               *)
(***************************************************************************)
EXTENDS Naturals

CONSTANTS
  Builds,            \* the build processes
  MaxEdits,          \* most edits of the sources
  MaxWipes           \* most times the cache directory is deleted

VARIABLES
  content,     \* the two files: [src |-> version, dep |-> version]
  manifests,   \* <key>.manifest: key -> the dep hash it lists, and its blob
  blobs,       \* <key>-<hash>.rlib: blob name -> what it was compiled from, and
               \* whether the files rested from that build's start to its store
  memo,        \* Runner.hashes: file hashes, 0 until first taken
  wanted,      \* the blob a manifest named, or the one just stored
  built,       \* rustc's output in the cache's tmp directory
  bstep,       \* where each build is
  out,         \* the job's output file: a copy of a blob
  current,     \* history: the contents the files had since the build began
  edits, wipes

cvars == <<content, manifests, blobs, memo, wanted, built, bstep, out, current, edits, wipes>>

None == <<>>
Steps == {"idle", "key", "lookup", "copy", "compile", "store", "manifest", "take", "done", "failed"}
NoMemo == [src |-> 0, dep |-> 0]
Running(b) == bstep[b] \notin {"idle", "done", "failed"}
Goto(b, s) == bstep' = [bstep EXCEPT ![b] = s]

\* file_hash: hashed once per build, remembered for its life.
file_hash(b, f) == IF memo[b][f] = 0 THEN content[f] ELSE memo[b][f]
Hashed(b, f) == memo' = [memo EXCEPT ![b][f] = file_hash(b, f)]
Key(b) == memo[b].src

\* A new build process (a Runner) with an empty memo.
Start(b) ==
  /\ ~Running(b)
  /\ memo' = [memo EXCEPT ![b] = NoMemo]
  /\ built' = [built EXCEPT ![b] = None]
  /\ out' = [out EXCEPT ![b] = None]
  /\ current' = [current EXCEPT ![b] = {content}]
  /\ Goto(b, "key")
  /\ UNCHANGED <<wanted, content, manifests, blobs, edits, wipes>>

TakeKey(b) ==
  /\ bstep[b] = "key"
  /\ Hashed(b, "src")
  /\ Goto(b, "lookup")
  /\ UNCHANGED <<wanted, content, manifests, blobs, built, out, current, edits, wipes>>

\* lookup: the manifest of the key, and every file it lists hashed again.
ManifestExists(b) == Key(b) \in DOMAIN manifests
ManifestHolds(b) == manifests[Key(b)].dep = file_hash(b, "dep")
Lookup(b) ==
  /\ bstep[b] = "lookup"
  /\ IF Key(b) \in DOMAIN manifests
     THEN /\ Hashed(b, "dep")
          /\ wanted' = [wanted EXCEPT ![b] = manifests[Key(b)].blob]
          /\ Goto(b, IF ManifestHolds(b) THEN "copy" ELSE "compile")
     ELSE Goto(b, "compile") /\ UNCHANGED <<memo, wanted>>
  /\ UNCHANGED <<content, manifests, blobs, built, out, current, edits, wipes>>

\* The hit's copy of the blob; a missing blob is a miss.
CopyHit(b) ==
  /\ bstep[b] = "copy"
  /\ IF wanted[b] \in DOMAIN blobs
     THEN out' = [out EXCEPT ![b] = blobs[wanted[b]]] /\ Goto(b, "done")
     ELSE Goto(b, "compile") /\ UNCHANGED out
  /\ UNCHANGED <<wanted, content, manifests, blobs, memo, built, current, edits, wipes>>

Compile(b) ==
  /\ bstep[b] = "compile"
  /\ \/ built' = [built EXCEPT ![b] = <<content.src, content.dep>>] /\ Goto(b, "store")
     \/ Goto(b, "failed") /\ UNCHANGED built
  /\ UNCHANGED <<wanted, content, manifests, blobs, memo, out, current, edits, wipes>>

Put(f, k, v) == [x \in DOMAIN f \cup {k} |-> IF x = k THEN v ELSE f[x]]
\* store: the dep-info's files are hashed, and the blob renamed into place.
StoreBlob(b) ==
  /\ bstep[b] = "store"
  /\ Hashed(b, "dep")
  /\ IF built[b] = None
     THEN Goto(b, "failed") /\ UNCHANGED <<blobs, wanted, built>>
     ELSE /\ wanted' = [wanted EXCEPT ![b] = <<Key(b), file_hash(b, "dep")>>]
          /\ blobs' = Put(blobs, wanted'[b], [of |-> built[b], settled |-> current[b] = {content}])
          /\ built' = [built EXCEPT ![b] = None]
          /\ Goto(b, "manifest")
  /\ UNCHANGED <<content, manifests, out, current, edits, wipes>>
\* The manifest, written to tmp and renamed over whatever the key had; it
\* cannot be written when the directory has been deleted since the blob was.
StoreManifest(b) ==
  /\ bstep[b] = "manifest"
  /\ \/ manifests' = Put(manifests, Key(b), [dep |-> memo[b].dep, blob |-> wanted[b]]) /\ Goto(b, "take")
     \/ wanted[b] \notin DOMAIN blobs /\ Goto(b, "failed") /\ UNCHANGED manifests
  /\ UNCHANGED <<wanted, content, blobs, memo, built, out, current, edits, wipes>>
\* The copy of the stored blob to the output.
TakeBlob(b) ==
  /\ bstep[b] = "take"
  /\ IF wanted[b] \in DOMAIN blobs
     THEN out' = [out EXCEPT ![b] = blobs[wanted[b]]] /\ Goto(b, "done")
     ELSE Goto(b, "failed") /\ UNCHANGED out
  /\ UNCHANGED <<wanted, content, manifests, blobs, memo, built, current, edits, wipes>>

\* External: a source changes, at any time.
Edit(f) ==
  /\ edits < MaxEdits /\ edits' = edits + 1
  /\ \E v \in 1..2 : v # content[f] /\ content' = [content EXCEPT ![f] = v]
  /\ current' = [b \in Builds |-> IF Running(b) THEN current[b] \cup {content'} ELSE current[b]]
  /\ UNCHANGED <<wanted, manifests, blobs, memo, built, bstep, out, wipes>>
\* External: the cache directory is deleted, tmp outputs included.
Wipe ==
  /\ wipes < MaxWipes /\ wipes' = wipes + 1
  /\ manifests' = <<>> /\ blobs' = <<>>
  /\ built' = [b \in Builds |-> None]
  /\ UNCHANGED <<wanted, content, memo, bstep, out, current, edits>>

CInit ==
  /\ content = [src |-> 1, dep |-> 1]
  /\ manifests = <<>> /\ blobs = <<>>
  /\ memo = [b \in Builds |-> NoMemo]
  /\ wanted = [b \in Builds |-> None]
  /\ built = [b \in Builds |-> None]
  /\ bstep = [b \in Builds |-> "idle"]
  /\ out = [b \in Builds |-> None]
  /\ current = [b \in Builds |-> {}]
  /\ edits = 0 /\ wipes = 0
CNext ==
  \/ \E b \in Builds : \/ Start(b) \/ TakeKey(b) \/ Lookup(b) \/ CopyHit(b) \/ Compile(b)
                       \/ StoreBlob(b) \/ StoreManifest(b) \/ TakeBlob(b)
  \/ \E f \in {"src", "dep"} : Edit(f)
  \/ Wipe
CSpec == CInit /\ [][CNext]_cvars

Fresh(b) == \E c, d \in current[b] : out[b].of = <<c.src, d.dep>>

\* rustc_jobs: each file was compiled, for the output of a build that succeeds,
\* from a content it had while that build ran, whichever build compiled it,
\* whatever other builds stored or deleted in between, and although files
\* change under the build that takes the output.  The exception is a blob that
\* was stored by a build under which a file had changed since its start: it may
\* have been compiled from another content than the one its name is made of.
OutputsAreCurrent ==
  \A b \in Builds : bstep[b] = "done" /\ out[b].settled => Fresh(b)

\* "a stale hit is ruled out structurally" (rustc_jobs.rs:12).  The exception
\* above refutes it: such a blob is a hit for every later build.
NoStaleHit == \A b \in Builds : bstep[b] = "done" => Fresh(b)
=============================================================================
