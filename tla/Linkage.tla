------------------------------- MODULE Linkage -------------------------------
(***************************************************************************)
(* How cmd_build (main.rs) turns a root bundle, its --lib providers, its   *)
(* --dispatch tables and its named entries into linkable modules: the      *)
(* depth-first closure over calls and fn-refs, and for each bundle of the  *)
(* closure the resolution, the extern block and the wrappers that          *)
(* emit_rust_lib_from_bundle (emit/rust_05.rs) writes.  An identity is     *)
(* <<"name", n>> for sha256(n) or <<"minted", n>> for the identity the     *)
(* registry minted for n, whose `body` is the content of bundle n.         *)
(***************************************************************************)
EXTENDS Naturals, Sequences, FiniteSets, SequencesExt, FiniteSetsExt, TLC

CONSTANTS
  Libs,          \* the --lib bundles, by fn name
  Root,          \* the fn name of the root bundle, not among Libs
  EntryNames,    \* names the command line may give with --entries
  Dispatched,    \* names the --dispatch files may define
  TextListFns,   \* names the registry declares with `in (TextList)`
  MaxUses,       \* bound on the calls and fn-refs of all bundles together
  Aliases        \* may a bundle name one fn by both of its identities?

VARIABLES
  dispatch,      \* names of the DispatchOverlay
  uses,          \* the calls and fn-refs of each bundle, once read
  dfs,           \* the stack of collect_closure_dfs
  visited, ordered,
  entries,       \* the named entries
  modules,       \* what was emitted for each bundle of the closure
  lphase

kvars == <<dispatch, uses, dfs, visited, ordered, entries, modules, lphase>>

\* The static tables: names with a Rust implementation, those with the native
\* calling convention, those with callee slots of their own.
symbol_map == {"len", "peek", "map"}
native_call_fn_arg_types == {"peek"}
fn_arg_kinds == {"map"}

Name(n) == <<"name", n>>
Minted(n) == <<"minted", n>>
Ids == {Name(n) : n \in Libs \cup {Root, "absent"} \cup symbol_map}
         \cup {Minted(n) : n \in Libs}
Uses == [how : {"call", "ref"}, id : Ids]

Implemented == symbol_map \cup dispatch
bridge_builtin_map == {Name(n) : n \in Implemented}
registry_identity_map(id) == IF id[1] = "minted" THEN {id[2]} ELSE {}
by_body(id) == IF id[1] = "minted" /\ id[2] \in Libs THEN {Name(id[2])} ELSE {}
\* identity -> the provider whose export its callers link against.
xbundle_providers(id) == (IF id[1] = "name" /\ id[2] \in Libs THEN {id} ELSE {}) \cup by_body(id)

KInit ==
  /\ dispatch = {} /\ uses = <<>>
  /\ dfs = <<>> /\ visited = {} /\ ordered = <<>>
  /\ entries = {} /\ modules = <<>> /\ lphase = "dispatch"

\* What the text of an [[fn]] table comes to: an entry, or an error at the
\* first key, string, array or type name the narrow schema does not have.
parse_dispatch_toml == {"entry", "error"}

\* load_dispatch_files: an error, and a name that has an implementation, refuse
\* the build.
LoadDispatch(n, parsed) ==
  /\ lphase = "dispatch"
  /\ IF parsed = "error" \/ n \in Implemented THEN lphase' = "refused" /\ UNCHANGED dispatch
     ELSE dispatch' = dispatch \cup {n} /\ UNCHANGED lphase
  /\ UNCHANGED <<uses, dfs, visited, ordered, entries, modules>>

\* A bundle's contents, at most two uses, chosen when the walk first opens it.
Total == MapThenSumSet(LAMBDA b : Cardinality(uses[b]), DOMAIN uses)
Contents(b) ==
  IF b \in DOMAIN uses THEN {uses[b]}
  ELSE {us \in {{}} \cup {{u, v} : u, v \in Uses} :
          /\ Cardinality(us) <= MaxUses - Total
          /\ Aliases \/ \A u \in us : /\ u.id # Minted(b)
                                      /\ \A v \in us : u.id[2] = v.id[2] => u.id = v.id}
Open(stk, b, adds) ==
  \E us \in Contents(b) :
    /\ uses' = (b :> us) @@ uses
    /\ dfs' = Append(stk, [bundle |-> b, todo |-> us, adds |-> adds])

\* Named-entry resolution: an implemented fn must take the argument list, any
\* other name must be a provider or the root; then the walk starts at the root.
Resolvable(n) == IF n \in Implemented THEN n \in TextListFns ELSE n \in Libs \cup {Root}
ResolveEntries(es) ==
  /\ lphase = "dispatch"
  /\ entries' = es
  /\ IF \A n \in es : Resolvable(n)
     THEN lphase' = "closure" /\ Open(dfs, Root, FALSE)
     ELSE lphase' = "refused" /\ UNCHANGED <<uses, dfs>>
  /\ UNCHANGED <<dispatch, visited, ordered, modules>>

\* The provider key a call or a fn-ref leads to, if any.
CallKeysOnly(u) ==
  IF u.id \in bridge_builtin_map \/ u.how = "ref" THEN {}
  ELSE IF by_body(u.id) # {} THEN by_body(u.id)
  ELSE IF u.id[1] = "name" THEN {u.id} ELSE {}
Keys(u) ==
  IF u.id \in bridge_builtin_map THEN {}
  ELSE IF by_body(u.id) # {} THEN by_body(u.id)
  ELSE IF u.id[1] = "name" \/ u.how = "ref" THEN {u.id} ELSE {}
Follow ==
  /\ lphase = "closure" /\ dfs # <<>>
  /\ LET f == Last(dfs) IN \E u \in f.todo :
       LET rest == [f EXCEPT !.todo = @ \ {u}]
           new  == Keys(u) \ visited
           deps == {k[2] : k \in {k \in new : k[1] = "name" /\ k[2] \in Libs}} IN
       /\ visited' = visited \cup new
       /\ IF deps = {} THEN dfs' = [dfs EXCEPT ![Len(dfs)] = rest] /\ UNCHANGED uses
          ELSE \E b \in deps : Open([dfs EXCEPT ![Len(dfs)] = rest], b, TRUE)
  /\ UNCHANGED <<dispatch, ordered, entries, modules, lphase>>
FollowDone ==
  /\ lphase = "closure" /\ dfs # <<>> /\ Last(dfs).todo = {}
  /\ LET f == Last(dfs) IN
       /\ dfs' = Front(dfs)
       /\ visited' = IF f.bundle = Root THEN visited ELSE visited \cup {Name(f.bundle)}
       /\ ordered' = IF f.adds \/ (f.bundle # Root /\ Name(f.bundle) \notin visited)
                     THEN Append(ordered, f.bundle) ELSE ordered
  /\ UNCHANGED <<dispatch, uses, entries, modules, lphase>>
\* The entries among the providers are walked after the root, in turn.
Walked == {b \in Libs : Name(b) \in visited}
OpenEntry ==
  /\ lphase = "closure" /\ dfs = <<>>
  /\ LET left == (entries \cap Libs) \ (Walked \cup dispatch) IN
       IF left = {} THEN lphase' = "emit" /\ UNCHANGED <<uses, dfs>>
       ELSE (\E b \in left : Open(dfs, b, FALSE)) /\ UNCHANGED lphase
  /\ UNCHANGED <<dispatch, visited, ordered, entries, modules>>

\* Where a use is bound, as <<kind, name>>; nothing when the build is refused.
Impl(id) == IF id \in bridge_builtin_map THEN {id[2]} ELSE registry_identity_map(id) \cap Implemented
\* emit_node: an implementation before a provider
CallTarget(id) ==
  IF Impl(id) # {} THEN {<<"path", n>> : n \in Impl(id)}
  ELSE {<<"extern", s>> : s \in xbundle_providers(id)}
\* classify_pool_entry: a built-in, then a provider, then the registry; a
\* higher-order fn is never another one's callee
HofRefused(n) == n \in fn_arg_kinds
RefTarget(id) ==
  IF id \notin bridge_builtin_map /\ xbundle_providers(id) # {}
  THEN {<<"xfn", s>> : s \in xbundle_providers(id)}
  ELSE {<<IF n \in native_call_fn_arg_types THEN "vfn" ELSE "path", n>> : n \in {n \in Impl(id) : ~HofRefused(n)}}
Bound(u) == IF u.how = "call" THEN CallTarget(u.id) ELSE RefTarget(u.id)
Unresolved(b) == {u \in uses[b] : Bound(u) = {}}

\* The extern block and the wrappers: one item per identity, not per symbol.
OwnSeen(b) == {Name(b)}
Externs(b) == {id \in {u.id : u \in uses[b]} \ OwnSeen(b) : xbundle_providers(id) # {}}
Wrapped(b) == {u.id : u \in {u \in uses[b] : u.how = "ref"}}
Module(b) ==
  [defines |-> {Name(b)},
   externs |-> {<<id, s>> \in Externs(b) \X Ids : s \in xbundle_providers(id)},
   xfns |-> {<<id, s>> \in Wrapped(b) \X Ids : s \in xbundle_providers(id)},
   vfns |-> {<<id, n>> \in Wrapped(b) \X native_call_fn_arg_types :
               IF id \in bridge_builtin_map THEN n = id[2] ELSE n \in registry_identity_map(id)},
   bound |-> UNION {Bound(u) : u \in uses[b]}]
\* The providers of the closure in order, then the root.
Emit ==
  /\ lphase = "emit"
  /\ LET b == Append(ordered, Root)[Cardinality(DOMAIN modules) + 1] IN
     IF Unresolved(b) # {} THEN lphase' = "refused" /\ UNCHANGED modules
     ELSE /\ modules' = (b :> Module(b)) @@ modules
          /\ lphase' = IF b = Root THEN "linked" ELSE "emit"
  /\ UNCHANGED <<dispatch, uses, dfs, visited, ordered, entries>>

KNext ==
  \/ \E n \in Dispatched, parsed \in parse_dispatch_toml : LoadDispatch(n, parsed)
  \/ \E es \in SUBSET EntryNames : ResolveEntries(es)
  \/ Follow \/ FollowDone \/ OpenEntry \/ Emit
KSpec == KInit /\ [][KNext]_kvars

Symbols(pairs) == {p[2] : p \in pairs}
Once(pairs) == Cardinality(Symbols(pairs)) = Cardinality(pairs)

\* A build that is not refused links: no provider is compiled twice; no module
\* declares a symbol twice, defines one it also declares, or writes a wrapper
\* twice; what a module calls it declares, defines or wraps; and every symbol
\* declared by a reference, and every entry, is exported by a compiled module.
LinksClosed ==
  /\ IsInjective(ordered)
  /\ lphase = "linked" =>
    LET exported == {Name(b) : b \in DOMAIN modules} IN
    /\ \A b \in DOMAIN modules : LET m == modules[b] IN
         /\ Once(m.externs) /\ Once(m.xfns) /\ Once(m.vfns)
         /\ Symbols(m.externs) \cap m.defines = {}
         /\ \A x \in m.bound :
              /\ x[1] \in {"extern", "xfn"} => x[2] \in (Symbols(m.externs) \cup m.defines) \cap exported
              /\ x[1] = "xfn" => x[2] \in Symbols(m.xfns)
              /\ x[1] = "vfn" => x[2] \in Symbols(m.vfns)
    /\ \A n \in entries : n \in Implemented \/ Name(n) \in exported
=============================================================================
