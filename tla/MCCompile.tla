----------------------------- MODULE MCCompile -----------------------------
(***************************************************************************)
(* Model checking of the compiler and the programs it makes: the file      *)
(* reader (BundleFile), the emitter, the loops of the runtime (Loops), the *)
(* linker's closure (Linkage), IR as data (IrTerms), the registry          *)
(* scanners, the build cache and the supervisor in the generated main.     *)
(* They share no state, so a behaviour chooses one of them at the start    *)
(* and the others stay in their initial state.                             *)
(*                                                                         *)
(* Bundles of five nodes nest a block in a block; two libraries and three  *)
(* uses make cycles; terms of five nodes shadow a binder; documents of     *)
(* eleven lines hold two functions; two builds race; varints have two-bit  *)
(* digits, so that overlong ones are short.                                *)
(***************************************************************************)
EXTENDS BuildCache, Supervisor, Integers, Sequences, SequencesExt, FiniteSets, FiniteSetsExt, TLC

VARIABLES
    which,                                                  \* the model chosen
    nodes, stack, home, partner, arm, phase, result, at, env, faulted, choice,
    ran, effects, before,                                   \* Emitter
    dispatch, uses, dfs, visited, ordered, entries, modules, lphase, \* Linkage
    terms, outcome,                                         \* IrTerms
    block, closed, facts, declared, opened, scanId, scanBody, scanPure, scanIn,
    scanAsync, names, bodies, pureDet, ins, background, channels,
    written,                                                \* BundleFile: registry scanners
    given, bytes, need, num, pool, nodeList, resultRef, state,  \* BundleFile
    loop, items, second, taken, atCond, acc, ret, answers   \* Loops

EM == INSTANCE Emitter WITH MaxNodes <- 5, MaxOps <- 2, Kinds <- {"pure", "effect", "hof"}
LK == INSTANCE Linkage WITH
        Libs <- {"f", "g"}, Root <- "main", EntryNames <- {"f", "len", "g"},
        Dispatched <- {"len", "g"}, TextListFns <- {"g"}, MaxUses <- 3, Aliases <- FALSE
TE == INSTANCE IrTerms WITH
        Names <- {"x", "y"}, Ints <- {1, 2}, MaxNodes <- 5, MaxDepth <- 12,
        IrAsData <- FALSE
BF == INSTANCE BundleFile WITH
        DigitBits <- 2, Width <- 5, MaxBytes <- 9, MaxCount <- 2,
        Fns <- {"f", "g"}, Chans <- {"c"}, MaxLines <- 11, AfterContract <- FALSE

LP == INSTANCE Loops WITH
        Loops <- {"foreach", "loop_count", "loop_while", "fold", "flat_map", "filter", "map", "map2",
                  "map3", "any", "all", "find_index", "count"},
        MaxItems <- 3

emvars == <<nodes, stack, home, partner, arm, phase, result, at, env, faulted, choice,
            ran, effects, before>>
lkvars == <<dispatch, uses, dfs, visited, ordered, entries, modules, lphase>>
tevars == <<terms, outcome>>
rsvars == <<block, closed, facts, declared, opened, scanId, scanBody, scanPure, scanIn,
            scanAsync, names, bodies, pureDet, ins, background, channels, written>>
bfvars == <<given, bytes, need, num, pool, nodeList, resultRef, state>>
lpvars == <<loop, items, second, taken, atCond, acc, ret, answers>>
all == <<which, emvars, lkvars, tevars, rsvars, cvars, uvars, bfvars, lpvars>>

Init ==
    /\ which \in {"emitter", "linkage", "terms", "registry", "cache", "supervisor", "file", "loops"}
    /\ EM!EInit /\ LK!KInit /\ TE!TInit /\ BF!GInit /\ CInit /\ UInit /\ BF!FInit /\ LP!OInit
    /\ which # "supervisor" => shim = "single"
    /\ which # "file" => given = 0
    /\ which # "loops" => loop = "map" /\ items = 0 /\ second = 0

\* A step of the model chosen; the others stand still.
Next ==
    \/ /\ which = "emitter" /\ EM!ENext
       /\ UNCHANGED <<which, lkvars, tevars, rsvars, cvars, uvars, bfvars, lpvars>>
    \/ /\ which = "linkage" /\ LK!KNext
       /\ UNCHANGED <<which, emvars, tevars, rsvars, cvars, uvars, bfvars, lpvars>>
    \/ /\ which = "terms" /\ TE!TNext
       /\ UNCHANGED <<which, emvars, lkvars, rsvars, cvars, uvars, bfvars, lpvars>>
    \/ /\ which = "registry" /\ BF!GNext
       /\ UNCHANGED <<which, emvars, lkvars, tevars, cvars, uvars, bfvars, lpvars>>
    \/ /\ which = "cache" /\ CNext
       /\ UNCHANGED <<which, emvars, lkvars, tevars, rsvars, uvars, bfvars, lpvars>>
    \/ /\ which = "supervisor" /\ UNext
       /\ UNCHANGED <<which, emvars, lkvars, tevars, rsvars, cvars, bfvars, lpvars>>
    \/ /\ which = "file" /\ BF!FNext
       /\ UNCHANGED <<which, emvars, lkvars, tevars, rsvars, cvars, uvars, lpvars>>
    \/ /\ which = "loops" /\ LP!ONext
       /\ UNCHANGED <<which, emvars, lkvars, tevars, rsvars, cvars, uvars, bfvars>>

Spec == Init /\ [][Next]_all

\* Builds are alike.
Symmetry == Permutations(Builds)

\* Emitter and Loops: the emitted program runs what the IR says, and nothing
\* after a fault, in the loops it calls too.
EmittedCodeFollowsIr == EM!EmittedCodeFollowsIr /\ LP!LoopsStopOnUnknown

\* Linkage: a build that is not refused links, every symbol once.
LinksClosed == LK!LinksClosed

\* IrTerms: substitution, renaming and evaluation of IR values keep their laws.
TermLaws == TE!TermLaws

\* BundleFile: the independent scanners read the same registry alike.
ScannersAgree == BF!ScannersAgree

\* BundleFile: every file and payload accepted has one encoding, and both
\* readers find the same bundle in it.
FilesAreCanonical == BF!FilesAreCanonical
=============================================================================
