----------------------------- MODULE PatchEngine -----------------------------
(***************************************************************************)
(* patch.py, which a build runs to patch the sources of the recovery, and  *)
(* fix_crlf.py, which rewrites the subpatches it works from.               *)
(*                                                                         *)
(* Every subpatch has one file and a list of changes, each an original     *)
(* text and a modified one; no two texts of a file overlap.  The file is   *)
(* read once, the changes that are found are replaced in memory, and the   *)
(* file is written when one was.  A change that is not found is only       *)
(* printed.  The tree is shared with whoever syncs it, and a run may be    *)
(* killed.                                                                 *)
(*                                                                         *)
(* A subpatch that cannot be loaded is left out with an error, but one in  *)
(* which there is no class SubPatch is left out without a word; fix_crlf,  *)
(* cut off in the middle of a file, leaves such a one.                     *)
(***************************************************************************)
EXTENDS Naturals

CONSTANTS
  Files,      \* target files, one subpatch each
  Changes,    \* number of changes of a subpatch
  None        \* no file

ASSUME ChangesAssumption == Changes \in Nat \ {0}
ASSUME NoneAssumption == None \notin Files

Sites == 1 .. Changes
Texts == [Sites -> {"original", "modified", "other"}]

(* A file that was truncated.                                              *)
Empty == [s \in Sites |-> "other"]

VARIABLES
  tree,       \* what the files have at the places of the changes
  missing,    \* files that are not there
  run,        \* "idle", "mod" or "build"
  loaded,     \* subpatches this run has loaded
  todo,       \* those of them it has not come to
  file, text, \* the file it works on and what is to be written to it
  writing,    \* that file is truncated, not written
  reported,   \* the run has printed an error or FAIL
  touched,    \* files synced since this run began
  settled,    \* files a run has dealt with, not synced since
  script,     \* the subpatch of each file: its line ends, or "empty"
  fixing,     \* the subpatch that fix_crlf has truncated and not written
  skipped     \* subpatches this run left out without a word

work == <<loaded, todo, file, text, writing>>
subpatches == <<script, fixing, skipped>>
vars == <<tree, missing, run, work, reported, touched, settled, subpatches>>

TypeOK ==
  /\ tree \in [Files -> Texts]
  /\ missing \subseteq Files
  /\ run \in {"idle", "mod", "build"}
  /\ todo \subseteq loaded /\ loaded \subseteq Files
  /\ file \in Files \cup {None} /\ text \in Texts
  /\ file # None => run = "mod" /\ file \in loaded \ todo
  /\ writing \in BOOLEAN /\ (writing => file # None)
  /\ reported \in BOOLEAN
  /\ touched \subseteq Files /\ settled \subseteq Files
  /\ script \in [Files -> {"lf", "crlf", "empty"}]
  /\ fixing \in Files \cup {None}
  /\ skipped \subseteq Files \ loaded

(* A fresh checkout, where upstream may have changed a place or a file.    *)
Init ==
  /\ tree \in [Files -> [Sites -> {"original", "other"}]]
  /\ missing \in SUBSET Files
  /\ run = "idle"
  /\ loaded = {} /\ todo = {}
  /\ file = None /\ text = Empty
  /\ writing = FALSE
  /\ reported = FALSE
  /\ touched = {} /\ settled = {}
  /\ script \in [Files -> {"lf", "crlf"}]
  /\ fixing = None
  /\ skipped = {}

-----------------------------------------------------------------------------
(* The modified text is looked for first.                                  *)
FindAndCheckInText(t, s) ==
  IF t[s] = "modified" THEN "ALREADY_APPLIED"
  ELSE IF t[s] = "original" THEN "READY_TO_PATCH"
  ELSE "NOT_FOUND_OR_CONFLICT"

(* What check() prints: the first change that is not applied decides.      *)
Verdict(t) ==
  LET open == {s \in Sites : FindAndCheckInText(t, s) # "ALREADY_APPLIED"}
  IN  IF open = {} THEN "applied"
      ELSE LET first == CHOOSE s \in open : \A z \in open : s <= z
           IN  IF FindAndCheckInText(t, first) = "READY_TO_PATCH"
               THEN "waiting" ELSE "conflict"

Patched(t) ==
  [s \in Sites |-> IF FindAndCheckInText(t, s) = "READY_TO_PATCH"
                   THEN "modified" ELSE t[s]]

Fails(t) == \E s \in Sites : FindAndCheckInText(t, s) = "NOT_FOUND_OR_CONFLICT"

-----------------------------------------------------------------------------
Readable == {f \in Files : script[f] # "empty"}

(***************************************************************************)
(* A subpatch that cannot be loaded is left out, with an error printed; an *)
(* empty one is left out.  That none is left is printed too.               *)
(***************************************************************************)
LoadSubpatches(fs) ==
  /\ loaded' = fs
  /\ todo' = fs
  /\ skipped' = Files \ Readable
  /\ reported' = (fs = {} \/ fs # Readable)

Start(fs) ==
  /\ run = "idle"
  /\ fs \subseteq Readable
  /\ run' = "mod"
  /\ LoadSubpatches(fs)
  /\ touched' = {}
  /\ UNCHANGED <<tree, missing, file, text, writing, settled, script, fixing>>

(* Mutant: what is not found is taken for applied.                         *)
ReportsMissingOnly(f) == f \in missing

Reports(f) == f \in missing \/ Fails(tree[f])

(* Mutant: the file is written whether or not something was replaced.      *)
WritesAlways(f) == f \notin missing

Writes(f) == f \notin missing /\ Patched(tree[f]) # tree[f]

(* mod(), up to the write: the next file is read and patched in memory.    *)
Mod(f) ==
  /\ run = "mod" /\ file = None
  /\ f \in todo
  /\ todo' = todo \ {f}
  /\ reported' = (reported \/ Reports(f))
  /\ IF Writes(f)
     THEN file' = f /\ text' = Patched(tree[f]) /\ UNCHANGED settled
     ELSE settled' = settled \cup {f} /\ UNCHANGED <<file, text>>
  /\ UNCHANGED <<tree, missing, run, loaded, writing, touched, subpatches>>

(* write_text() opens the file and truncates it, then writes.              *)
Truncate ==
  /\ file # None /\ ~writing
  /\ writing' = TRUE
  /\ tree' = [tree EXCEPT ![file] = Empty]
  /\ missing' = missing \ {file}
  /\ UNCHANGED <<run, loaded, todo, file, text, reported, touched, settled,
                 subpatches>>

WriteText ==
  /\ writing
  /\ writing' = FALSE
  /\ tree' = [tree EXCEPT ![file] = text]
  /\ file' = None /\ text' = Empty
  /\ settled' = settled \cup {file}
  /\ UNCHANGED <<missing, run, loaded, todo, reported, touched, subpatches>>

(* The build goes on, whatever was printed.                                *)
Finish ==
  /\ run = "mod" /\ file = None /\ todo = {}
  /\ run' = "build"
  /\ UNCHANGED <<tree, missing, work, reported, touched, settled, subpatches>>

NextBuild ==
  /\ run = "build"
  /\ run' = "idle"
  /\ UNCHANGED <<tree, missing, work, reported, touched, settled, subpatches>>

Kill ==
  /\ run = "mod"
  /\ run' = "idle"
  /\ file' = None /\ text' = Empty /\ todo' = {} /\ writing' = FALSE
  /\ UNCHANGED <<tree, missing, loaded, reported, touched, settled,
                 subpatches>>

(* The file is reset, and upstream may have changed or removed it.  That   *)
(* is done between builds or under a run, by someone else.                 *)
Sync(f, t, there) ==
  /\ ~writing /\ run # "build"
  /\ tree' = [tree EXCEPT ![f] = t]
  /\ missing' = IF there THEN missing \ {f} ELSE missing \cup {f}
  /\ touched' = touched \cup {f}
  /\ settled' = settled \ {f}
  /\ UNCHANGED <<run, work, reported, subpatches>>

-----------------------------------------------------------------------------
patching == <<tree, missing, run, work, reported, touched, settled>>

(***************************************************************************)
(* fix_crlf: a file with a CR in it is opened for writing, which truncates *)
(* it, and written without.  It may be killed, and the write may fail; the *)
(* file is then left as it is.                                             *)
(***************************************************************************)
FixFile(f) ==
  /\ fixing = None
  /\ script[f] = "crlf"
  /\ fixing' = f
  /\ script' = [script EXCEPT ![f] = "empty"]
  /\ UNCHANGED <<patching, skipped>>

FixWrites ==
  /\ fixing # None
  /\ fixing' = None
  /\ script' = [script EXCEPT ![fixing] = "lf"]
  /\ UNCHANGED <<patching, skipped>>

FixFails ==
  /\ fixing # None
  /\ fixing' = None
  /\ UNCHANGED <<patching, script, skipped>>

(* The subpatches are checked out again, with the line ends git chooses.   *)
Checkout(f, ends) ==
  /\ fixing # f
  /\ script' = [script EXCEPT ![f] = ends]
  /\ UNCHANGED <<patching, fixing, skipped>>

-----------------------------------------------------------------------------
Upstream == [Sites -> {"original", "other"}]

Next ==
  \/ \E fs \in SUBSET Files : Start(fs)
  \/ \E f \in Files : Mod(f)
  \/ Truncate
  \/ WriteText
  \/ Finish
  \/ NextBuild
  \/ Kill
  \/ \E f \in Files, t \in Upstream, there \in BOOLEAN : Sync(f, t, there)
  \/ \E f \in Files : FixFile(f)
  \/ FixWrites
  \/ FixFails
  \/ \E f \in Files, ends \in {"lf", "crlf"} : Checkout(f, ends)

Spec == Init /\ [][Next]_vars

-----------------------------------------------------------------------------
(***************************************************************************)
(* A build whose run printed no error has every change in its sources, but *)
(* for files synced during the run: whatever earlier runs were killed, and *)
(* whatever they left half patched or truncated.  What fix_crlf left of a  *)
(* subpatch makes the only exception: while it is empty, its changes are   *)
(* missing without a word.                                                 *)
(***************************************************************************)
AppliedOrReported ==
  run = "build" /\ ~reported =>
    \A f \in Files \ (touched \cup skipped) :
      f \notin missing /\ Verdict(tree[f]) = "applied"

(***************************************************************************)
(* A file that a run has dealt with is not opened for writing again until  *)
(* somebody syncs it: its bytes, its time stamp and the build's work on it *)
(* stay.                                                                   *)
(***************************************************************************)
PatchedOnce == [][writing' /\ ~writing => file \notin settled]_vars
=============================================================================
