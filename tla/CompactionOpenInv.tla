-------------------------- MODULE CompactionOpenInv --------------------------
(***************************************************************************)
(* Two invariants over CompactionInv: why each Open ends with the files    *)
(* that the manifest leaves (StrayInv), and why no merge of the first      *)
(* session takes a name that is used (FirstInv).                           *)
(***************************************************************************)
EXTENDS CompactionInv

-----------------------------------------------------------------------------
(* OpenMatchesManifest, when os.Remove does not fail *)

RemovesSucceed == "remove" \notin CompactorFaults

\* Nor does the manifest name a file like the output.
UnusedOutput == cpc = "create" => [win |-> cwin, compact |-> NextCompactSeq] \notin Names

\* An edit adds a name that is new, and deletes names that are not.
EditsInv ==
    \A i \in DOMAIN manifest :
        /\ manifest[i].deleted \subseteq Listed
        /\ \A fe \in manifest[i].added :
              /\ IsFlushed(fe.path) => manifest[i].deleted = {}
              /\ \A j \in DOMAIN manifest : j <= i => fe.path \notin manifest[j].deleted

\* A file is listed from its commit on.
ListedInv ==
    /\ files \subseteq Listed
    /\ fpc \in {"swap", "finish", "commit"} => FlushPath \notin Listed
    /\ fpc \in {"unlink", "register"} => FlushPath \in Listed
    /\ cpc \in {"finish", "commit"} => Output \notin Listed
    /\ cpc \in {"remove", "install"} =>
          /\ Output \in Listed
          /\ \A i \in DOMAIN manifest : \A fe \in manifest[i].added :
                fe.path = Output => manifest[i].deleted = cin

\* The inputs of a merge are unlinked before its output is installed.
UnlinkedInv == cpc = "install" => cin \subseteq gone

\* A file of an edit's deletions that is still on disk, and is not about to go with the
\* process, keeps the file that the edit added on disk: replaying the edit deletes it.
StrayFilesInv ==
    /\ phase = "segments" => \A i \in DOMAIN manifest : manifest[i].deleted \cap DOMAIN sst = {}
    /\ phase # "segments" => \A i \in DOMAIN manifest :
          \A p \in manifest[i].deleted \cap (DOMAIN sst \ gone) : \A fe \in manifest[i].added :
              /\ fe.path \in DOMAIN sst /\ sst[fe.path].done
              /\ Opened => fe.path \notin OpenReaders

\* The edits replayed so far added the files that are open, and have not deleted them.
ReplayedInv ==
    phase = "manifest" => \A p \in files : \E i \in DOMAIN manifest :
        /\ i < editIdx /\ \E fe \in manifest[i].added : fe.path = p
        /\ \A j \in DOMAIN manifest : i <= j /\ j < editIdx => p \notin manifest[j].deleted

StrayInv ==
    /\ EditsInv /\ ListedInv /\ UnlinkedInv /\ StrayFilesInv /\ ReplayedInv
    /\ OpenMatchesManifest

-----------------------------------------------------------------------------
(* The merges of the first session *)

\* No window gets too many files again once the store has been reopened.
MergesInFirstSession == cpc = "create" => sessions <= 1

\* Until the store is opened again the numbers of the merged files are those that
\* compactSeq has gone through.
FirstInv ==
    /\ sessions = 0 => Names = {}
    /\ sessions = 1 /\ phase # "down" =>
          \A p \in Names : ~IsFlushed(p) => p.compact \in 1 .. compactSeq

=============================================================================
