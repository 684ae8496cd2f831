-------------------------- MODULE LicenseArtifacts --------------------------
(***************************************************************************)
(* scripts/gen_licenses.py around one image variant: dependencies change,  *)
(* somebody builds an image and regenerates licensing/<cloud>/ from it,    *)
(* file by file and perhaps not to the end, commits what is there, and CI  *)
(* runs the same script with --check before it pushes the image it built.  *)
(*                                                                         *)
(* A release of a package stands for its metadata: the licence names that  *)
(* its License-Expression, its classifiers and its License field hold, and *)
(* its licence files.                                                      *)
(* The text of a licence file is told apart by its release.                *)
(***************************************************************************)
EXTENDS Naturals, FiniteSets, Sequences

CONSTANTS
    Packages,       \* what uv.lock may list
    Metadata,       \* of the releases that a package may have
    MaxChanges      \* bound: changed dependencies, edits of licensing/uv and kills

\* What CONTAINER_EXTRACTOR reads of an installed package.
Extracted == [expression : SUBSET STRING, classifiers : SUBSET STRING,
              field : SUBSET STRING, files : SUBSET STRING]

ASSUME MetadataAssumption == Metadata \in Seq(Extracted) /\ Metadata # <<>>
ASSUME MaxChangesAssumption == MaxChanges \in Nat

VARIABLES
    lock,           \* the release of each package in uv.lock, 0 when it has none
    uv,             \* the files in licensing/uv, kept by hand
    local,          \* the dependencies of the image built locally
    work,           \* licensing/<cloud>/ in the working tree
    committed,      \* and at the head of the branch
    pc,             \* where the script is, run without --check
    payload,        \* the packages it extracted
    outputs,        \* what it made of them, less the files it has written
    shipped,        \* the image pushed last: its packages, its licences
    changes

vars == <<lock, uv, local, work, committed, pc, payload, outputs, shipped, changes>>

-----------------------------------------------------------------------------
(* Packages and their metadata, as CONTAINER_EXTRACTOR reads them.         *)

Nothing == [p \in Packages |-> 0]

EmptyTree == [notice |-> [of |-> Nothing, uv |-> FALSE], files |-> {}]

Listed(packages) == {p \in Packages : packages[p] # 0}

DeclaredLicense(m) ==
    IF m.expression # {} THEN m.expression
    ELSE IF m.classifiers # {} THEN m.classifiers ELSE m.field

\* A release, as the rest of the script looks at it.
Release ==
    [r \in DOMAIN Metadata |->
        [declared |-> DeclaredLicense(Metadata[r]), files |-> Metadata[r].files]]

\* LICENSE_FAMILIES, the first one named in the declared licence wins.
Families == <<"apache", "mozilla", "psf", "bsd", "mit">>

LicenseFamily(r) ==
    LET named == {i \in DOMAIN Families : Families[i] \in Release[r].declared}
    IN IF named = {} THEN "other"
       ELSE Families[CHOOSE i \in named : \A j \in named : i <= j]

\* check_licenses_present, check_license_families_recognized
PackagesPass(packages) ==
    \A p \in Listed(packages) :
        Release[packages[p]].files # {} /\ LicenseFamily(packages[p]) # "other"

UvFiles == {"LICENSE-APACHE", "LICENSE-MIT"}

\* uv_license_present aborts on a directory that lacks one of the files.
UvPass == uv \in {{}, UvFiles}

\* Licence files are keyed by their whole path under dist-info.
LicenseFiles(packages) ==
    UNION {{[path |-> <<p, f>>, text |-> <<packages[p], f>>] : f \in Release[packages[p]].files}
              : p \in Listed(packages)}

\* build_outputs: the NOTICE, a rendering of the packages with their licence
\* families and of whether licensing/uv is there, and the bundled files.
BuildOutputs(packages) ==
    [notice |-> [of |-> packages, uv |-> uv # {}], files |-> LicenseFiles(packages)]

Paths(tree) == {e.path : e \in tree.files}

\* Mutant of NoDrift: only what is missing or changed counts.
NoDriftOneWay(tree, expected) ==
    expected.files \subseteq tree.files /\ tree.notice = expected.notice

\* find_drift: nothing is missing or changed, and nothing stale.
NoDrift(tree, expected) ==
    /\ expected.files \subseteq tree.files /\ tree.notice = expected.notice
    /\ Paths(tree) \subseteq Paths(expected)

-----------------------------------------------------------------------------
(* The repository and its developers.                                      *)

Change == changes < MaxChanges /\ changes' = changes + 1

ChangeDependency(p, r) ==
    /\ Change
    /\ lock[p] # r
    /\ lock' = [lock EXCEPT ![p] = r]
    /\ UNCHANGED <<uv, local, work, committed, pc, payload, outputs, shipped>>

EditUv ==
    /\ Change
    /\ uv' \in SUBSET UvFiles \ {uv}
    /\ UNCHANGED <<lock, local, work, committed, pc, payload, outputs, shipped>>

\* docker build
BuildImage ==
    /\ local # lock
    /\ local' = lock
    /\ UNCHANGED <<lock, uv, work, committed, pc, payload, outputs, shipped, changes>>

\* A file is put into the working tree, by hand or by a merge with another branch.
AddFile(p, r) ==
    /\ Change
    /\ \E e \in LicenseFiles([Nothing EXCEPT ![p] = r]) :
          work' = [work EXCEPT !.files = {f \in @ : f.path # e.path} \cup {e}]
    /\ UNCHANGED <<lock, uv, local, committed, pc, payload, outputs, shipped>>

\* git commit, whatever the state of the working tree is.
Commit ==
    /\ committed # work
    /\ committed' = work
    /\ UNCHANGED <<lock, uv, local, work, pc, payload, outputs, shipped, changes>>

-----------------------------------------------------------------------------
(* The script, writing.                                                    *)

End == pc' = "idle" /\ payload' = Nothing /\ outputs' = EmptyTree

\* extract; nobody runs it when there is nothing to regenerate.
Extract ==
    /\ pc = "idle"
    /\ work # BuildOutputs(local)
    /\ payload' = local
    /\ pc' = "validate"
    /\ UNCHANGED <<lock, uv, local, work, committed, outputs, shipped, changes>>

\* The gates of main, before the tree is touched; sys.exit ends a run.  What is to be
\* written is settled here, whether licensing/uv is there included.
Validate ==
    /\ pc = "validate"
    /\ IF PackagesPass(payload) /\ UvPass
          THEN pc' = "clean" /\ outputs' = BuildOutputs(payload) /\ UNCHANGED payload
          ELSE End
    /\ UNCHANGED <<lock, uv, local, work, committed, shipped, changes>>


\* Mutant of Clean: the licence files are read from the image once more.
CleanReadsAgain ==
    /\ pc = "clean"
    /\ pc' = "write"
    /\ work' = [notice |-> outputs.notice, files |-> {}]
    /\ outputs' = BuildOutputs(local)
    /\ UNCHANGED <<lock, uv, local, committed, payload, shipped, changes>>

\* write_outputs: the LICENSES tree is emptied file by file, the NOTICE is the first
\* file to be written, ...
Clean ==
    /\ pc = "clean"
    /\ \/ /\ \E e \in work.files : work' = [work EXCEPT !.files = @ \ {e}]
          /\ UNCHANGED pc
       \/ /\ work.files = {}
          /\ work' = [work EXCEPT !.notice = outputs.notice]
          /\ pc' = "write"
    /\ UNCHANGED <<lock, uv, local, committed, payload, outputs, shipped, changes>>

\* ... and the licence files follow; a file already there is written over.
Write ==
    /\ pc = "write"
    /\ \/ \E e \in outputs.files :
             /\ outputs' = [outputs EXCEPT !.files = @ \ {e}]
             /\ work' = [work EXCEPT !.files = {f \in @ : f.path # e.path} \cup {e}]
             /\ UNCHANGED <<pc, payload>>
       \/ outputs.files = {} /\ End /\ UNCHANGED work
    /\ UNCHANGED <<lock, uv, local, committed, shipped, changes>>

\* Docker fails, or the script is interrupted.
Interrupt ==
    /\ pc # "idle"
    /\ Change
    /\ End
    /\ UNCHANGED <<lock, uv, local, work, committed, shipped>>

-----------------------------------------------------------------------------
(* CI: an image is built from the branch, checked and pushed; its licences *)
(* are the committed ones, and licensing/uv as it is.                      *)

CheckPasses ==
    PackagesPass(lock) /\ UvPass /\ NoDrift(committed, BuildOutputs(lock))

Ship ==
    /\ CheckPasses
    /\ shipped' = [packages |-> lock, tree |-> committed, uv |-> uv]
    /\ shipped' # shipped
    /\ UNCHANGED <<lock, uv, local, work, committed, pc, payload, outputs, changes>>

-----------------------------------------------------------------------------
Init ==
    /\ lock \in [Packages -> {0, 1}]
    /\ uv \in {{}, UvFiles}
    /\ local = Nothing
    /\ work = EmptyTree
    /\ committed = EmptyTree
    /\ pc = "idle"
    /\ payload = Nothing
    /\ outputs = EmptyTree
    /\ shipped = [packages |-> Nothing, tree |-> EmptyTree, uv |-> {}]
    /\ changes = 0

Script == Extract \/ Validate \/ Clean \/ Write

Next ==
    \/ \E p \in Packages, r \in 0..Len(Metadata) : ChangeDependency(p, r)
    \/ \E p \in Packages, r \in DOMAIN Metadata : AddFile(p, r)
    \/ EditUv \/ BuildImage \/ Commit
    \/ Script \/ Interrupt
    \/ Ship

\* A developer whose build is refused builds, regenerates and commits again
\* (licensing/README.md), and CI runs on every commit.
Fairness == WF_vars(BuildImage) /\ WF_vars(Script) /\ WF_vars(Commit) /\ WF_vars(Ship)

Spec == Init /\ [][Next]_vars /\ Fairness

-----------------------------------------------------------------------------
PackagesType == [Packages -> 0..Len(Metadata)]

TreeOK(tree) ==
    /\ tree.notice.of \in PackagesType /\ tree.notice.uv \in BOOLEAN
    /\ \A e \in tree.files : e.path[1] \in Packages /\ e.text[1] \in DOMAIN Metadata
    /\ \A e, f \in tree.files : e.path = f.path => e = f

TypeOK ==
    /\ {lock, local, payload, shipped.packages} \subseteq PackagesType
    /\ uv \subseteq UvFiles /\ shipped.uv \subseteq UvFiles
    /\ TreeOK(work) /\ TreeOK(committed) /\ TreeOK(shipped.tree)
    /\ pc \in {"idle", "validate", "clean", "write"}
    /\ IF pc \in {"clean", "write"}
          THEN /\ outputs.notice.of = payload /\ outputs.notice.uv \in BOOLEAN
               /\ outputs.files \subseteq LicenseFiles(payload)
          ELSE outputs = EmptyTree
    /\ changes \in 0..MaxChanges

\* A dependency change cannot ship without its licence artifacts (gen_licenses.py,
\* licensing/README.md): an image that was pushed carries every licence file of every
\* package in it, with that release's text, none of a package it does not have, and
\* a NOTICE of its packages, each under some known licence, that cites uv's files only if
\* the image has them (uv_license_present); whatever was forgotten, cut short or
\* committed halfway.  (One known licence is enough for license_family: what
\* stands beside it in the declaration need not be known.)
ShippedIsAttributed ==
    /\ \A p \in Listed(shipped.packages) :
          LET r == shipped.packages[p]
          IN /\ Release[r].declared \cap {"apache", "mozilla", "psf", "bsd", "mit"} # {}
             /\ Release[r].files # {}
             /\ \A f \in Release[r].files :
                    \E e \in shipped.tree.files : e.path[1] = p /\ e.text = <<r, f>>
    /\ \A e \in shipped.tree.files :
          e.path[1] \in Listed(shipped.packages) /\ e.text[1] = shipped.packages[e.path[1]]
    /\ shipped.tree.notice.of = shipped.packages
    /\ shipped.tree.notice.uv => shipped.uv = UvFiles

=============================================================================
