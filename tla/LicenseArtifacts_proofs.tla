----------------------- MODULE LicenseArtifacts_proofs -----------------------
(***************************************************************************)
(* Proofs about LicenseArtifacts, for any packages, releases of them and   *)
(* number of changes.                                                      *)
(* No invariant relates the working tree or the branch to uv.lock: what is *)
(* committed may be anything a cut short run left.  The check reads it all *)
(* once more, and needs only that a tree has one file per path.            *)
(***************************************************************************)
EXTENDS LicenseArtifacts, TLAPS

\* A tree is a record of a NOTICE and files, and nothing else.
Recorded(tree) == tree = [notice |-> tree.notice, files |-> tree.files]

RecordInv ==
    /\ Recorded(work) /\ Recorded(committed) /\ Recorded(shipped.tree)
    /\ Recorded(outputs)

KnownLicenses == {"apache", "mozilla", "psf", "bsd", "mit"}

\* ShippedIsAttributed, of one tree and the image it stands beside.
Attributed(packages, tree, uvFiles) ==
    /\ \A p \in Listed(packages) :
          /\ Release[packages[p]].declared \cap KnownLicenses # {}
          /\ Release[packages[p]].files # {}
          /\ \A f \in Release[packages[p]].files :
                 \E e \in tree.files : e.path[1] = p /\ e.text = <<packages[p], f>>
    /\ \A e \in tree.files :
          e.path[1] \in Listed(packages) /\ e.text[1] = packages[e.path[1]]
    /\ tree.notice.of = packages
    /\ tree.notice.uv => uvFiles = UvFiles

PushedInv == Attributed(shipped.packages, shipped.tree, shipped.uv)

IInv == TypeOK /\ RecordInv /\ PushedInv

-----------------------------------------------------------------------------
(* The script's operators.                                                 *)

LEMMA Releases == /\ DOMAIN Metadata = 1..Len(Metadata)
                  /\ Len(Metadata) \in Nat /\ 1 \in 0..Len(Metadata)
BY MetadataAssumption

\* license_family tells "other" only of a declaration without any known licence.
LEMMA FamilyKnown ==
    ASSUME NEW r, LicenseFamily(r) # "other"
    PROVE  Release[r].declared \cap KnownLicenses # {}
<1> DEFINE named == {i \in DOMAIN Families : Families[i] \in Release[r].declared}
<1>1. named # {}
  BY DEF LicenseFamily
<1>2. \A i \in DOMAIN Families : Families[i] \in KnownLicenses
  BY DEF Families, KnownLicenses
<1> QED BY <1>1, <1>2

\* The files of a package carry its name and the text of its release.
LEMMA FilesOfPackages ==
    ASSUME NEW packages \in PackagesType, NEW e \in LicenseFiles(packages)
    PROVE  /\ e.path[1] \in Listed(packages)
           /\ e.text[1] = packages[e.path[1]]
           /\ e.text[1] \in DOMAIN Metadata
<1>1. PICK p \in Listed(packages) :
         \E f \in Release[packages[p]].files :
            e = [path |-> <<p, f>>, text |-> <<packages[p], f>>]
  BY DEF LicenseFiles
<1>2. packages[p] \in 1..Len(Metadata)
  BY Releases DEF Listed, PackagesType
<1> QED BY <1>1, <1>2, Releases

\* Every licence file of a listed package is one of the files to be bundled.
LEMMA FilesComplete ==
    ASSUME NEW packages, NEW p \in Listed(packages),
           NEW f \in Release[packages[p]].files
    PROVE  [path |-> <<p, f>>, text |-> <<packages[p], f>>] \in LicenseFiles(packages)
BY DEF LicenseFiles

\* A file that is put into a tree replaces the one at its path.
LEMMA PutFile ==
    ASSUME NEW tree, TreeOK(tree), Recorded(tree),
           NEW e, e.path[1] \in Packages, e.text[1] \in DOMAIN Metadata,
           NEW after,
           after = [tree EXCEPT !.files = {f \in @ : f.path # e.path} \cup {e}]
    PROVE  TreeOK(after) /\ Recorded(after)
<1>1. /\ after.notice = tree.notice
      /\ after.files = {f \in tree.files : f.path # e.path} \cup {e}
      /\ Recorded(after)
  BY DEF Recorded
<1> QED BY <1>1 DEF TreeOK

\* What passes the gates and the comparison with what the image should have is attributed,
\* if no path has two files.
LEMMA CheckedIsAttributed ==
    ASSUME lock \in PackagesType, TreeOK(committed), CheckPasses
    PROVE  Attributed(lock, committed, uv)
<1>1. /\ LicenseFiles(lock) \subseteq committed.files
      /\ committed.notice = [of |-> lock, uv |-> uv # {}]
      /\ \A e \in committed.files : \E o \in LicenseFiles(lock) : o.path = e.path
  BY DEF CheckPasses, NoDrift, BuildOutputs, Paths
<1>2. ASSUME NEW p \in Listed(lock)
      PROVE  /\ Release[lock[p]].declared \cap KnownLicenses # {}
             /\ Release[lock[p]].files # {}
  BY FamilyKnown DEF CheckPasses, PackagesPass
<1>3. ASSUME NEW p \in Listed(lock), NEW f \in Release[lock[p]].files
      PROVE  \E e \in committed.files : e.path[1] = p /\ e.text = <<lock[p], f>>
  BY <1>1, FilesComplete
<1>4. ASSUME NEW e \in committed.files
      PROVE  e.path[1] \in Listed(lock) /\ e.text[1] = lock[e.path[1]]
  <2>1. PICK o \in LicenseFiles(lock) : o.path = e.path
    BY <1>1
  <2>2. o = e
    BY <1>1, <2>1 DEF TreeOK
  <2> QED BY <2>2, FilesOfPackages
<1>5. committed.notice.of = lock
  BY <1>1
<1>6. committed.notice.uv <=> uv # {}
  <2> DEFINE present == uv # {}
  <2>1. committed.notice = [of |-> lock, uv |-> present]
    BY <1>1
  <2>2. committed.notice.uv = present
    <3> HIDE DEF present
    <3> QED BY <2>1
  <2> QED BY <2>2, Zenon
<1>7. uv # {} => uv = UvFiles
  BY DEF CheckPasses, UvPass
<1> QED BY <1>2, <1>3, <1>4, <1>5, <1>6, <1>7 DEF Attributed

-----------------------------------------------------------------------------
(* The invariant.                                                          *)

\* What is yet to be written depends on what was extracted, and on nothing read later.
OutputsOK ==
    IF pc \in {"clean", "write"}
       THEN /\ outputs.notice.of = payload /\ outputs.notice.uv \in BOOLEAN
            /\ outputs.files \subseteq LicenseFiles(payload)
       ELSE outputs = EmptyTree

LEMMA OutputsKept ==
    ASSUME TypeOK, UNCHANGED <<pc, outputs, payload>>
    PROVE  OutputsOK'
BY DEF TypeOK, OutputsOK

LEMMA InitInv == Init => IInv
<1> SUFFICES ASSUME Init PROVE IInv
  OBVIOUS
<1>1. Nothing \in PackagesType /\ lock \in PackagesType
  BY Releases DEF Init, Nothing, PackagesType
<1>2. TreeOK(EmptyTree) /\ Recorded(EmptyTree)
  BY <1>1 DEF TreeOK, Recorded, EmptyTree
<1>3. TypeOK
  BY <1>1, <1>2, MaxChangesAssumption DEF Init, TypeOK, UvFiles
<1>4. PushedInv
  BY DEF Init, PushedInv, Attributed, Listed, Nothing, EmptyTree
<1> QED BY <1>2, <1>3, <1>4 DEF Init, IInv, RecordInv

\* The type of the counter after a change, an edit or a kill.
LEMMA ChangeType == ASSUME TypeOK, Change PROVE changes' \in 0..MaxChanges
BY MaxChangesAssumption DEF TypeOK, Change

\* What developers do to the lock, licensing/uv, the image and the trees.
LEMMA DeveloperInv ==
    ASSUME IInv,
           \/ \E p \in Packages, r \in 0..Len(Metadata) : ChangeDependency(p, r)
           \/ \E p \in Packages, r \in DOMAIN Metadata : AddFile(p, r)
           \/ EditUv \/ BuildImage \/ Commit
    PROVE  TypeOK' /\ RecordInv'
<1> USE DEF IInv
<1>1. ASSUME NEW p \in Packages, NEW r \in 0..Len(Metadata), ChangeDependency(p, r)
      PROVE  TypeOK' /\ RecordInv'
  <2> USE <1>1 DEF ChangeDependency
  <2>1. lock' \in PackagesType
    BY DEF TypeOK, PackagesType
  <2>2. changes' \in 0..MaxChanges
    BY ChangeType
  <2> QED BY <2>1, <2>2, OutputsKept DEF OutputsOK, TypeOK, RecordInv
<1>2. ASSUME NEW p \in Packages, NEW r \in DOMAIN Metadata, AddFile(p, r)
      PROVE  TypeOK' /\ RecordInv'
  <2> USE <1>2 DEF AddFile
  <2>1. changes' \in 0..MaxChanges
    BY ChangeType
  <2>2. [Nothing EXCEPT ![p] = r] \in PackagesType
    BY Releases DEF Nothing, PackagesType
  <2>3. PICK e \in LicenseFiles([Nothing EXCEPT ![p] = r]) :
           work' = [work EXCEPT !.files = {f \in @ : f.path # e.path} \cup {e}]
    OBVIOUS
  <2>4. e.path[1] \in Packages /\ e.text[1] \in DOMAIN Metadata
    BY <2>2, FilesOfPackages DEF Listed
  <2>5. TreeOK(work') /\ Recorded(work')
    BY <2>3, <2>4, PutFile DEF TypeOK, RecordInv
  <2> QED BY <2>1, <2>5, OutputsKept DEF OutputsOK, TypeOK, RecordInv
<1>3. ASSUME EditUv PROVE TypeOK' /\ RecordInv'
  BY <1>3, ChangeType, OutputsKept DEF OutputsOK, EditUv, TypeOK, RecordInv
<1>4. ASSUME BuildImage PROVE TypeOK' /\ RecordInv'
  BY <1>4, OutputsKept DEF OutputsOK, BuildImage, TypeOK, RecordInv
<1>5. ASSUME Commit PROVE TypeOK' /\ RecordInv'
  BY <1>5, OutputsKept DEF OutputsOK, Commit, TypeOK, RecordInv
<1> QED BY <1>1, <1>2, <1>3, <1>4, <1>5

\* What the script writes, and where it is cut short.
LEMMA ScriptInv ==
    ASSUME IInv, Script \/ Interrupt
    PROVE  TypeOK' /\ RecordInv'
<1> USE DEF IInv
<1>1. Nothing \in PackagesType
  BY Releases DEF Nothing, PackagesType
<1>2. ASSUME Extract PROVE TypeOK' /\ RecordInv'
  BY <1>2 DEF Extract, TypeOK, RecordInv
<1>3. ASSUME Validate PROVE TypeOK' /\ RecordInv'
  <2> USE <1>3 DEF Validate
  <2>1. CASE pc' = "clean" /\ outputs' = BuildOutputs(payload) /\ UNCHANGED payload
    <3> DEFINE present == uv # {}
    <3>1. outputs' = [notice |-> [of |-> payload, uv |-> present],
                      files |-> LicenseFiles(payload)]
      BY <2>1 DEF BuildOutputs
    <3>2. present \in BOOLEAN
      OBVIOUS
    <3>3. /\ outputs'.notice.of = payload /\ outputs'.notice.uv = present
          /\ outputs'.files = LicenseFiles(payload)
          /\ Recorded(outputs')
      <4> HIDE DEF present
      <4> QED BY <3>1 DEF Recorded
    <3>4. outputs'.notice.uv \in BOOLEAN
      BY <3>2, <3>3, Zenon
    <3>5. LicenseFiles(payload)' = LicenseFiles(payload)
      BY <2>1 DEF LicenseFiles
    <3> QED BY <2>1, <3>3, <3>4, <3>5 DEF TypeOK, RecordInv
  <2>2. CASE End
    BY <1>1, <2>2 DEF End, TypeOK, RecordInv
  <2> QED BY <2>1, <2>2
<1>4. ASSUME Clean PROVE TypeOK' /\ RecordInv'
  <2> USE <1>4 DEF Clean
  <2>1. CASE (\E e \in work.files : work' = [work EXCEPT !.files = @ \ {e}]) /\ UNCHANGED pc
    <3>1. work'.notice = work.notice /\ work'.files \subseteq work.files /\ Recorded(work')
      BY <2>1 DEF RecordInv, Recorded
    <3>2. TreeOK(work')
      BY <3>1 DEF TypeOK, TreeOK
    <3> QED BY <2>1, <3>1, <3>2, OutputsKept DEF OutputsOK, TypeOK, RecordInv
  <2>2. CASE /\ work.files = {}
             /\ work' = [work EXCEPT !.notice = outputs.notice]
             /\ pc' = "write"
    <3>1. work'.notice = outputs.notice /\ work'.files = {} /\ Recorded(work')
      BY <2>2 DEF RecordInv, Recorded
    <3>2. OutputsOK
      BY DEF TypeOK, OutputsOK
    <3>3. outputs.notice.of \in PackagesType /\ outputs.notice.uv \in BOOLEAN
      BY <3>2 DEF OutputsOK, TypeOK
    <3>4. TreeOK(work')
      BY <3>1, <3>3 DEF TreeOK
    <3>5. OutputsOK'
      BY <2>2, <3>2 DEF OutputsOK, LicenseFiles
    <3> QED BY <2>2, <3>1, <3>4, <3>5 DEF TypeOK, OutputsOK, RecordInv
  <2> QED BY <2>1, <2>2
<1>5. ASSUME Write PROVE TypeOK' /\ RecordInv'
  <2> USE <1>5 DEF Write
  <2>1. ASSUME NEW e \in outputs.files,
               outputs' = [outputs EXCEPT !.files = @ \ {e}],
               work' = [work EXCEPT !.files = {f \in @ : f.path # e.path} \cup {e}],
               UNCHANGED <<pc, payload>>
        PROVE  TypeOK' /\ RecordInv'
    <3>1. /\ outputs.notice.of = payload /\ outputs.notice.uv \in BOOLEAN
          /\ outputs.files \subseteq LicenseFiles(payload)
      BY DEF TypeOK
    <3>2. e.path[1] \in Packages /\ e.text[1] \in DOMAIN Metadata
      BY <3>1, FilesOfPackages DEF Listed, TypeOK
    <3>3. TreeOK(work') /\ Recorded(work')
      BY <2>1, <3>2, PutFile DEF TypeOK, RecordInv
    <3>4. /\ outputs'.notice = outputs.notice /\ outputs'.files \subseteq outputs.files
          /\ Recorded(outputs')
      <4> DEFINE left == outputs.files \ {e}
      <4>1. outputs' = [outputs EXCEPT !.files = left] /\ left \subseteq outputs.files
        BY <2>1
      <4> HIDE DEF left
      <4> QED BY <4>1 DEF RecordInv, Recorded
    <3>5. OutputsOK'
      BY <2>1, <3>1, <3>4 DEF OutputsOK, LicenseFiles
    <3> QED BY <2>1, <3>3, <3>4, <3>5 DEF TypeOK, OutputsOK, RecordInv
  <2>2. CASE outputs.files = {} /\ End /\ UNCHANGED work
    BY <1>1, <2>2 DEF End, EmptyTree, Recorded, TypeOK, RecordInv
  <2> QED BY <2>1, <2>2
<1>6. ASSUME Interrupt PROVE TypeOK' /\ RecordInv'
  BY <1>1, <1>6, ChangeType DEF Interrupt, End, EmptyTree, Recorded, TypeOK, RecordInv
<1> QED BY <1>2, <1>3, <1>4, <1>5, <1>6 DEF Script

\* Nothing but a push changes what was pushed last.
LEMMA OnlyShipPushes ==
    ASSUME \/ \E p \in Packages, r \in 0..Len(Metadata) : ChangeDependency(p, r)
           \/ \E p \in Packages, r \in DOMAIN Metadata : AddFile(p, r)
           \/ EditUv \/ BuildImage \/ Commit
           \/ Script \/ Interrupt
           \/ UNCHANGED vars
    PROVE  shipped' = shipped
BY DEF ChangeDependency, AddFile, EditUv, BuildImage, Commit, Script, Extract,
       Validate, Clean, Write, Interrupt, vars

\* A push carries what the check read, and the check was of the packages it carries.
LEMMA ShipInv == ASSUME IInv, Ship PROVE IInv'
<1> USE DEF IInv, Ship
<1>1. shipped' = [packages |-> lock, tree |-> committed, uv |-> uv]
  OBVIOUS
<1>2. TypeOK' /\ RecordInv'
  BY <1>1, OutputsKept DEF OutputsOK, TypeOK, RecordInv
<1>3. PushedInv'
  <2>1. Attributed(lock, committed, uv)
    BY CheckedIsAttributed DEF TypeOK
  <2>2. /\ shipped'.packages = lock
        /\ shipped'.tree = committed
        /\ shipped'.uv = uv
    BY <1>1
  <2> QED BY <2>1, <2>2 DEF PushedInv
<1> QED BY <1>2, <1>3

\* The inductive invariant of the repository and of what was pushed from it.
THEOREM Invariance == Spec => []IInv
<1>1. IInv /\ [Next]_vars => IInv'
  <2> SUFFICES ASSUME IInv, [Next]_vars PROVE IInv'
    OBVIOUS
  <2>1. CASE Ship
    BY <2>1, ShipInv
  <2>2. CASE \/ \E p \in Packages, r \in 0..Len(Metadata) : ChangeDependency(p, r)
             \/ \E p \in Packages, r \in DOMAIN Metadata : AddFile(p, r)
             \/ EditUv \/ BuildImage \/ Commit
             \/ Script \/ Interrupt
             \/ UNCHANGED vars
    <3>1. TypeOK' /\ RecordInv'
      <4>1. CASE UNCHANGED vars
        BY <4>1 DEF IInv, TypeOK, RecordInv, vars, BuildOutputs
      <4> QED BY <2>2, <4>1, DeveloperInv, ScriptInv
    <3>2. PushedInv'
      BY <2>2, OnlyShipPushes DEF IInv, PushedInv
    <3> QED BY <3>1, <3>2 DEF IInv
  <2> QED BY <2>1, <2>2 DEF Next
<1> QED BY InitInv, <1>1, PTL DEF Spec

\* The trees have one file per path, of a package, and the script has only licence files
\* of the image it extracted left to write.
THEOREM TypeCorrect == Spec => []TypeOK
BY Invariance, PTL DEF IInv

\* Whatever the packages, and however many changes, edits and interrupted runs there were,
\* an image that was pushed is attributed.
THEOREM AttributedWhenShipped == Spec => []ShippedIsAttributed
<1>1. IInv => ShippedIsAttributed
  BY DEF IInv, PushedInv, Attributed, ShippedIsAttributed, KnownLicenses
<1> QED BY Invariance, <1>1, PTL
=============================================================================
