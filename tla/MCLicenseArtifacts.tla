--------------------------- MODULE MCLicenseArtifacts ---------------------------
(***************************************************************************)
(* A small instance of LicenseArtifacts for TLC.                           *)
(***************************************************************************)
EXTENDS LicenseArtifacts

\* Releases differ in where the licence is declared and in the files they bundle.
MCMetadata == <<
    [expression |-> {"mit"},        classifiers |-> {},         field |-> {},      files |-> {"LICENSE"}],
    [expression |-> {},             classifiers |-> {"apache"}, field |-> {"gpl"}, files |-> {"LICENSE", "licenses/LICENSE"}],
    [expression |-> {"gpl"},        classifiers |-> {"mit"},    field |-> {},      files |-> {"LICENSE"}],
    [expression |-> {"gpl", "mit"}, classifiers |-> {},         field |-> {},      files |-> {"LICENSE"}],
    [expression |-> {},             classifiers |-> {},         field |-> {"mit"}, files |-> {}],
    [expression |-> {},             classifiers |-> {},         field |-> {"gpl"}, files |-> {"LICENSE"}] >>
=============================================================================
