------------------------ MODULE MCRegistryObservation ------------------------
(* An instance of RegistryObservation for TLC: an index (3) of one manifest
   (2) with one blob (1), and a signature (4) of that manifest with a blob of
   its own (5).                                                             *)
EXTENDS RegistryObservation

Digests == 1..5
Kinds == <<"BLOB", "MANIFEST", "INDEX", "MANIFEST", "BLOB">>
Contents == <<{}, {1}, {2}, {5}, {}>>
Subjects == <<Absent, Absent, Absent, 2, Absent>>
Image == {1, 2, 3}
Root == {2}
==============================================================================
