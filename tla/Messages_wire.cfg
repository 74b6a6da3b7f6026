SPECIFICATION Spec
\* SLURMDBD_VERSION_MIN to SLURMDBD_VERSION
CONSTANT Versions = {2, 3, 4, 5}
INVARIANTS ReadBack FieldsArrive FreedAfterUse
