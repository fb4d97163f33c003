----------------------------- MODULE MCRecords ------------------------------
(***************************************************************************)
(* Records for TLC.                                                        *)
(***************************************************************************)
EXTENDS Records

\* Every flag that from_dict and from_json look for.
AllFlags == {"isPublic", "isCached", "isEncrypted"}
=============================================================================
