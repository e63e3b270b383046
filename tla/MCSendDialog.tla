---------------------------- MODULE MCSendDialog ----------------------------
(* A document of one's own, one that may only be read, and a folder.        *)
EXTENDS SendDialog, TLC
CONSTANTS doc, other, folder
MCItems == {doc, other, folder}
MCExportable == {doc}
MCWithContent == {doc, other}
MCSelections == {{doc}, {doc, other}, {doc, other, folder}, {folder}}
MCLocales == LocaleList \cup {"en", "de-at"}
Symmetry == Permutations(Requests) \cup Permutations(Actions)
=============================================================================
