--------------------------- MODULE MCPackageItems ---------------------------
(* The digits that follow the stem of a file name: d and g have the same     *)
(* name, and that of e is d's with the number 1.                             *)
EXTENDS PackageItems, TLC
CONSTANTS d, e, g, p8, cm
MCRepository == d :> p8 @@ e :> p8 @@ g :> cm
MCFileName == d :> <<>> @@ e :> <<1>> @@ g :> <<>>
MCNumbered(name, i) == Append(name, i)
=============================================================================
