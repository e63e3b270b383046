------------------------- MODULE MCAdministratorPages -------------------------
(***************************************************************************)
(* The two pages of an administrator: one shows the configuration pane, on *)
(* the other the console is used.  They share no state, so that a behavior *)
(* has one of them at work: their product would only repeat this.          *)
(***************************************************************************)
EXTENDS ConfigurationPane, PackageConsole, TLC

VARIABLE page

vars == <<page, paneVars, consoleVars>>

Init == /\ page \in {"configuration", "console"}
        /\ PaneInit
        /\ page = "console" => saved = NothingConfigured
        /\ ConsoleInit

Next == \/ /\ page = "configuration"
           /\ PaneNext
           /\ UNCHANGED <<page, consoleVars>>
        \/ /\ page = "console"
           /\ ConsoleNext
           /\ UNCHANGED <<page, paneVars>>

Spec == Init /\ [][Next]_vars

Symmetry == Permutations(Requests)
=============================================================================
