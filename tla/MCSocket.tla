------------------------------ MODULE MCSocket ------------------------------
(***************************************************************************)
(* A small instance of ControlSocket for TLC: one client asks for reports, *)
(* one sends every kind of command, good and bad, one clears.              *)
(***************************************************************************)
EXTENDS ControlSocket, TLC

CONSTANTS alice, bob, carol

Bay2 == Word("bay", 2)
NoBay == Word("bay", Bad) \* bay=0, or no number

Commands == {
  <<Plain("CLEAR"), NoBay>>,
  <<Plain("LOCATE"), Plain("off"), Bay2>>,
  <<Plain("LOCATE"), Plain("number"), NoBay>>,
  <<Plain("SHOW"), Plain("level"), Plain("number"), Bay2>>}

Each == (alice :> {<<Plain("STATUS")>>}) @@ (bob :> Commands)
        @@ (carol :> {<<Plain("CLEAR"), Bay2>>})
=============================================================================
