------------------------------- MODULE Filters -------------------------------
(***************************************************************************)
(* What is left of the marks that wait (web/app.js) and of the events      *)
(* beside the queue (src/adapters/media/browser-websocket.ts) when some    *)
(* are taken out; the others keep their order.                             *)
(***************************************************************************)
EXTENDS Naturals, Sequences

Without(s, gone) ==
    LET kept[i \in 0 .. Len(s)] ==
            IF i = 0 THEN <<>>
            ELSE IF s[i] \in gone THEN kept[i - 1] ELSE Append(kept[i - 1], s[i])
    IN  kept[Len(s)]
=============================================================================
