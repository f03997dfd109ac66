--------------------------- MODULE ServingCertificate --------------------------
(* What the backend promises about its serving certificate, without its         *)
(* threads: a client that connects gets a certificate and a key of the same     *)
(* generation, of one that has been written completely, never of an older one   *)
(* than some client got before, and a rotation reaches clients without anybody  *)
(* restarting the server.                                                       *)
EXTENDS Naturals

VARIABLES
  published,  \* newest generation whose two files have been written
  newest,     \* newest generation that a client could get so far
  up,         \* the server accepts connections
  pair        \* [cert, key]: what a client that connects now gets, if up

svars == <<published, newest, up, pair>>

NoPair  == <<>>
Pair(g) == [cert |-> g, key |-> g]

SInit == published = 0 /\ newest = 0 /\ up = FALSE /\ pair = NoPair

Publish == /\ published' = published + 1
           /\ UNCHANGED <<newest, up, pair>>

(* The server comes up with a pair, or replaces the one it serves. *)
Present == /\ \E g \in newest..published : newest' = g /\ pair' = Pair(g)
           /\ up' = TRUE
           /\ UNCHANGED published

Close == /\ up' = FALSE
         /\ pair' = NoPair
         /\ UNCHANGED <<published, newest>>

SNext == Publish \/ Present \/ Close

SSpec == SInit /\ [][SNext]_svars
================================================================================
